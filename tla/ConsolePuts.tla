---------------------------- MODULE ConsolePuts ----------------------------
(***************************************************************************)
(* src/uefistub/console.c: efi_puts decodes a UTF-8 string character by    *)
(* character into a buffer of UTF-16 units and hands the buffer to the     *)
(* console whenever it may not have room for the next character.  Octets,  *)
(* code points and units are the numbers the code computes with.  The      *)
(* callers that make the string of a number are those of console.c,        *)
(* print_size of stub.c and print_list_entry of gop.c.                     *)
(***************************************************************************)
EXTENDS StringOps

CONSTANTS
  Strings,  (* strings to print: sequences of octets without the final NUL  *)
  Numbers,  (* numbers to print                                             *)
  KILO,     (* unit of print_size, 1024 in the code                         *)
  LIM       (* units in the buffer, 128 in the code                         *)

(* An octet of a string; NUL ends it. *)
Byte == 1 .. 255

ASSUME LimAssumption == LIM \in Nat /\ LIM > 3
ASSUME StringsAssumption == Strings \subseteq Seq(Byte)
ASSUME NumbersAssumption == Numbers \subseteq 0 .. Power(2, BITS) - 1
(* Numbers have the two hexadecimal digits that efi_put0h is asked for.   *)
ASSUME DigitsAssumption == BITS > 4
ASSUME KiloAssumption == KILO \in Nat /\ KILO > 1

VARIABLES
  call,  (* the function called and its argument                            *)
  str,   (* the argument of efi_puts                                        *)
  s8,    (* octet to be decoded next                                        *)
  buf,   (* units in the buffer                                             *)
  out,   (* buffers handed to the console                                   *)
  peak,  (* history: largest pos a NUL was stored at                        *)
  far    (* history: last octet read                                        *)

vars == <<call, str, s8, buf, out, peak, far>>

-----------------------------------------------------------------------------
(* What the callers make of a number *)

(* Digits of the widest number in base 16: 16 in the code. *)
HEX == (BITS + 3) \div 4

(* The size of each caller's local buf. *)
BufSize(fn) ==
  CASE fn = "efi_putd" -> DEC + 2 [] fn \in {"efi_puth", "efi_put0h"} -> HEX + 1
    [] fn = "print_list_entry" -> 4

(* Mutant: the zeros are set behind the digits and stay there. *)
PaddedBehind(digits, size) ==
  SubSeq(memset(digits \o [i \in 1 .. size |-> 0], Len(digits) + 1, 48, size - 1 - Len(digits)).mem,
         1, size - 1)

(* Digits are padded with zeros to fill a buffer of the given size, in the *)
(* buffer: reversed, the zeros set behind them, and reversed again.        *)
Padded(digits, size) ==
  LET buffer == digits \o [i \in 1 .. size - Len(digits) |-> 0]
      zeros  == memset(strrev(buffer, 1), Len(digits) + 1, 48, size - Len(digits)).mem
  IN SubSeq(strrev([zeros EXCEPT ![size] = 0], 1), 1, size - 1)

(* From the digit wanted on, or from the first of the value. *)
efi_put0h(value, digits) ==
  LET n     == Len(u64tostr(value, 16))
      shown == IF n > digits THEN n ELSE digits
  IN SubSeq(Padded(u64tostr(value, 16), HEX + 1), HEX - shown + 1, HEX)

(* B, kB, MB, GB, TB *)
SizeSuffixes == << <<66>>, <<107, 66>>, <<77, 66>>, <<71, 66>>, <<84, 66>> >>

(* How often print_size divides by the unit. *)
Scale(size) ==
  IF size % KILO # 0 THEN 0
  ELSE LET enough == {i \in 0 .. 4 : i = 4 \/ size \div Power(KILO, i) <= KILO} IN Least(enough)

print_size(size) == u64tostr(size \div Power(KILO, Scale(size)), 10) \o SizeSuffixes[Scale(size) + 1]

Text(c) ==
  CASE c.fn = "efi_puts"         -> c.arg
    [] c.fn = "efi_putd"         -> u64tostr(c.arg, 10)
    [] c.fn = "efi_puth"         -> u64tostr(c.arg, 16)
    [] c.fn = "efi_put0h"        -> efi_put0h(c.arg, c.digits)
    [] c.fn = "print_size"       -> print_size(c.arg)
    [] c.fn = "print_list_entry" -> Padded(u64tostr(c.arg, 10), 4)

(* A mode number of more than three digits does not fit print_list_entry's *)
(* buffer: what the build does then is not modelled.                       *)
Calls ==
  [fn : {"efi_puts"}, arg : Strings]
    \cup [fn : {"efi_putd", "efi_puth", "print_size"}, arg : Numbers]
    \cup [fn : {"efi_put0h"}, arg : Numbers, digits : {2, HEX}]
    \cup [fn : {"print_list_entry"}, arg : Numbers \cap 0 .. 999]

Init ==
  /\ call \in Calls /\ str = Text(call)
  /\ s8 = 1 /\ buf = <<>> /\ out = <<>>
  /\ peak = 0 /\ far = 1

(* The octet at position i; the string ends with NUL. *)
Octet(i) == IF i <= Len(str) THEN str[i] ELSE 0

-----------------------------------------------------------------------------
(* utf8_to_utf32 *)

Bool(b) == IF b THEN 1 ELSE 0

(* Leading one bits of an octet: how long its sequence claims to be. *)
LeadingOnes(c) ==
  Bool(c >= 128) + Bool(c >= 192) + Bool(c >= 224) + Bool(c >= 240)
    + Bool(c >= 248) + Bool(c >= 252) + Bool(c >= 254) + Bool(c >= 255)

(* Mutant: any octet, NUL included, continues a sequence. *)
AnyTrailing(c) == c >= 0

Trailing(c) == c \div 64 = 2

(* How many of the next k octets are trailing octets in a row. *)
TrailingFrom(i, k) ==
  Cardinality({j \in 1 .. k : \A t \in 1 .. j : Trailing(Octet(i + t))})

(* The bits of the k + 1 octets from i on, without their markers. *)
Bits(i, k) ==
  LET bits(j) == Octet(i + j) % 64
      lead(m) == (Octet(i) % m) * 64 + bits(1)
  IN IF k = 1 THEN lead(32)
     ELSE IF k = 2 THEN lead(16) * 64 + bits(2)
     ELSE (lead(8) * 64 + bits(2)) * 64 + bits(3)

(* Mutant: overlong sequences are accepted. *)
ValidOverlong(c32, k) == c32 <= 1114111 /\ (c32 \div 2048) % 32 # 27

(* In range, no surrogate (by the low 16 bits), and not overlong. *)
Valid(c32, k) ==
  /\ c32 <= 1114111
  /\ (c32 \div 2048) % 32 # 27
  /\ k = Bool(c32 >= 128) + Bool(c32 >= 2048) + Bool(c32 >= 65536)

(* The code point decoded at i and the octets it takes; an octet that      *)
(* starts no valid sequence stands for itself.                             *)
Decode(i) ==
  LET clen == LeadingOnes(Octet(i))
      k    == clen - 1
  IN IF clen \in 2 .. 4 /\ TrailingFrom(i, k) = k /\ Valid(Bits(i, k), k)
     THEN [c32 |-> Bits(i, k), len |-> clen]
     ELSE [c32 |-> Octet(i), len |-> 1]

(* The last octet the decoding at i looks at. *)
LastRead(i) ==
  LET clen == LeadingOnes(Octet(i))
      good == TrailingFrom(i, clen - 1)
  IN IF clen \in 2 .. 4
     THEN i + (IF good = clen - 1 THEN good ELSE good + 1)
     ELSE i

-----------------------------------------------------------------------------
(* efi_puts *)

(* Mutant: no surrogate pairs. *)
UnpairedUnits(c32) == <<c32>>

(* A code point above plane 0 becomes a surrogate pair. *)
Units(c32) ==
  IF c32 < 65536 THEN <<c32>>
  ELSE <<(55296 - 64) + (c32 \div 1024), 56320 + (c32 % 1024)>>

(* Mutant: room for one unit is taken to be enough. *)
FullLate(pos) == pos >= LIM - 1

Full(pos) == pos >= LIM - 2

(* Mutant: a buffer is handed on only when it is full. *)
PutCharUnflushed ==
  /\ Octet(s8) # 0
  /\ LET d   == Decode(s8)
         now == buf \o (IF Octet(s8) = 10 THEN <<13>> ELSE <<>>) \o Units(d.c32)
     IN /\ s8' = s8 + d.len
        /\ IF Full(Len(now))
           THEN out' = Append(out, now) /\ buf' = <<>> /\ peak' = IF Len(now) > peak THEN Len(now) ELSE peak
           ELSE buf' = now /\ UNCHANGED <<out, peak>>
  /\ far' = IF LastRead(s8) > far THEN LastRead(s8) ELSE far
  /\ UNCHANGED <<call, str>>

(* One turn of the loop: a newline gets a carriage return before it, and   *)
(* the buffer is handed on at the end of the string or when another        *)
(* character might not fit.                                                *)
PutChar ==
  /\ Octet(s8) # 0
  /\ LET d   == Decode(s8)
         now == buf \o (IF Octet(s8) = 10 THEN <<13>> ELSE <<>>) \o Units(d.c32)
     IN /\ s8' = s8 + d.len
        /\ IF Octet(s8') = 0 \/ Full(Len(now))
           THEN /\ out' = Append(out, now) /\ buf' = <<>>
                /\ peak' = IF Len(now) > peak THEN Len(now) ELSE peak
           ELSE /\ buf' = now
                /\ UNCHANGED <<out, peak>>
  /\ far' = IF LastRead(s8) > far THEN LastRead(s8) ELSE far
  /\ UNCHANGED <<call, str>>

Spec == Init /\ [][PutChar]_vars

-----------------------------------------------------------------------------
(* Properties *)

U16_MAX == 65535

(* What is stored of a character: no NUL. *)
Unit == 1 .. U16_MAX

(* The buffers hold 16-bit units without a NUL among them, and none that   *)
(* is printed is empty; the position never passes the final NUL.           *)
TypeOK ==
  /\ call \in Calls /\ str = Text(call) /\ str \in Seq(Byte)
  /\ s8 \in 1 .. Len(str) + 1
  /\ buf \in Seq(Unit)
  /\ out \in Seq(Seq(Unit) \ {<<>>})
  /\ peak \in Nat /\ far \in Nat

(* Neither the units of a character nor the NUL behind them are ever       *)
(* stored outside the buffer.  (console.c:69-82)                           *)
BufferFits == Len(buf) <= LIM - 3 /\ peak <= LIM - 1

(* Decoding stops at the NUL, even in the middle of a sequence.            *)
(* (console.c:36-43)                                                       *)
NeverPastNul == far <= Len(str) + 1

(* The units of a character stand together. *)
High(u) == 55296 <= u /\ u <= 56319
Low(u)  == 56320 <= u /\ u <= 57343

Whole(b) ==
  \A k \in DOMAIN b :
    /\ b[k] = 10 => k > 1 /\ b[k - 1] = 13
    /\ High(b[k]) => k < Len(b) /\ Low(b[k + 1])
    /\ Low(b[k]) => k > 1 /\ High(b[k - 1])

(* A buffer ends between characters: neither a surrogate pair nor a newline*)
(* with its carriage return is torn apart or incomplete, and at the end    *)
(* nothing is left unprinted.  (console.c:69-85)                           *)
BuffersWhole ==
  /\ \A n \in DOMAIN out : Whole(out[n])
  /\ Octet(s8) = 0 => buf = <<>>

(* Well-formed UTF-8 by the ranges of the Unicode standard (table 3-7), as *)
(* an independent definition.                                              *)
In(i, lo, hi) == lo <= Octet(i) /\ Octet(i) <= hi

TwoOctets(i) == In(i, 194, 223) /\ In(i + 1, 128, 191)

ThreeOctets(i) ==
  /\ \/ In(i, 224, 224) /\ In(i + 1, 160, 191)
     \/ (In(i, 225, 236) \/ In(i, 238, 239)) /\ In(i + 1, 128, 191)
     \/ In(i, 237, 237) /\ In(i + 1, 128, 159)
  /\ In(i + 2, 128, 191)

FourOctets(i) ==
  /\ \/ In(i, 240, 240) /\ In(i + 1, 144, 191)
     \/ In(i, 241, 243) /\ In(i + 1, 128, 191)
     \/ In(i, 244, 244) /\ In(i + 1, 128, 143)
  /\ In(i + 2, 128, 191) /\ In(i + 3, 128, 191)

(* How long the sequence at i is, 1 also when none is well formed there. *)
WellFormedLength(i) ==
  IF TwoOctets(i) THEN 2
  ELSE IF ThreeOctets(i) THEN 3
  ELSE IF FourOctets(i) THEN 4
  ELSE 1

(* The code point it stands for: the octets without their markers, each    *)
(* worth 64 times the next.                                                *)
CodePoint(i) ==
  LET t(j) == Octet(i + j) - 128
  IN IF TwoOctets(i) THEN (Octet(i) - 192) * 64 + t(1)
     ELSE IF ThreeOctets(i) THEN (Octet(i) - 224) * 4096 + t(1) * 64 + t(2)
     ELSE IF FourOctets(i) THEN (Octet(i) - 240) * 262144 + t(1) * 4096 + t(2) * 64 + t(3)
     ELSE Octet(i)

(* The units new are added to what is printed, at the end. *)
Adds(new) ==
  \/ out' = out /\ buf' = buf \o new
  \/ out' = Append(out, buf \o new) /\ buf' = <<>>

(* The characters above plane 0 whose low 16 bits look like a surrogate.   *)
LooksSurrogate(c32) ==
  /\ c32 > 65535
  /\ High(c32 % 65536) \/ Low(c32 % 65536)

(* Every well-formed character is printed as itself, every other octet as  *)
(* the character of its value, in order, nothing twice and nothing lost.   *)
(* The characters of LooksSurrogate are the exception.                     *)
(* (console.c:20-55, 68-80)                                                *)
PrintsRight ==
  [][LET c == CodePoint(s8)
     IN ~LooksSurrogate(c) =>
          /\ s8' = s8 + WellFormedLength(s8)
          /\ Adds((IF c = 10 THEN <<13>> ELSE <<>>) \o Units(c))]_vars

(* The number units stand for, given the base. *)
Numeral(u) == IF u > 57 THEN u - 87 ELSE u - 48

Place(units, base) ==
  [k \in 1 .. Len(units) |-> [v \in Int |-> v * base + Numeral(units[k])]]

ValueOf(units, base) == Loop(Place(units, base), 0, Len(units))

(* What the console has been handed, one buffer behind the other. *)
Behind(buffers) == [k \in 1 .. Len(buffers) |-> [s \in Seq(Unit) |-> s \o buffers[k]]]

Printed(buffers) == Loop(Behind(buffers), <<>>, Len(buffers))

(* Every base the conversion knows reads back, the others have no digits.  *)
ReadsBack(value) ==
  /\ \A b \in {2, 8, 10, 16, 36} :
       LET digits == u64tostr(value, b)
       IN ValueOf(digits, b) = value /\ (digits[1] = 48 => Len(digits) = 1)
  /\ u64tostr(value, 0) = u64tostr(value, 10) /\ u64tostr(value, 7) = <<>>

(* A size reads back, up to less than one of the unit it is printed in.    *)
SizeReadsBack(shown, size) ==
  \E k \in 0 .. 4 :
    LET digits == SubSeq(shown, 1, Len(shown) - Len(SizeSuffixes[k + 1]))
        n      == ValueOf(digits, 10)
    IN /\ shown = digits \o SizeSuffixes[k + 1]
       /\ \A i \in DOMAIN digits : digits[i] \in 48 .. 57
       /\ n * Power(KILO, k) <= size /\ size < (n + 1) * Power(KILO, k)
       /\ k > 0 => n > 0 /\ size % KILO = 0

(* A number is printed so that it reads back as itself, from a buffer that *)
(* holds it: no zero in front where none is wanted, at least the digits    *)
(* wanted where some are.  A size reads back to within its unit.           *)
(* (console.c:106-137, stub.c:117-137, gop.c:144-150, string.c:177-272)    *)
NumbersPrinted ==
  call.fn # "efi_puts" /\ Octet(s8) = 0 =>
    LET shown == Printed(out)
    IN /\ ReadsBack(call.arg)
       /\ IF call.fn = "print_size" THEN SizeReadsBack(shown, call.arg)
          ELSE /\ ValueOf(shown, IF call.fn \in {"efi_puth", "efi_put0h"} THEN 16 ELSE 10) = call.arg
               /\ Len(shown) < BufSize(call.fn)
               /\ call.fn = "efi_put0h" => Len(shown) >= call.digits
               /\ call.fn = "print_list_entry" => Len(shown) = 3
               /\ call.fn \in {"efi_putd", "efi_puth"} /\ shown[1] = 48 => Len(shown) = 1

(* Prefixes of s, and s reversed, extended and changed. *)
Relatives(s) ==
  {SubSeq(s, 1, k) : k \in 0 .. Len(s)} \cup {Reverse(s), Append(s, 200), Append(s, 1)}

(* A string in memory has its NUL. *)
Ended(s) == Append(s, 0)

(* Two strings in memory, t before s, room for copies, and a guard behind. *)
Memory(s, t) == Ended(t) \o Ended(s) \o [i \in 1 .. Len(s) + Len(t) + 3 |-> 170]

(* What stands at the address is written there, and nothing elsewhere. *)
With(mem, at, what) ==
  [i \in DOMAIN mem |-> IF i \in at .. at + Len(what) - 1 THEN what[i - at + 1] ELSE mem[i]]

(* Copies and concatenations have their NUL; reversing is exact. *)
CopiesRight(mem, src, dst, s, t) ==
  LET copied == strcpy(mem, dst, src).mem
  IN /\ copied = With(mem, dst, Ended(s))
     /\ strcat(copied, dst, 1).mem = With(mem, dst, s \o Ended(t))
     /\ memcpy(mem, dst, 1, src + Len(s)).mem = With(mem, dst, SubSeq(mem, 1, src + Len(s)))
     /\ strrev(mem, src) = With(mem, src, Reverse(s))

(* As much of a string as a copy of n octets holds; the rest is NUL. *)
Cut(s, n) == SubSeq(s, 1, IF n > Len(s) THEN Len(s) ELSE n)

Nuls(n) == [i \in 1 .. n |-> 0]

(* What n octets hold is the string, cut or filled up; stpncpy points      *)
(* behind the string's part, strncpy to the start.                         *)
FillRight(mem, src, dst, s, n) ==
  LET filled == stpncpy(mem, dst, src, n)
      first  == Cut(s, n)
  IN /\ filled.mem = With(mem, dst, first \o Nuls(n - Len(first)))
     /\ filled.ptr = dst + Len(first)
     /\ strncpy(mem, dst, src, n) = [filled EXCEPT !.ptr = dst]

PaddingRight(mem, src, dst, s) ==
  \A n \in 0 .. Len(s) + 2 : FillRight(mem, src, dst, s, n)

(* A comparison of u with v has the sign of the values of the first octets *)
(* that differ.                                                            *)
Compares(result, u, v, Rank) ==
  /\ result = 0 <=> u = v
  /\ result < 0 <=>
       \E k \in DOMAIN u \cap DOMAIN v :
         (\A i \in 1 .. k - 1 : u[i] = v[i]) /\ Rank[u[k]] < Rank[v[k]]

(* Octets as the characters of a string and as numbers. *)
Signed   == [c \in 0 .. 255 |-> Char(c)]
Unsigned == [c \in 0 .. 255 |-> c]

Shorter(s, t) == IF Len(s) < Len(t) THEN Len(s) ELSE Len(t)

(* Strings are ordered by their characters, with the NUL at their end, and *)
(* memory by its octets.                                                   *)
ComparisonsRight(mem, src, s, t) ==
  LET n == Shorter(s, t)
  IN /\ Compares(strcmp(mem, 1, src), Ended(t), Ended(s), Signed)
     /\ Compares(strncmp(mem, 1, src, n), SubSeq(t, 1, n), SubSeq(s, 1, n), Signed)
     /\ Compares(memcmp(mem, 1, src, n + 1),
                 SubSeq(mem, 1, n + 1), SubSeq(mem, src, src + n), Unsigned)

(* Every function does right by two strings, s in the middle of memory.    *)
FunctionsRight(s, t) ==
  LET mem == Memory(s, t)
      src == Len(t) + 2
      dst == src + Len(s) + 1
  IN /\ strlen(mem, 1) = Len(t) /\ strlen(mem, src) = Len(s)
     /\ CopiesRight(mem, src, dst, s, t)
     /\ PaddingRight(mem, src, dst, s)
     /\ ComparisonsRight(mem, src, s, t)

(* What string.h promises, for short strings and strings like them: copies *)
(* and concatenations are what they should be, with their NUL and their    *)
(* padding, and write nothing else; comparisons order strings by their     *)
(* characters, signed, with the NUL at their end, and memory by its        *)
(* octets; reversing is exact.                                             *)
(* (utils/string.c:7-167, include/string.h:11-179)                         *)
StringsRight ==
  s8 = 1 /\ call.fn = "efi_puts" /\ Len(str) <= 4 =>
    \A t \in Relatives(str) : FunctionsRight(str, t)

(* console.c:45-48: a sequence is rejected only if it is out of range, a   *)
(* surrogate or overlong; all well-formed sequences are decoded.           *)
WellFormedAccepted ==
  [][s8' = s8 + WellFormedLength(s8)]_vars

-----------------------------------------------------------------------------
(* The inductive invariant behind the safety properties (ConsoleProofs).   *)

(* What the numbers are made into is a string, as strings are. *)
OctetTexts == \A c \in Calls : Text(c) \in Seq(Byte)

IInv == TypeOK /\ BufferFits /\ NeverPastNul /\ BuffersWhole /\ Whole(buf)

(* What has been printed of a number, and what is in the buffer, is what   *)
(* has been decoded of its text.                                           *)
InOrder ==
  call.fn # "efi_puts" => Printed(out) \o buf = SubSeq(str, 1, s8 - 1)
=============================================================================
