----------------------------- MODULE StringOps -----------------------------
(***************************************************************************)
(* src/utils/string.c: the memory and string functions and the conversion  *)
(* of numbers.  Memory is a sequence of octets, a pointer an index into    *)
(* it; a function that writes yields the memory it leaves and the pointer  *)
(* it returns.  char is signed, as gcc has it on x86.                      *)
(***************************************************************************)
EXTENDS Loops, Sequences, SequencesExt, FiniteSets

CONSTANTS
  BITS,  (* width of the numbers converted, 64 in the code                 *)
  DEC    (* place of their highest decimal digit, 19 in the code           *)

ASSUME WidthAssumption ==
  /\ BITS \in Nat /\ DEC \in Nat
  /\ Power(10, DEC) < Power(2, BITS) /\ Power(2, BITS) <= Power(10, DEC + 1)

Least(S) == CHOOSE x \in S : \A y \in S : x <= y

-----------------------------------------------------------------------------
(* Memory *)

memset(mem, s, c, n) ==
  [mem |-> [i \in DOMAIN mem |-> IF i \in s .. s + n - 1 THEN c % 256 ELSE mem[i]],
   ptr |-> s]

(* Mutant: one octet more than asked for. *)
mempcpyAndNul(mem, dst, src, n) ==
  [mem |-> [i \in DOMAIN mem |-> IF i \in dst .. dst + n THEN mem[src + (i - dst)] ELSE mem[i]],
   ptr |-> dst + n]

mempcpy(mem, dst, src, n) ==
  [mem |-> [i \in DOMAIN mem |->
              IF i \in dst .. dst + n - 1 THEN mem[src + (i - dst)] ELSE mem[i]],
   ptr |-> dst + n]

memcpy(mem, dst, src, n) == [mempcpy(mem, dst, src, n) EXCEPT !.ptr = dst]

memcmp(mem, s1, s2, n) ==
  LET differs == {k \in 0 .. n - 1 : mem[s1 + k] # mem[s2 + k]}
      k       == Least(differs)
  IN IF differs = {} THEN 0 ELSE mem[s1 + k] - mem[s2 + k]

-----------------------------------------------------------------------------
(* Strings end with NUL. *)

strnlen(mem, s, n) ==
  LET nuls == {k \in 0 .. n - 1 : mem[s + k] = 0}
  IN IF nuls = {} THEN n ELSE Least(nuls)

(* The limit of strlen and strcmp is all the memory there is. *)
strlen(mem, s) == strnlen(mem, s, Len(mem) - s + 1)

stpncpy(mem, dst, src, size) ==
  LET len    == strnlen(mem, src, size)
      copied == mempcpy(mem, dst, src, len)
  IN memset(copied.mem, copied.ptr, 0, size - len)

strncpy(mem, dst, src, size) == [stpncpy(mem, dst, src, size) EXCEPT !.ptr = dst]

stpcpy(mem, dst, src) ==
  LET copied == mempcpy(mem, dst, src, strlen(mem, src))
  IN [copied EXCEPT !.mem[copied.ptr] = 0]

strcpy(mem, dst, src) == [stpcpy(mem, dst, src) EXCEPT !.ptr = dst]

strcat(mem, dst, src) ==
  [stpcpy(mem, dst + strlen(mem, dst), src) EXCEPT !.ptr = dst]

Char(octet) == IF octet > 127 THEN octet - 256 ELSE octet

strncmp(mem, str1, str2, size) ==
  LET stops == {k \in 0 .. size - 1 : mem[str1 + k] # mem[str2 + k] \/ mem[str1 + k] = 0}
      k     == Least(stops)
  IN IF stops = {} THEN 0 ELSE Char(mem[str1 + k]) - Char(mem[str2 + k])

strcmp(mem, str1, str2) ==
  strncmp(mem, str1, str2, Len(mem) + 1 - (IF str1 > str2 THEN str1 ELSE str2))

strnrev(mem, str, n) ==
  [i \in DOMAIN mem |->
     IF i \in str .. str + n - 1 THEN mem[(2 * str + n - 1) - i] ELSE mem[i]]

strrev(mem, str) == strnrev(mem, str, strlen(mem, str))

-----------------------------------------------------------------------------
(* Numbers: a conversion yields the digits it stores, without the NUL.     *)

Digit(d) == IF d > 9 THEN d + (97 - 10) ELSE d + 48

(* What is left of the value, and the digits stored so far. *)
Partial == [value : Nat, out : Seq(Nat)]

Convert(turns, value, n) == Loop(turns, [value |-> value, out |-> <<>>], n).out

(* The digits come lowest first and are turned round; no value of BITS     *)
(* bits has more digits than bits.                                         *)
Divide(base) ==
  [k \in 1 .. BITS + 1 |-> [r \in Partial |->
     IF r.value = 0 /\ r.out # <<>> THEN r
     ELSE [value |-> r.value \div base, out |-> <<Digit(r.value % base)>> \o r.out]]]

naive_convert(value, base) == Convert(Divide(base), value, BITS + 1)

(* From the highest place down, leading zeros skipped. *)
Shift(bits) ==
  [k \in 1 .. (BITS - 1) \div bits + 1 |-> [r \in Partial |->
     LET pos   == ((BITS - 1) \div bits) * bits - bits * (k - 1)
         digit == (r.value \div Power(2, pos)) % Power(2, bits)
     IN [value |-> r.value - digit * Power(2, pos),
         out   |-> IF r.out # <<>> \/ digit # 0 \/ pos - bits < 0
                   THEN Append(r.out, Digit(digit)) ELSE r.out]]]

bitwise_convert(value, bits) == Convert(Shift(bits), value, (BITS - 1) \div bits + 1)

(* lim is subtracted as often as it goes into what is left of the value. *)
Subtract ==
  [k \in 1 .. DEC + 1 |-> [r \in Partial |->
     LET pos == DEC + 1 - k
         lim == Power(10, pos)
     IN IF r.out # <<>> \/ r.value >= lim \/ pos = 0
        THEN [value |-> r.value % lim, out |-> Append(r.out, 48 + r.value \div lim)]
        ELSE r]]

to_decimal(value) == Convert(Subtract, value, DEC + 1)

u64tostr(value, base) ==
  CASE base \in {0, 10} -> to_decimal(value)
    [] base = 2         -> bitwise_convert(value, 1)
    [] base = 8         -> bitwise_convert(value, 3)
    [] base = 16        -> bitwise_convert(value, 4)
    [] base = 36        -> naive_convert(value, 36)
    [] OTHER            -> <<>>
=============================================================================
