--------------------------- MODULE ConsoleProofs ---------------------------
(***************************************************************************)
(* The properties of efi_puts and of the numbers it prints (ConsolePuts),  *)
(* for every set of strings and numbers, every width of a number and every *)
(* size of the buffer.                                                     *)
(***************************************************************************)
EXTENDS ConsolePuts, NumberLemmas, SequenceTheorems, FiniteSetTheorems

-----------------------------------------------------------------------------
(* Digits and the numbers they stand for *)

(* The characters of the digits of a base. *)
Figures(base) == {Digit(d) : d \in 0 .. base - 1}

(* A digit's character stands for it; only that of 0 is "0". *)
LEMMA DigitNumeral ==
  ASSUME NEW d \in 0 .. 35
  PROVE  /\ Digit(d) \in Byte /\ Digit(d) \in Nat
         /\ Numeral(Digit(d)) = d
         /\ Digit(d) = 48 <=> d = 0
         /\ Digit(d) < 128 /\ Digit(d) # 10
         /\ d < 10 => Digit(d) = 48 + d /\ Digit(d) \in 48 .. 57
BY DEF Digit, Numeral, Byte

LEMMA NumeralType ==
  ASSUME NEW u \in Nat
  PROVE  Numeral(u) \in Int
BY DEF Numeral

LEMMA FiguresType ==
  ASSUME NEW base \in 2 .. 36
  PROVE  Figures(base) \subseteq Byte /\ Figures(base) \subseteq Nat
<1> SUFFICES ASSUME NEW d \in 0 .. base - 1 PROVE Digit(d) \in Byte /\ Digit(d) \in Nat
  BY DEF Figures
<1> QED
  BY d \in 0 .. 35, DigitNumeral

(* No units, no number. *)
LEMMA ValueEmpty ==
  ASSUME NEW base
  PROVE  ValueOf(<<>>, base) = 0
<1>1. Len(<<>>) = 0
  OBVIOUS
<1>2. ValueOf(<<>>, base) = Loop(Place(<<>>, base), 0, 0)
  BY <1>1, Zenon DEF ValueOf
<1> QED
  BY <1>2, LoopStart

(* Place by place. *)
LEMMA PlaceTurn ==
  ASSUME NEW s, Len(s) \in Nat, NEW base, NEW k \in 1 .. Len(s), NEW v \in Int
  PROVE  Place(s, base)[k][v] = v * base + Numeral(s[k])
BY DEF Place

LEMMA ValueSoFar ==
  ASSUME NEW s \in Seq(Nat), NEW base \in Nat, NEW n \in 0 .. Len(s)
  PROVE  /\ Loop(Place(s, base), 0, n) \in Int
         /\ n < Len(s) => Loop(Place(s, base), 0, n + 1)
                            = Loop(Place(s, base), 0, n) * base + Numeral(s[n + 1])
<1>0. Len(s) \in Nat /\ n \in Nat /\ n <= Len(s) /\ \A k \in 1 .. Len(s) : Numeral(s[k]) \in Int
  BY NumeralType
<1>2. ASSUME NEW k \in 1 .. n, NEW v \in Int
      PROVE  Place(s, base)[k][v] \in Int
  <2>1. k \in 1 .. Len(s)
    BY <1>0
  <2>2. PICK c \in Int : c = Numeral(s[k])
    BY <1>0, <2>1
  <2>3. v * base + c \in Int
    OBVIOUS
  <2> QED
    BY <1>0, <2>1, <2>2, <2>3, PlaceTurn
<1>3. Loop(Place(s, base), 0, n) \in Int
  BY <1>0, <1>2, LoopType
<1>4. CASE n < Len(s)
  <2>1. n \in Nat /\ n + 1 \in 1 .. Len(s)
    BY <1>0, <1>4
  <2>2. Loop(Place(s, base), 0, n + 1) = Place(s, base)[n + 1][Loop(Place(s, base), 0, n)]
    BY <2>1, LoopNext
  <2> QED
    BY <1>0, <1>3, <2>1, <2>2, PlaceTurn
<1> QED
  BY <1>3, <1>4

LEMMA ValueType ==
  ASSUME NEW s \in Seq(Nat), NEW base \in Nat
  PROVE  ValueOf(s, base) \in Int
BY ValueSoFar DEF ValueOf

(* A digit behind a number. *)
LEMMA ValueAppend ==
  ASSUME NEW s \in Seq(Nat), NEW u \in Nat, NEW base \in Nat
  PROVE  ValueOf(Append(s, u), base) = ValueOf(s, base) * base + Numeral(u)
<1>1. PICK t : t = Append(s, u)
  OBVIOUS
<1>2. /\ t \in Seq(Nat) /\ Len(t) = Len(s) + 1 /\ Len(s) \in Nat
      /\ t[Len(s) + 1] = u /\ \A k \in 1 .. Len(s) : t[k] = s[k]
  BY <1>1
<1>3. \A k \in 1 .. Len(s) : Place(s, base)[k] = Place(t, base)[k]
  BY <1>2 DEF Place
<1>4. Loop(Place(t, base), 0, Len(s) + 1) = Place(t, base)[Len(s) + 1][Loop(Place(s, base), 0, Len(s))]
  BY <1>2, <1>3, LoopNext
<1>5. Loop(Place(s, base), 0, Len(s)) \in Int
  BY <1>2, Len(s) \in 0 .. Len(s), ValueSoFar
<1>6. Place(t, base)[Len(s) + 1][Loop(Place(s, base), 0, Len(s))]
        = Loop(Place(s, base), 0, Len(s)) * base + Numeral(u)
  <2>1. PICK v \in Int : v = Loop(Place(s, base), 0, Len(s))
    BY <1>5
  <2>2. Len(t) \in Nat /\ Len(s) + 1 \in 1 .. Len(t) /\ t[Len(s) + 1] = u
    BY <1>2
  <2> QED
    BY <2>1, <2>2, PlaceTurn
<1> QED
  BY <1>1, <1>2, <1>4, <1>6 DEF ValueOf

(* A digit in front of a number. *)
LEMMA ValuePrepend ==
  ASSUME NEW s \in Seq(Nat), NEW u \in Nat, NEW base \in Nat \ {0}
  PROVE  ValueOf(<<u>> \o s, base) = Numeral(u) * Power(base, Len(s)) + ValueOf(s, base)
<1>1. PICK t : t = <<u>> \o s
  OBVIOUS
<1>2. /\ t \in Seq(Nat) /\ Len(t) = Len(s) + 1 /\ Len(s) \in Nat
      /\ t[1] = u /\ \A k \in 1 .. Len(s) : t[k + 1] = s[k]
  BY <1>1
<1>3. PICK d \in Int : d = Numeral(u)
  BY NumeralType
<1> DEFINE T(k) == Loop(Place(t, base), 0, k)
           S(k) == Loop(Place(s, base), 0, k)
           P == {k \in 0 .. Len(s) : T(k + 1) = d * Power(base, k) + S(k)}
<1>4. \A k \in 0 .. Len(s) : k + 1 \in 0 .. Len(t) /\ k + 1 - 1 = k
  BY <1>2
<1>5. 0 \in P
  <2>1. T(0) = 0 /\ S(0) = 0
    BY LoopStart
  <2>2. T(0 + 1) = T(0) * base + Numeral(t[0 + 1])
    <3>1. 0 \in 0 .. Len(t) /\ 0 < Len(t)
      BY <1>2
    <3> QED
      BY <1>2, <3>1, ValueSoFar
  <2>3. Power(base, 0) = 1
    BY PowerZero
  <2>4. T(0 + 1) = d * Power(base, 0) + S(0)
    <3> HIDE DEF T, S
    <3> QED
      BY <1>2, <1>3, <2>1, <2>2, <2>3
  <2> QED
    BY <1>2, <2>4
<1>6. ASSUME NEW k \in 0 .. Len(s) - 1, k \in P
      PROVE  k + 1 \in P
  <2>0. k \in 0 .. Len(s) /\ k < Len(s) /\ k \in Nat /\ k + 1 \in 0 .. Len(t) /\ k + 1 < Len(t)
    BY <1>2
  <2>1. PICK v \in Int : v = S(k)
    BY <2>0, ValueSoFar
  <2>2. S(k + 1) = v * base + Numeral(s[k + 1])
    BY <2>0, <2>1, ValueSoFar
  <2>3. PICK p \in Nat : p = Power(base, k) /\ Power(base, k + 1) = p * base
    <3>1. k \in Nat
      BY <2>0
    <3>2. Power(base, k) \in Nat /\ Power(base, k + 1) = Power(base, k) * base
      BY <3>1, PowerNext
    <3> QED
      BY <3>2
  <2>4. T(k + 1) = d * p + v
    BY <1>6, <2>1, <2>3
  <2>5. T(k + 1 + 1) = T(k + 1) * base + Numeral(t[k + 1 + 1])
    BY <1>2, <2>0, ValueSoFar
  <2>6. t[k + 1 + 1] = s[k + 1]
    BY <1>2, <2>0
  <2>7. PICK c \in Int : c = Numeral(s[k + 1])
    <3>1. s[k + 1] \in Nat
      BY <1>2, <2>0
    <3> QED
      BY <3>1, NumeralType
  <2>8. (d * p + v) * base + c = d * (p * base) + (v * base + c)
    <3>1. (d * p + v) * base = (d * p) * base + v * base
      OBVIOUS
    <3>2. (d * p) * base = d * (p * base)
      OBVIOUS
    <3> QED
      BY <3>1, <3>2
  <2>9. T(k + 1 + 1) = d * Power(base, k + 1) + S(k + 1)
    <3> HIDE DEF T, S
    <3> QED
      BY <2>2, <2>3, <2>4, <2>5, <2>6, <2>7, <2>8
  <2>10. k + 1 \in 0 .. Len(s)
    BY <1>2
  <2> QED
    BY <2>9, <2>10
<1>7. Len(s) \in P
  <2> HIDE DEF P
  <2>1. Len(s) \in Nat
    BY <1>2
  <2>2. \A k \in 0 .. Len(s) - 1 : k \in P => k + 1 \in P
    BY <1>6
  <2>3. \A k \in 0 .. Len(s) : k \in P
    BY <1>5, <2>1, <2>2, UpTo
  <2> QED
    BY <2>1, <2>3
<1>8. T(Len(t)) = d * Power(base, Len(s)) + S(Len(s))
  BY <1>2, <1>7
<1> QED
  BY <1>1, <1>3, <1>8 DEF ValueOf

-----------------------------------------------------------------------------
(* Digits from the highest place down *)

(* One turn: the digit at a place, whose digits below are worth p, is      *)
(* stored unless nothing was and it is 0. *)
Turned(r, p, last) ==
  [value |-> r.value % p,
   out   |-> IF r.out # <<>> \/ r.value >= p \/ last
             THEN Append(r.out, Digit(r.value \div p)) ELSE r.out]

(* What is known after k of n turns: the digits and what is left make the  *)
(* value; no 0 is in front but a last one; there are no more digits than   *)
(* the value needs. *)
Reads(r, value, base, n, k) ==
  /\ r.out \in Seq(Figures(base))
  /\ ValueOf(r.out, base) * Power(base, n - k) + r.value = value
  /\ r.value < Power(base, n - k)
  /\ r.out # <<>> => r.out[1] # 48 \/ (k = n /\ Len(r.out) = 1)
  /\ k = n => r.out # <<>>
  /\ \A m \in 1 .. n : value < Power(base, m) => r.out = <<>> \/ Len(r.out) + n - k <= m

Reading(value, base, n, k) == {r \in Partial : Reads(r, value, base, n, k)}

(* Dividing by the place keeps the number. *)
LEMMA NextPlace ==
  ASSUME NEW base \in Nat \ {0}, NEW p \in Nat \ {0}, NEW v \in Int,
         NEW q \in Nat, NEW left \in 0 .. p - 1, NEW rest \in Nat,
         rest = p * q + left, rest < p * base
  PROVE  /\ q \in 0 .. base - 1
         /\ (v * base + q) * p + left = v * (p * base) + rest
         /\ q = 0 <=> rest < p
<1>1. q < base
  <2> SUFFICES ASSUME base <= q PROVE FALSE
    OBVIOUS
  <2>1. PICK c \in Nat : q = base + c
    OBVIOUS
  <2>2. p * q = p * base + p * c /\ p * c \in Nat
    BY <2>1
  <2> QED
    BY <2>2
<1>2. (v * base + q) * p + left = v * (p * base) + rest
  <2>1. (v * base + q) * p = (v * base) * p + q * p
    OBVIOUS
  <2>2. (v * base) * p = v * (p * base) /\ q * p = p * q
    OBVIOUS
  <2> QED
    BY <2>1, <2>2
<1>3. q = 0 <=> rest < p
  <2>1. q = 0 => rest < p
    OBVIOUS
  <2>2. ASSUME q # 0 PROVE rest >= p
    <3>1. p * q >= p
      BY <2>2
    <3> QED
      BY <3>1
  <2> QED
    BY <2>1, <2>2
<1> QED
  BY <1>1, <1>2, <1>3

(* The first digit stored is at the highest place the value has. *)
LEMMA FirstPlace ==
  ASSUME NEW base \in 2 .. 36, NEW value \in Nat, NEW e \in Nat, NEW m \in Nat,
         Power(base, e) <= value, value < Power(base, m)
  PROVE  e < m
<1>1. base \in Nat /\ base > 1 /\ base \in Nat \ {0}
  OBVIOUS
<1>2. Power(base, e) \in Nat /\ Power(base, m) \in Nat
  BY <1>1, PowerNext
<1>3. m < e => Power(base, m) < Power(base, e)
  BY <1>1, PowerGrows
<1>4. ~(m < e) /\ m # e
  BY <1>2, <1>3
<1> QED
  BY <1>4

(* A turn keeps what is known. *)
LEMMA TurnReads ==
  ASSUME NEW base \in 2 .. 36, NEW value \in Nat, NEW n \in Nat \ {0}, NEW k \in 1 .. n,
         NEW r \in Reading(value, base, n, k - 1)
  PROVE  Turned(r, Power(base, n - k), k = n) \in Reading(value, base, n, k)
<1>1. PICK p \in Nat \ {0} : p = Power(base, n - k) /\ Power(base, n - (k - 1)) = p * base
  <2>1. base \in Nat \ {0} /\ n - k \in Nat /\ (n - k) + 1 = n - (k - 1)
    OBVIOUS
  <2> QED
    BY <2>1, PowerNext
<1>2. PICK rest, s : rest = r.value /\ s = r.out
  OBVIOUS
<1>r. r \in Partial /\ Reads(r, value, base, n, k - 1)
  BY DEF Reading
<1>s. /\ rest \in Nat /\ s \in Seq(Figures(base))
      /\ ValueOf(s, base) * Power(base, n - (k - 1)) + rest = value
      /\ rest < Power(base, n - (k - 1))
      /\ s # <<>> => s[1] # 48
      /\ \A m \in 1 .. n : value < Power(base, m) => s = <<>> \/ Len(s) + n - (k - 1) <= m
  <2>1. k - 1 # n
    OBVIOUS
  <2>2. rest \in Nat
    BY <1>2, <1>r DEF Partial
  <2> QED
    BY <1>2, <1>r, <2>1, <2>2, Zenon DEF Reads
<1>3. s \in Seq(Nat) /\ base \in Nat /\ base \in Nat \ {0}
  BY <1>s, FiguresType, SeqMonotonic
<1>4. PICK v \in Int : v = ValueOf(s, base)
  BY <1>3, ValueType
<1>5. v * (p * base) + rest = value /\ rest < p * base
  BY <1>1, <1>4, <1>s
<1>6. PICK q \in Nat, left \in 0 .. p - 1 :
        q = rest \div p /\ left = rest % p /\ rest = p * q + left
  <2>1. rest \in Nat /\ p \in Nat /\ p > 0
    BY <1>1, <1>s
  <2>2. /\ rest \div p \in Nat /\ rest % p \in 0 .. p - 1
        /\ rest = p * (rest \div p) + (rest % p)
    BY <2>1, DivModExists
  <2> QED
    BY <2>2
<1>q. /\ q \in 0 .. base - 1
      /\ (v * base + q) * p + left = value
      /\ q = 0 <=> rest < p
  <2>1. p \in Nat \ {0} /\ rest \in Nat
    BY <1>s
  <2>2. /\ q \in 0 .. base - 1
        /\ (v * base + q) * p + left = v * (p * base) + rest
        /\ q = 0 <=> rest < p
    <3>1. base \in Nat \ {0} /\ p \in Nat \ {0} /\ v \in Int /\ q \in Nat /\ left \in 0 .. p - 1 /\ rest \in Nat
      BY <1>3, <2>1
    <3>2. rest = p * q + left /\ rest < p * base
      BY <1>5, <1>6
    <3> QED
      BY <3>1, <3>2, NextPlace
  <2> QED
    BY <1>5, <2>2
<1>7. /\ Digit(q) \in Figures(base) /\ Digit(q) \in Nat /\ Numeral(Digit(q)) = q
      /\ Digit(q) = 48 <=> q = 0
  <2>1. q \in 0 .. 35
    BY <1>q
  <2> QED
    BY <1>q, <2>1, DigitNumeral, Zenon DEF Figures
<1>8. PICK t : t = IF s # <<>> \/ rest >= p \/ k = n THEN Append(s, Digit(q)) ELSE s
  OBVIOUS
<1>9. Turned(r, p, k = n) = [value |-> left, out |-> t]
  BY <1>2, <1>6, <1>8, Zenon DEF Turned
<1>10. Len(s) \in Nat /\ (s = <<>> <=> Len(s) = 0)
  BY <1>3, EmptySeq
<1>11. CASE s = <<>> /\ rest < p /\ k # n
  <2>1. t = s /\ left = rest
    <3>1. q = 0
      BY <1>q, <1>11
    <3>2. rest = left
      BY <1>6, <3>1
    <3> QED
      BY <1>8, <1>11, <3>2
  <2>2. v = 0
    BY <1>4, <1>11, ValueEmpty
  <2>3. left = value
    <3>1. p * base \in Nat /\ \A c \in Nat : 0 * c = 0
      BY <1>3
    <3>2. v * (p * base) = 0
      BY <2>2, <3>1, Zenon
    <3> QED
      BY <1>5, <2>1, <3>2
  <2>4. ValueOf(t, base) * p + left = value
    BY <1>4, <2>1, <2>2, <2>3
  <2>5. [value |-> left, out |-> t] \in Partial
    BY <1>3, <1>q, <2>1 DEF Partial
  <2>6. [value |-> left, out |-> t].value = left /\ [value |-> left, out |-> t].out = t
    OBVIOUS
  <2>7. Reads([value |-> left, out |-> t], value, base, n, k)
    <3>1. t \in Seq(Figures(base)) /\ t = <<>> /\ left < Power(base, n - k)
      BY <1>1, <1>11, <1>q, <1>s, <2>1
    <3> QED
      BY <1>1, <1>11, <2>4, <2>6, <3>1, Zenon DEF Reads
  <2> QED
    BY <1>1, <1>9, <2>5, <2>7, Zenon DEF Reading
<1>12. CASE s # <<>> \/ rest >= p \/ k = n
  <2>1. t = Append(s, Digit(q))
    BY <1>8, <1>12
  <2>2. /\ t \in Seq(Figures(base)) /\ Len(t) = Len(s) + 1 /\ t # <<>>
        /\ t[Len(s) + 1] = Digit(q) /\ \A i \in 1 .. Len(s) : t[i] = s[i]
    BY <1>7, <1>10, <1>s, <2>1, AppendProperties
  <2>3. ValueOf(t, base) * p + left = value
    <3>1. ValueOf(t, base) = v * base + q
      BY <1>3, <1>4, <1>7, <2>1, ValueAppend
    <3> QED
      BY <1>q, <3>1
  <2>4. [value |-> left, out |-> t] \in Partial
    <3>1. t \in Seq(Nat)
      BY <2>2, FiguresType, SeqMonotonic
    <3> QED
      BY <1>q, <3>1 DEF Partial
  <2>5. [value |-> left, out |-> t].value = left /\ [value |-> left, out |-> t].out = t
    OBVIOUS
  <2>6. t[1] # 48 \/ (k = n /\ Len(t) = 1)
    <3>1. CASE s # <<>>
      <4>1. s[1] # 48
        BY <1>s, <3>1
      <4>2. 1 \in 1 .. Len(s)
        BY <1>10, <3>1
      <4>3. t[1] = s[1]
        BY <2>2, <4>2
      <4> QED
        BY <4>1, <4>3
    <3>2. CASE s = <<>>
      <4>1. Len(t) = 1 /\ t[1] = Digit(q)
        BY <1>10, <2>2, <3>2
      <4>2. k # n => q # 0
        BY <1>q, <1>12, <3>2, <1>s
      <4> QED
        BY <1>7, <4>1, <4>2
    <3> QED
      BY <3>1, <3>2
  <2>7. ASSUME NEW m \in 1 .. n, value < Power(base, m)
        PROVE  Len(t) + n - k <= m
    <3>1. CASE s # <<>>
      <4>1. Len(s) + n - (k - 1) <= m
        BY <1>s, <2>7, <3>1
      <4> QED
        BY <1>10, <2>2, <4>1
    <3>2. CASE s = <<>> /\ k = n
      BY <1>10, <2>2, <3>2
    <3>3. CASE s = <<>> /\ k # n
      <4>1. rest >= p
        BY <1>12, <3>3
      <4>2. rest = value
        <5>1. v = 0
          BY <1>4, <3>3, ValueEmpty
        <5>2. p * base \in Nat /\ \A c \in Nat : 0 * c = 0
          BY <1>3
        <5>3. PICK w : w = v * (p * base)
          OBVIOUS
        <5>4. w = 0
          BY <5>1, <5>2, <5>3, Zenon
        <5>5. w + rest = value
          BY <1>5, <5>3, Zenon
        <5> QED
          BY <1>s, <5>4, <5>5
      <4>3. n - k \in Nat /\ m \in Nat /\ Power(base, n - k) <= value
        BY <1>1, <4>1, <4>2
      <4>4. n - k < m
        BY <2>7, <4>3, FirstPlace
      <4> QED
        BY <1>10, <2>2, <3>3, <4>4
    <3> QED
      BY <3>1, <3>2, <3>3
  <2>8. Reads([value |-> left, out |-> t], value, base, n, k)
    <3>1. left < Power(base, n - k)
      BY <1>1, <1>q
    <3> QED
      BY <1>1, <2>2, <2>3, <2>5, <2>6, <2>7, <3>1, Zenon DEF Reads
  <2> QED
    BY <1>1, <1>9, <2>4, <2>8, Zenon DEF Reading
<1> QED
  BY <1>s, <1>11, <1>12

(* What a conversion yields: digits of the base that read back as the      *)
(* value, with a 0 in front only for 0 itself. *)
Numerals(s, value, base) ==
  /\ s \in Seq(Figures(base)) /\ s # <<>>
  /\ ValueOf(s, base) = value
  /\ s[1] = 48 => Len(s) = 1

(* There are no more digits than the value needs, of n at most. *)
Short(s, value, base, n) ==
  Len(s) <= n /\ \A m \in 1 .. n : value < Power(base, m) => Len(s) <= m

(* Turn by turn the whole value is read. *)
LEMMA DigitsRead ==
  ASSUME NEW base \in 2 .. 36, NEW value \in Nat, NEW n \in Nat \ {0}, value < Power(base, n),
         NEW turns,
         \A k \in 1 .. n : \A r \in Reading(value, base, n, k - 1) :
           turns[k][r] = Turned(r, Power(base, n - k), k = n)
  PROVE  /\ Numerals(Convert(turns, value, n), value, base)
         /\ Short(Convert(turns, value, n), value, base, n)
<1>1. PICK I : I = [k \in 0 .. n |-> Reading(value, base, n, k)]
  OBVIOUS
<1>2. PICK start : start = [value |-> value, out |-> <<>>]
  OBVIOUS
<1>3. start.value = value /\ start.out = <<>>
  BY <1>2
<1>4. start \in Reading(value, base, n, 0)
  <2>1. start \in Partial
    BY <1>2 DEF Partial
  <2>2. Power(base, n) \in Nat /\ n - 0 = n
    BY base \in Nat \ {0}, PowerNext
  <2>3. ValueOf(<<>>, base) * Power(base, n - 0) + value = value
    <3>1. PICK p \in Nat : p = Power(base, n - 0)
      BY <2>2
    <3>2. 0 * p + value = value
      OBVIOUS
    <3> QED
      BY <3>1, <3>2, ValueEmpty
  <2>4. <<>> \in Seq(Figures(base)) /\ 0 # n
    OBVIOUS
  <2>5. Reads(start, value, base, n, 0)
    BY <1>3, <2>2, <2>3, <2>4, Zenon DEF Reads
  <2> QED
    BY <2>1, <2>5 DEF Reading
<1>5. \A k \in 0 .. n : I[k] = Reading(value, base, n, k)
  BY <1>1
<1>6. start \in I[0]
  BY <1>4, <1>5
<1>7. \A k \in 1 .. n : \A r \in I[k - 1] : turns[k][r] \in I[k]
  <2> SUFFICES ASSUME NEW k \in 1 .. n, NEW r \in I[k - 1] PROVE turns[k][r] \in I[k]
    OBVIOUS
  <2>1. k - 1 \in 0 .. n /\ k \in 0 .. n
    OBVIOUS
  <2>2. r \in Reading(value, base, n, k - 1)
    BY <1>5, <2>1
  <2>3. turns[k][r] = Turned(r, Power(base, n - k), k = n)
    BY <2>2
  <2>4. Turned(r, Power(base, n - k), k = n) \in Reading(value, base, n, k)
    BY <2>2, TurnReads
  <2> QED
    BY <1>5, <2>1, <2>3, <2>4
<1>8. PICK r : r = Loop(turns, start, n)
  OBVIOUS
<1>9. r \in Reading(value, base, n, n)
  <2>1. r \in I[n]
    BY <1>6, <1>7, <1>8, LoopInvariant
  <2> QED
    BY <1>5, <2>1
<1>10. Convert(turns, value, n) = r.out
  BY <1>2, <1>8 DEF Convert
<1>11. PICK s \in Seq(Nat), v \in Nat : s = r.out /\ v = r.value
  BY <1>9 DEF Reading, Partial
<1>12. n - n = 0 /\ Power(base, 0) = 1
  BY PowerZero
<1>13. /\ s \in Seq(Figures(base)) /\ s # <<>>
       /\ ValueOf(s, base) * 1 + v = value /\ v < 1
       /\ s[1] # 48 \/ Len(s) = 1
       /\ \A m \in 1 .. n : value < Power(base, m) => Len(s) + n - n <= m
  <2>1. Reads(r, value, base, n, n)
    BY <1>9 DEF Reading
  <2> QED
    BY <1>11, <1>12, <2>1, Zenon DEF Reads
<1>14. ValueOf(s, base) = value
  <2>1. s \in Seq(Nat) /\ base \in Nat
    BY <1>13, FiguresType, SeqMonotonic
  <2>2. ValueOf(s, base) \in Int
    BY <2>1, ValueType
  <2> QED
    BY <1>13, <2>2
<1>15. Len(s) \in Nat
  BY <1>13
<1>16. Len(s) <= n /\ \A m \in 1 .. n : value < Power(base, m) => Len(s) <= m
  BY <1>13, <1>15
<1> QED
  BY <1>10, <1>11, <1>13, <1>14, <1>16, Zenon DEF Numerals, Short

(* The digit d that a turn finds at the place worth p. *)
Found(r, base, p, rest, s, d, left) ==
  /\ r = [value |-> rest, out |-> s]
  /\ d = rest \div p /\ left = rest % p /\ rest = p * d + left
  /\ d < base /\ left < p /\ (d = 0 <=> rest < p) /\ (rest < p => left = rest)

LEMMA ReadingDigit ==
  ASSUME NEW base \in 2 .. 36, NEW value \in Nat, NEW n \in Nat \ {0}, NEW k \in 1 .. n,
         NEW r \in Reading(value, base, n, k - 1)
  PROVE  \E p \in Nat \ {0}, rest \in Nat, s \in Seq(Nat), d \in Nat, left \in Nat :
           p = Power(base, n - k) /\ Found(r, base, p, rest, s, d, left)
<1>1. PICK p \in Nat \ {0} : p = Power(base, n - k) /\ Power(base, n - (k - 1)) = p * base
  <2>1. base \in Nat \ {0} /\ n - k \in Nat /\ (n - k) + 1 = n - (k - 1)
    OBVIOUS
  <2> QED
    BY <2>1, PowerNext
<1>2. r \in Partial /\ Reads(r, value, base, n, k - 1)
  BY DEF Reading
<1>3. PICK rest \in Nat, s \in Seq(Nat) : r = [value |-> rest, out |-> s] /\ rest = r.value
  BY <1>2 DEF Partial
<1>4. rest < p * base
  BY <1>1, <1>2, <1>3, Zenon DEF Reads
<1>5. PICK q \in Nat, left \in 0 .. p - 1 :
        q = rest \div p /\ left = rest % p /\ rest = p * q + left
  <2>1. rest \in Nat /\ p \in Nat /\ p > 0
    BY <1>1, <1>3
  <2>2. /\ rest \div p \in Nat /\ rest % p \in 0 .. p - 1
        /\ rest = p * (rest \div p) + (rest % p)
    BY <2>1, DivModExists
  <2> QED
    BY <2>2
<1>6. q \in 0 .. base - 1 /\ (q = 0 <=> rest < p)
  <2>1. /\ base \in Nat \ {0} /\ p \in Nat \ {0} /\ 0 \in Int /\ q \in Nat
        /\ left \in 0 .. p - 1 /\ rest \in Nat
    BY <1>3
  <2>2. rest = p * q + left /\ rest < p * base
    BY <1>4, <1>5
  <2> QED
    BY <2>1, <2>2, NextPlace
<1>7. rest < p => left = rest
  BY <1>5, <1>6
<1>8. q < base /\ left \in Nat /\ left < p
  BY <1>6
<1> QED
  BY <1>1, <1>3, <1>5, <1>6, <1>7, <1>8, Zenon DEF Found

-----------------------------------------------------------------------------
(* The conversions of string.c *)

(* The values there are. *)
LEMMA Widths ==
  /\ BITS \in Nat /\ DEC \in Nat
  /\ Power(2, BITS) \in Nat \ {0} /\ Power(10, DEC) \in Nat \ {0}
  /\ Power(2, BITS) <= Power(10, DEC + 1)
<1>1. 2 \in Nat \ {0} /\ 10 \in Nat \ {0}
  OBVIOUS
<1> QED
  BY <1>1, WidthAssumption, PowerNext

(* string.c:224-248: a decimal conversion reads back. *)
LEMMA DecimalReads ==
  ASSUME NEW value \in 0 .. Power(2, BITS) - 1
  PROVE  /\ Numerals(to_decimal(value), value, 10)
         /\ Short(to_decimal(value), value, 10, DEC + 1)
<1>0. PICK n \in Nat \ {0} : n = DEC + 1
  BY Widths
<1>b. PICK b \in 2 .. 36 : b = 10
  OBVIOUS
<1>1. value \in Nat /\ value < Power(b, n)
  <2>1. 10 \in Nat \ {0}
    OBVIOUS
  <2>2. Power(10, n) \in Nat
    BY <2>1, PowerNext
  <2> QED
    BY <1>0, <1>b, <2>2, Widths
<1>2. ASSUME NEW k \in 1 .. n, NEW r \in Reading(value, b, n, k - 1)
      PROVE  Subtract[k][r] = Turned(r, Power(b, n - k), k = n)
  <2>1. PICK p \in Nat \ {0}, rest \in Nat, s \in Seq(Nat), d \in Nat, left \in Nat :
           p = Power(b, n - k) /\ Found(r, b, p, rest, s, d, left)
    BY <1>1, ReadingDigit
  <2>a. /\ d < b /\ (d = 0 <=> rest < p) /\ (rest < p => left = rest)
        /\ r = [value |-> rest, out |-> s] /\ p = Power(b, n - k)
    BY <2>1, Zenon DEF Found
  <2>2. r \in Partial /\ k \in 1 .. DEC + 1 /\ r.value = rest /\ r.out = s
    BY <1>0, <2>a DEF Reading
  <2>3. Subtract[k][r] = IF r.out # <<>> \/ r.value >= Power(b, n - k) \/ n - k = 0
                         THEN [value |-> r.value % Power(b, n - k),
                               out   |-> Append(r.out, 48 + r.value \div Power(b, n - k))]
                         ELSE r
    <3>1. DEC + 1 - k = n - k
      BY <1>0, Widths
    <3> QED
      BY <1>0, <1>b, <2>2, <3>1, Zenon DEF Subtract
  <2>4. Subtract[k][r] = IF s # <<>> \/ rest >= p \/ n - k = 0
                         THEN [value |-> left, out |-> Append(s, 48 + d)]
                         ELSE r
    BY <2>1, <2>2, <2>3, Zenon DEF Found
  <2>5. Digit(d) = 48 + d
    <3>1. d \in 0 .. 35 /\ d < 10
      BY <1>b, <2>a
    <3> QED
      BY <3>1, DigitNumeral
  <2>6. Turned(r, Power(b, n - k), k = n) =
          [value |-> left,
           out   |-> IF s # <<>> \/ rest >= p \/ k = n THEN Append(s, 48 + d) ELSE s]
    BY <2>1, <2>2, <2>5, Zenon DEF Turned, Found
  <2>7. n - k = 0 <=> k = n
    OBVIOUS
  <2>8. CASE s # <<>> \/ rest >= p \/ k = n
    BY <2>4, <2>6, <2>7, <2>8
  <2>9. CASE ~(s # <<>> \/ rest >= p \/ k = n)
    <3>1. left = rest
      BY <2>a, <2>9
    <3> QED
      BY <2>a, <2>4, <2>6, <2>7, <2>9, <3>1
  <2> QED
    BY <2>8, <2>9
<1>3. /\ Numerals(Convert(Subtract, value, n), value, b)
      /\ Short(Convert(Subtract, value, n), value, b, n)
  BY <1>1, <1>2, DigitsRead
<1> QED
  BY <1>0, <1>b, <1>3 DEF to_decimal

(* The bases of two with a name of their own. *)
LEMMA PowersOfTwo ==
  Power(2, 1) = 2 /\ Power(2, 3) = 8 /\ Power(2, 4) = 16
<1> DEFINE P(n) == Power(2, n)
<1>1. P(0) = 1
  BY PowerZero
<1>2. \A n \in Nat : P(n) \in Nat /\ P(n + 1) = P(n) * 2
  BY 2 \in Nat \ {0}, PowerNext
<1>3. P(0 + 1) = P(0) * 2 /\ P(1 + 1) = P(1) * 2 /\ P(2 + 1) = P(2) * 2 /\ P(3 + 1) = P(3) * 2
  BY <1>2
<1> HIDE DEF P
<1>4. P(1) = 2 /\ P(3) = 8 /\ P(4) = 16
  BY <1>1, <1>3
<1> QED
  BY <1>4 DEF P

(* string.c:200-221: a conversion by shifting reads back. *)
LEMMA BitwiseReads ==
  ASSUME NEW value \in 0 .. Power(2, BITS) - 1, NEW bits \in {1, 3, 4}
  PROVE  /\ Numerals(bitwise_convert(value, bits), value, Power(2, bits))
         /\ Short(bitwise_convert(value, bits), value, Power(2, bits), (BITS - 1) \div bits + 1)
<1>b. PICK b \in 2 .. 36 : b = Power(2, bits)
  BY PowersOfTwo
<1>0. PICK c \in Nat : c = (BITS - 1) \div bits /\ BITS <= bits * (c + 1)
  <2>1. BITS - 1 \in Nat /\ bits \in Nat /\ bits > 0
    BY DigitsAssumption, Widths
  <2>2. PICK c \in Nat, left \in 0 .. bits - 1 : c = (BITS - 1) \div bits /\ BITS - 1 = bits * c + left
    BY <2>1, DivModExists
  <2>3. bits * (c + 1) = bits * c + bits /\ bits * c \in Nat
    BY <2>1
  <2>4. BITS <= bits * (c + 1)
    BY <2>1, <2>2, <2>3, Widths
  <2> QED
    BY <2>2, <2>4
<1>n. PICK n \in Nat \ {0} : n = c + 1
  OBVIOUS
<1>p. \A j \in Nat : Power(b, j) = Power(2, bits * j) /\ bits * j \in Nat
  <2>1. 2 \in Nat \ {0} /\ bits \in Nat
    OBVIOUS
  <2>2. \A j \in Nat : Power(Power(2, bits), j) = Power(2, bits * j)
    BY <2>1, PowerProduct, Zenon
  <2> QED
    BY <1>b, <2>2
<1>1. value \in Nat /\ value < Power(b, n)
  <2>1. bits * n \in Nat /\ BITS <= bits * n
    BY <1>0, <1>n
  <2>2. Power(2, bits * n) \in Nat /\ Power(2, BITS) \in Nat
    BY <2>1, Widths, PowerNext, 2 \in Nat \ {0}
  <2>3. Power(2, BITS) <= Power(2, bits * n)
    <3>1. BITS < bits * n => Power(2, BITS) < Power(2, bits * n)
      BY <2>1, Widths, PowerGrows
    <3> QED
      BY <2>1, <2>2, <3>1, Widths
  <2>4. Power(b, n) = Power(2, bits * n)
    BY <1>p
  <2> QED
    BY <2>2, <2>3, <2>4
<1>2. ASSUME NEW k \in 1 .. n, NEW r \in Reading(value, b, n, k - 1)
      PROVE  Shift(bits)[k][r] = Turned(r, Power(b, n - k), k = n)
  <2>1. PICK p \in Nat \ {0}, rest \in Nat, s \in Seq(Nat), d \in Nat, left \in Nat :
           p = Power(b, n - k) /\ Found(r, b, p, rest, s, d, left)
    BY <1>1, ReadingDigit
  <2>a. /\ d < b /\ (d = 0 <=> rest < p) /\ (rest < p => left = rest)
        /\ r = [value |-> rest, out |-> s] /\ p = Power(b, n - k)
    BY <2>1, Zenon DEF Found
  <2>2. r \in Partial /\ k \in 1 .. (BITS - 1) \div bits + 1 /\ r.value = rest /\ r.out = s
    BY <1>0, <1>n, <2>a DEF Reading
  <2>3. PICK pos : pos = ((BITS - 1) \div bits) * bits - bits * (k - 1)
    OBVIOUS
  <2>4. pos = bits * (n - k)
    <3>1. pos = c * bits - bits * (k - 1) /\ n = c + 1
      BY <1>0, <1>n, <2>3
    <3>2. bits = 1 \/ bits = 3 \/ bits = 4
      OBVIOUS
    <3>3. CASE bits = 1
      BY <3>1, <3>3
    <3>4. CASE bits = 3
      BY <3>1, <3>4
    <3>5. CASE bits = 4
      BY <3>1, <3>5
    <3> QED
      BY <3>2, <3>3, <3>4, <3>5
  <2>5. Power(2, pos) = p
    <3>1. n - k \in Nat
      OBVIOUS
    <3> QED
      BY <1>p, <2>4, <2>a, <3>1
  <2>6. pos - bits < 0 <=> k = n
    BY <2>4
  <2>7. (rest \div p) % b = d
    <3>1. d % b = d
      <4>1. d \in Nat /\ b \in Nat /\ d < b
        BY <2>a
      <4> QED
        BY <4>1, ModBelow, Zenon
    <3> QED
      BY <2>1, <3>1, Zenon DEF Found
  <2>8. rest - d * p = left
    <3>1. rest = p * d + left
      BY <2>1, Zenon DEF Found
    <3> QED
      BY <3>1
  <2>9. Shift(bits)[k][r] =
          [value |-> rest - d * p,
           out   |-> IF s # <<>> \/ d # 0 \/ pos - bits < 0 THEN Append(s, Digit(d)) ELSE s]
    <3>2. Shift(bits)[k][r] =
            [value |-> r.value - ((r.value \div Power(2, pos)) % Power(2, bits)) * Power(2, pos),
             out   |-> IF r.out # <<>> \/ (r.value \div Power(2, pos)) % Power(2, bits) # 0
                            \/ pos - bits < 0
                       THEN Append(r.out, Digit((r.value \div Power(2, pos)) % Power(2, bits)))
                       ELSE r.out]
      BY <2>2, <2>3, Zenon DEF Shift
    <3>3. (r.value \div Power(2, pos)) % Power(2, bits) = d
      BY <1>b, <2>2, <2>5, <2>7, Zenon
    <3> QED
      BY <2>2, <2>5, <3>2, <3>3, Zenon
  <2>10. Turned(r, Power(b, n - k), k = n) =
          [value |-> left,
           out   |-> IF s # <<>> \/ rest >= p \/ k = n THEN Append(s, Digit(d)) ELSE s]
    BY <2>1, <2>2, Zenon DEF Turned, Found
  <2>11. rest >= p <=> d # 0
    BY <2>a
  <2> QED
    BY <2>6, <2>8, <2>9, <2>10, <2>11, Zenon
<1>3. /\ Numerals(Convert(Shift(bits), value, n), value, b)
      /\ Short(Convert(Shift(bits), value, n), value, b, n)
  BY <1>1, <1>2, DigitsRead
<1> QED
  BY <1>0, <1>b, <1>n, <1>3, Zenon DEF bitwise_convert


(* What is known after k turns of Divide: the digits stored are the lower  *)
(* ones, and what is left is halved at least at every turn.                *)
Divided(r, value, base, k) ==
  /\ r.out \in Seq(Figures(base))
  /\ r.value * Power(base, Len(r.out)) + ValueOf(r.out, base) = value
  /\ Power(2, k) * r.value <= value
  /\ r.value = 0 /\ r.out # <<>> => r.out[1] # 48 \/ Len(r.out) = 1
  /\ k > 0 => r.out # <<>>

Dividing(value, base, k) == {r \in Partial : Divided(r, value, base, k)}

(* A turn of Divide keeps it. *)
LEMMA DivideTurn ==
  ASSUME NEW base \in 2 .. 36, NEW value \in Nat, NEW k \in 1 .. BITS + 1,
         NEW r \in Dividing(value, base, k - 1)
  PROVE  Divide(base)[k][r] \in Dividing(value, base, k)
<1>1. PICK v \in Nat, s \in Seq(Nat) : r = [value |-> v, out |-> s] /\ r.value = v /\ r.out = s
  BY DEF Dividing, Partial
<1>2. r \in Partial /\ Divided(r, value, base, k - 1)
  BY DEF Dividing
<1>3. /\ s \in Seq(Figures(base))
      /\ v * Power(base, Len(s)) + ValueOf(s, base) = value
      /\ Power(2, k - 1) * v <= value
      /\ v = 0 /\ s # <<>> => s[1] # 48 \/ Len(s) = 1
  BY <1>1, <1>2, Zenon DEF Divided
<1>4. PICK half \in Nat : half = Power(2, k - 1) /\ Power(2, k) = half * 2
  <2>1. 2 \in Nat \ {0} /\ k - 1 \in Nat /\ (k - 1) + 1 = k
    BY Widths
  <2> QED
    BY <2>1, PowerNext
<1>5. CASE v = 0 /\ s # <<>>
  <2>1. Divide(base)[k][r] = r
    BY <1>1, <1>2, <1>5, Zenon DEF Divide
  <2>2. Power(2, k) * v <= value
    <3>1. (half * 2) * 0 = 0
      OBVIOUS
    <3> QED
      BY <1>4, <1>5, <3>1
  <2>3. Divided(r, value, base, k)
    BY <1>1, <1>3, <1>5, <2>2, Zenon DEF Divided
  <2> QED
    BY <1>2, <2>1, <2>3 DEF Dividing
<1>6. CASE ~(v = 0 /\ s # <<>>)
  <2>1. PICK q \in Nat, d \in 0 .. base - 1 : q = v \div base /\ d = v % base /\ v = base * q + d
    <3>1. v \in Nat /\ base \in Nat /\ base > 0
      OBVIOUS
    <3>2. v \div base \in Nat /\ v % base \in 0 .. base - 1 /\ v = base * (v \div base) + (v % base)
      BY <3>1, DivModExists
    <3> QED
      BY <3>2
  <2>2. Divide(base)[k][r] = [value |-> v \div base, out |-> <<Digit(v % base)>> \o s]
    BY <1>1, <1>2, <1>6, Zenon DEF Divide
  <2>3. PICK u, t : u = Digit(d) /\ t = <<u>> \o s
    OBVIOUS
  <2>4. PICK w : w = [value |-> q, out |-> t]
    OBVIOUS
  <2>5. w.value = q /\ w.out = t /\ w = Divide(base)[k][r]
    BY <2>1, <2>2, <2>3, <2>4
  <2>6. u \in Figures(base) /\ u \in Nat /\ Numeral(u) = d /\ (u = 48 <=> d = 0)
    <3>1. d \in 0 .. 35
      BY <2>1
    <3> QED
      BY <2>1, <2>3, <3>1, DigitNumeral, Zenon DEF Figures
  <2>7. /\ t \in Seq(Figures(base)) /\ t \in Seq(Nat) /\ Len(t) = Len(s) + 1 /\ Len(s) \in Nat
        /\ t[1] = u /\ t # <<>> /\ (s = <<>> => Len(t) = 1)
    <3>1. <<u>> \in Seq(Figures(base)) /\ Len(<<u>>) = 1 /\ <<u>>[1] = u
      BY <2>6
    <3>2. Len(s) \in Nat /\ (s = <<>> => Len(s) = 0)
      OBVIOUS
    <3>3. t \in Seq(Figures(base)) /\ Len(t) = Len(s) + 1 /\ t[1] = u
      BY <1>3, <2>3, <3>1, <3>2, ConcatProperties
    <3>4. t \in Seq(Nat)
      BY <3>3, FiguresType, SeqMonotonic
    <3> QED
      BY <3>2, <3>3, <3>4
  <2>8. q * Power(base, Len(t)) + ValueOf(t, base) = value
    <3>1. ValueOf(t, base) = d * Power(base, Len(s)) + ValueOf(s, base)
      <4>1. base \in Nat \ {0}
        OBVIOUS
      <4>2. ValueOf(<<u>> \o s, base) = Numeral(u) * Power(base, Len(s)) + ValueOf(s, base)
        BY <2>6, <4>1, ValuePrepend
      <4> QED
        BY <2>3, <2>6, <4>2
    <3>2. PICK p \in Nat : p = Power(base, Len(s)) /\ Power(base, Len(t)) = p * base
      <4>1. base \in Nat \ {0} /\ Len(s) \in Nat
        BY <2>7
      <4> QED
        BY <2>7, <4>1, PowerNext
    <3>3. PICK z \in Int : z = ValueOf(s, base)
      BY base \in Nat, ValueType
    <3>4. q * (p * base) + d * p = v * p
      <4>1. q * (p * base) = (base * q) * p
        OBVIOUS
      <4>2. (base * q + d) * p = (base * q) * p + d * p
        OBVIOUS
      <4> QED
        BY <2>1, <4>1, <4>2
    <3>5. v * p + z = value
      BY <1>3, <3>2, <3>3
    <3>6. PICK x \in Int, y \in Int : x = q * (p * base) /\ y = d * p
      OBVIOUS
    <3>7. x + (y + z) = value
      <4>1. PICK vp : vp = v * p
        OBVIOUS
      <4>2. x + y = vp /\ vp + z = value
        BY <3>4, <3>5, <3>6, <4>1, Zenon
      <4> QED
        BY <4>2
    <3>8. q * Power(base, Len(t)) = x /\ ValueOf(t, base) = y + z
      BY <3>1, <3>2, <3>3, <3>6, Zenon
    <3> QED
      BY <3>7, <3>8, Zenon
  <2>9. Power(2, k) * q <= value
    <3>1. v - 2 * q \in Nat
      <4>1. PICK more \in Nat : base = 2 + more
        OBVIOUS
      <4>2. base * q = 2 * q + more * q /\ more * q \in Nat
        BY <4>1
      <4> QED
        BY <2>1, <4>2
    <3>2. PICK c \in Nat : v = 2 * q + c
      BY <3>1
    <3>3. half * v = (half * 2) * q + half * c /\ half * c \in Nat
      BY <3>2
    <3>4. PICK a \in Nat, b \in Nat : a = (half * 2) * q /\ b = half * c
      OBVIOUS
    <3>5. a + b <= value
      BY <1>3, <1>4, <3>3, <3>4, Zenon
    <3>6. a <= value
      BY <3>4, <3>5
    <3> QED
      BY <1>4, <3>4, <3>6, Zenon
  <2>10. q = 0 => t[1] # 48 \/ Len(t) = 1
    <3> SUFFICES ASSUME q = 0, t[1] = 48 PROVE Len(t) = 1
      OBVIOUS
    <3>1. d = 0
      BY <2>6, <2>7
    <3>2. v = 0
      BY <2>1, <3>1
    <3> QED
      BY <1>6, <2>7, <3>2
  <2>11. Divided(w, value, base, k)
    BY <2>5, <2>7, <2>8, <2>9, <2>10, Zenon DEF Divided
  <2>12. w \in Partial
    BY <2>4, <2>7 DEF Partial
  <2> QED
    BY <2>5, <2>11, <2>12 DEF Dividing
<1> QED
  BY <1>5, <1>6

(* string.c:177-197: a conversion by dividing reads back. *)
LEMMA NaiveReads ==
  ASSUME NEW value \in 0 .. Power(2, BITS) - 1, NEW base \in 2 .. 36
  PROVE  Numerals(naive_convert(value, base), value, base)
<1>1. PICK n \in Nat : n = BITS + 1 /\ n > 0
  BY Widths
<1>2. PICK start : start = [value |-> value, out |-> <<>>]
  OBVIOUS
<1>3. start.value = value /\ start.out = <<>> /\ value \in Nat
  BY <1>2, Widths
<1>4. start \in Dividing(value, base, 0)
  <2>1. start \in Partial
    BY <1>2, <1>3 DEF Partial
  <2>2. Power(2, 0) = 1 /\ Power(base, 0) = 1
    BY PowerZero
  <2>3. value * 1 + 0 = value /\ 1 * value <= value /\ Len(<<>>) = 0 /\ <<>> \in Seq(Figures(base)) /\ ~(0 > 0)
    BY <1>3
  <2>4. ValueOf(<<>>, base) = 0
    BY ValueEmpty
  <2>5. Divided(start, value, base, 0)
    BY <1>3, <2>2, <2>3, <2>4, Zenon DEF Divided
  <2> QED
    BY <2>1, <2>5 DEF Dividing
<1>5. PICK I : I = [k \in 0 .. n |-> Dividing(value, base, k)]
  OBVIOUS
<1>6. start \in I[0] /\ \A k \in 1 .. n : \A r \in I[k - 1] : Divide(base)[k][r] \in I[k]
  <2>1. \A k \in 0 .. n : I[k] = Dividing(value, base, k)
    BY <1>5
  <2>2. ASSUME NEW k \in 1 .. n, NEW r \in I[k - 1]
        PROVE  Divide(base)[k][r] \in I[k]
    <3>1. k - 1 \in 0 .. n /\ k \in 0 .. n /\ k \in 1 .. BITS + 1
      BY <1>1
    <3>2. r \in Dividing(value, base, k - 1)
      BY <2>1, <3>1
    <3> QED
      BY <1>3, <2>1, <3>1, <3>2, DivideTurn
  <2> QED
    BY <1>4, <2>1, <2>2
<1>7. PICK r : r = Loop(Divide(base), start, n)
  OBVIOUS
<1>8. r \in Partial /\ Divided(r, value, base, n)
  <2>1. r \in I[n]
    BY <1>6, <1>7, LoopInvariant
  <2> QED
    BY <1>5, <2>1 DEF Dividing
<1>9. PICK v \in Nat, s \in Seq(Nat) : v = r.value /\ s = r.out
  BY <1>8 DEF Partial
<1>10. /\ s \in Seq(Figures(base)) /\ s # <<>>
       /\ v * Power(base, Len(s)) + ValueOf(s, base) = value
       /\ Power(2, n) * v <= value
       /\ v = 0 => s[1] # 48 \/ Len(s) = 1
  BY <1>1, <1>8, <1>9, Zenon DEF Divided
<1>11. v = 0
  <2>1. PICK w \in Nat \ {0} : w = Power(2, BITS) /\ Power(2, n) = w * 2
    <3>1. 2 \in Nat \ {0} /\ BITS \in Nat
      BY Widths
    <3> QED
      BY <1>1, <3>1, PowerNext
  <2> SUFFICES ASSUME v # 0 PROVE FALSE
    OBVIOUS
  <2>2. PICK c \in Nat : v = 1 + c
    OBVIOUS
  <2>3. (w * 2) * v = w + (w + (w * 2) * c) /\ (w * 2) * c \in Nat
    BY <2>2
  <2>4. PICK b \in Nat : b = (w * 2) * c
    OBVIOUS
  <2>5. w + (w + b) <= value
    BY <1>10, <2>1, <2>3, <2>4, Zenon
  <2>6. value < w
    BY <2>1
  <2> QED
    BY <1>3, <2>5, <2>6
<1>12. ValueOf(s, base) = value
  <2>1. PICK p \in Nat, z \in Int : p = Power(base, Len(s)) /\ z = ValueOf(s, base)
    <3>1. base \in Nat \ {0} /\ base \in Nat /\ Len(s) \in Nat
      OBVIOUS
    <3> QED
      BY <3>1, PowerNext, ValueType
  <2>2. 0 * p + z = z
    OBVIOUS
  <2> QED
    BY <1>10, <1>11, <2>1, <2>2
<1>13. naive_convert(value, base) = s
  BY <1>1, <1>2, <1>7, <1>9, Zenon DEF naive_convert, Convert
<1> QED
  BY <1>10, <1>11, <1>12, <1>13, Zenon DEF Numerals

(* string.c:251-272: which conversion makes the digits of a base. *)
LEMMA Conversions ==
  ASSUME NEW value
  PROVE  /\ u64tostr(value, 0) = to_decimal(value) /\ u64tostr(value, 10) = to_decimal(value)
         /\ u64tostr(value, 2) = bitwise_convert(value, 1)
         /\ u64tostr(value, 8) = bitwise_convert(value, 3)
         /\ u64tostr(value, 16) = bitwise_convert(value, 4)
         /\ u64tostr(value, 36) = naive_convert(value, 36)
         /\ u64tostr(value, 7) = <<>>
<1>1. ASSUME NEW base, base \in {0, 10} PROVE u64tostr(value, base) = to_decimal(value)
  BY <1>1 DEF u64tostr
<1> QED
  BY <1>1 DEF u64tostr

(* The digits of a value in every base there is a conversion for. *)
LEMMA DigitsOf ==
  ASSUME NEW value \in 0 .. Power(2, BITS) - 1
  PROVE  /\ \A b \in {2, 8, 10, 16, 36} : Numerals(u64tostr(value, b), value, b)
         /\ Short(u64tostr(value, 10), value, 10, DEC + 1)
         /\ Len(u64tostr(value, 16)) <= HEX
<1>1. /\ Numerals(u64tostr(value, 10), value, 10)
      /\ Short(u64tostr(value, 10), value, 10, DEC + 1)
  BY Conversions, DecimalReads
<1>2. Numerals(u64tostr(value, 36), value, 36)
  BY 36 \in 2 .. 36, Conversions, NaiveReads
<1>3. Numerals(u64tostr(value, 2), value, 2)
  BY 1 \in {1, 3, 4}, Conversions, BitwiseReads, PowersOfTwo, Zenon
<1>4. Numerals(u64tostr(value, 8), value, 8)
  BY 3 \in {1, 3, 4}, Conversions, BitwiseReads, PowersOfTwo, Zenon
<1>5. /\ Numerals(u64tostr(value, 16), value, 16)
      /\ Short(u64tostr(value, 16), value, 16, (BITS - 1) \div 4 + 1)
  BY 4 \in {1, 3, 4}, Conversions, BitwiseReads, PowersOfTwo, Zenon
<1>6. (BITS - 1) \div 4 + 1 = HEX
  BY Widths DEF HEX
<1>7. Len(u64tostr(value, 16)) <= HEX
  BY <1>5, <1>6, Zenon DEF Short
<1> QED
  BY <1>1, <1>2, <1>3, <1>4, <1>5, <1>7

(* Every base the conversion knows reads back, for every value. *)
THEOREM ConversionsReadBack ==
  \A value \in 0 .. Power(2, BITS) - 1 : ReadsBack(value)
<1> SUFFICES ASSUME NEW value \in 0 .. Power(2, BITS) - 1 PROVE ReadsBack(value)
  OBVIOUS
<1>1. \A b \in {2, 8, 10, 16, 36} :
        /\ ValueOf(u64tostr(value, b), b) = value
        /\ u64tostr(value, b)[1] = 48 => Len(u64tostr(value, b)) = 1
  BY DigitsOf, Zenon DEF Numerals
<1>2. u64tostr(value, 0) = u64tostr(value, 10) /\ u64tostr(value, 7) = <<>>
  BY Conversions
<1> QED
  BY <1>1, <1>2, Zenon DEF ReadsBack

(* The least of a set of numbers. *)
LEMMA LeastIs ==
  ASSUME NEW S, S \subseteq Nat, S # {}
  PROVE  Least(S) \in S /\ \A y \in S : Least(S) <= y
BY LeastExists DEF Least

-----------------------------------------------------------------------------
(* Padding *)

(* Digits behind m zeros. *)
Filled(m, digits) ==
  [i \in 1 .. m + Len(digits) |-> IF i <= m THEN 48 ELSE digits[i - m]]

(* The length of a string whose NUL is the first. *)
LEMMA StrlenIs ==
  ASSUME NEW mem, NEW n \in Nat, Len(mem) \in Nat, n < Len(mem), mem[n + 1] = 0,
         \A i \in 1 .. n : mem[i] # 0
  PROVE  strlen(mem, 1) = n
<1> DEFINE nuls == {k \in 0 .. Len(mem) - 1 : mem[1 + k] = 0}
<1>1. n \in nuls
  BY n + 1 = 1 + n
<1>2. \A k \in nuls : n <= k
  <2> SUFFICES ASSUME NEW k \in nuls, k < n PROVE FALSE
    OBVIOUS
  <2>1. 1 + k \in 1 .. n
    OBVIOUS
  <2> QED
    BY <2>1
<1>3. nuls \subseteq Nat /\ nuls # {}
  <2>1. nuls \subseteq Nat
    OBVIOUS
  <2> HIDE DEF nuls
  <2> QED
    BY <1>1, <2>1
<1>4. Least(nuls) = n
  <2> HIDE DEF nuls
  <2>1. PICK m : m = Least(nuls)
    OBVIOUS
  <2>2. m \in nuls /\ \A y \in nuls : m <= y
    BY <1>3, <2>1, LeastIs
  <2>3. m \in Nat /\ m <= n /\ n <= m
    BY <1>1, <1>2, <1>3, <2>2
  <2> QED
    BY <2>1, <2>3
<1>5. strnlen(mem, 1, Len(mem)) = n
  BY <1>3, <1>4 DEF strnlen
<1>6. Len(mem) - 1 + 1 = Len(mem)
  OBVIOUS
<1> QED
  BY <1>5, <1>6, Zenon DEF strlen

(* No octet of a string is NUL. *)
LEMMA NoNul == Byte \subseteq Nat /\ \A b \in Byte : b # 0
<1> SUFFICES ASSUME NEW b \in Byte PROVE b \in Nat /\ b # 0
  OBVIOUS
<1> QED
  BY DEF Byte

(* What stands where in a concatenation. *)
LEMMA ConcatAt ==
  ASSUME NEW S, NEW s \in Seq(S), NEW t \in Seq(S)
  PROVE  /\ \A i \in 1 .. Len(s) : (s \o t)[i] = s[i]
         /\ \A i \in 1 .. Len(t) : (s \o t)[Len(s) + i] = t[i]
OBVIOUS

(* Padding fills the buffer with zeros in front of the digits. *)
LEMMA PaddedIs ==
  ASSUME NEW digits \in Seq(Byte), NEW size \in Nat, Len(digits) < size
  PROVE  Padded(digits, size) = Filled(size - 1 - Len(digits), digits)
<1>1. PICK l \in Nat : l = Len(digits)
  OBVIOUS
<1>2. l < size /\ \A i \in 1 .. l : digits[i] \in Byte
  BY <1>1
<1>3. PICK buffer : buffer = digits \o [i \in 1 .. size - Len(digits) |-> 0]
  OBVIOUS
<1>4. /\ Len(buffer) = size /\ DOMAIN buffer = 1 .. size
      /\ \A i \in 1 .. l : buffer[i] = digits[i]
      /\ buffer[l + 1] = 0
  <2>1. PICK nul : nul = [i \in 1 .. size - Len(digits) |-> 0]
    OBVIOUS
  <2>2. nul \in Seq(Nat) /\ Len(nul) = size - l /\ \A i \in 1 .. size - l : nul[i] = 0
    BY <1>1, <2>1
  <2>3. buffer = digits \o nul
    BY <1>3, <2>1
  <2> QED
    <3>1. digits \in Seq(Nat)
      <4>1. Byte \subseteq Nat
        BY DEF Byte
      <4> QED
        BY <4>1, SeqMonotonic
    <3>2. /\ Len(buffer) = l + (size - l) /\ buffer \in Seq(Nat)
          /\ \A i \in 1 .. l + (size - l) : buffer[i] = IF i <= l THEN digits[i] ELSE nul[i - l]
      BY <1>1, <2>2, <2>3, <3>1, ConcatProperties
    <3>3. l + (size - l) = size /\ 1 \in 1 .. size - l /\ l + 1 - l = 1 /\ l + 1 \in 1 .. size
      BY <1>2
    <3> QED
      <4>1. DOMAIN buffer = 1 .. size /\ Len(buffer) = size
        BY <3>2, <3>3
      <4>2. \A i \in 1 .. l : buffer[i] = digits[i]
        <5> SUFFICES ASSUME NEW i \in 1 .. l PROVE buffer[i] = digits[i]
          OBVIOUS
        <5>1. i \in 1 .. l + (size - l) /\ i <= l
          BY <1>2
        <5>2. buffer[i] = IF i <= l THEN digits[i] ELSE nul[i - l]
          BY <3>2, <5>1, Zenon
        <5> QED
          BY <5>1, <5>2
      <4>3. buffer[l + 1] = 0
        <5>1. buffer[l + 1] = nul[1]
          BY <1>1, <2>2, <2>3, <3>1, <3>3, ConcatAt
        <5> QED
          BY <2>2, <3>3, <5>1
      <4> QED
        BY <4>1, <4>2, <4>3
<1>5. strlen(buffer, 1) = l
  <2>1. \A i \in 1 .. l : buffer[i] # 0
    <3> SUFFICES ASSUME NEW i \in 1 .. l PROVE buffer[i] # 0
      OBVIOUS
    <3>1. digits[i] \in Byte /\ buffer[i] = digits[i]
      BY <1>2, <1>4
    <3> QED
      BY <3>1, NoNul
  <2> QED
    BY <1>2, <1>4, <2>1, StrlenIs
<1>6. PICK back : back = strrev(buffer, 1)
  OBVIOUS
<1>7. /\ back = [i \in 1 .. size |-> IF i \in 1 .. l THEN buffer[l + 1 - i] ELSE buffer[i]]
  <2>1. back = [i \in 1 .. size |-> IF i \in 1 .. 1 + l - 1 THEN buffer[(2 * 1 + l - 1) - i] ELSE buffer[i]]
    BY <1>4, <1>5, <1>6, Zenon DEF strrev, strnrev
  <2> QED
    BY <2>1
<1>8. PICK zeros : zeros = memset(back, Len(digits) + 1, 48, size - Len(digits)).mem
  OBVIOUS
<1>9. zeros = [i \in 1 .. size |-> IF i \in l + 1 .. size THEN 48 ELSE back[i]]
  <2>1. DOMAIN back = 1 .. size /\ 48 % 256 = 48 /\ l + 1 + (size - l) - 1 = size
    BY <1>7
  <2> QED
    BY <1>1, <1>8, <2>1, Zenon DEF memset
<1>10. PICK full : full = [zeros EXCEPT ![size] = 0]
  OBVIOUS
<1>11. /\ Len(full) = size /\ DOMAIN full = 1 .. size /\ full[size] = 0
       /\ \A i \in 1 .. size - 1 : full[i] = IF i \in l + 1 .. size THEN 48 ELSE digits[l + 1 - i]
  <2>0. DOMAIN zeros = 1 .. size
    BY <1>9
  <2>1. DOMAIN full = 1 .. size
    BY <1>10, <2>0
  <2>2. Len(full) = size
    BY <2>1
  <2>3. full[size] = 0
    BY <1>2, <1>9, <1>10
  <2>4. ASSUME NEW i \in 1 .. size - 1
        PROVE  full[i] = IF i \in l + 1 .. size THEN 48 ELSE digits[l + 1 - i]
    <3>1. full[i] = IF i \in l + 1 .. size THEN 48 ELSE back[i]
      BY <1>9, <1>10
    <3>2. i \in 1 .. l => back[i] = buffer[l + 1 - i] /\ l + 1 - i \in 1 .. l
      BY <1>2, <1>7
    <3>3. i \in 1 .. l \/ i \in l + 1 .. size
      OBVIOUS
    <3> QED
      BY <1>4, <3>1, <3>2, <3>3
  <2> QED
    BY <2>1, <2>2, <2>3, <2>4
<1>12. strlen(full, 1) = size - 1
  <2>1. \A i \in 1 .. size - 1 : full[i] # 0
    <3> SUFFICES ASSUME NEW i \in 1 .. size - 1 PROVE full[i] # 0
      OBVIOUS
    <3>1. i \in l + 1 .. size \/ l + 1 - i \in 1 .. l
      BY <1>2
    <3>2. \A j \in 1 .. l : digits[j] # 0
      <4> SUFFICES ASSUME NEW j \in 1 .. l PROVE digits[j] # 0
        OBVIOUS
      <4>1. digits[j] \in Byte
        BY <1>2
      <4> QED
        BY <4>1, NoNul
    <3>3. CASE i \in l + 1 .. size
      <4>1. full[i] = 48
        BY <1>11, <3>3
      <4> QED
        BY <4>1
    <3>4. CASE i \notin l + 1 .. size
      <4>1. full[i] = digits[l + 1 - i] /\ l + 1 - i \in 1 .. l
        BY <1>11, <3>1, <3>4
      <4> QED
        BY <3>2, <4>1
    <3> QED
      BY <3>3, <3>4
  <2>2. size - 1 \in Nat /\ size - 1 < size /\ (size - 1) + 1 = size
    BY <1>2
  <2> QED
    BY <1>11, <2>1, <2>2, StrlenIs
<1>13. PICK last : last = strrev(full, 1)
  OBVIOUS
<1>14. last = [i \in 1 .. size |-> IF i \in 1 .. size - 1 THEN full[size - i] ELSE full[i]]
  <2>1. last = [i \in 1 .. size |-> IF i \in 1 .. 1 + (size - 1) - 1
                                    THEN full[(2 * 1 + (size - 1) - 1) - i] ELSE full[i]]
    BY <1>11, <1>12, <1>13, Zenon DEF strrev, strnrev
  <2> QED
    BY <2>1
<1>15. Padded(digits, size) = SubSeq(last, 1, size - 1)
  BY <1>3, <1>6, <1>8, <1>10, <1>13, Zenon DEF Padded
<1>16. SubSeq(last, 1, size - 1) = [i \in 1 .. size - 1 |-> last[i]]
  <2>1. DOMAIN last = 1 .. size /\ Len(last) = size
    BY <1>14
  <2> QED
    BY <2>1
<1>17. \A i \in 1 .. size - 1 :
         last[i] = IF i <= size - 1 - l THEN 48 ELSE digits[i - (size - 1 - l)]
  <2> SUFFICES ASSUME NEW i \in 1 .. size - 1
               PROVE  last[i] = IF i <= size - 1 - l THEN 48 ELSE digits[i - (size - 1 - l)]
    OBVIOUS
  <2>1. last[i] = full[size - i] /\ size - i \in 1 .. size - 1
    BY <1>14
  <2>2. full[size - i] = IF size - i \in l + 1 .. size THEN 48 ELSE digits[l + 1 - (size - i)]
    BY <1>11, <2>1
  <2>3. l + 1 - (size - i) = i - (size - 1 - l) /\ (size - i \in l + 1 .. size <=> i <= size - 1 - l)
    BY <1>2
  <2> QED
    BY <2>1, <2>2, <2>3
<1>18. size - 1 - l + l = size - 1
  OBVIOUS
<1> QED
  BY <1>1, <1>15, <1>16, <1>17, <1>18 DEF Filled

(* Zeros in front change no number. *)
LEMMA FilledValue ==
  ASSUME NEW base \in 2 .. 36, NEW digits \in Seq(Figures(base)), NEW m \in Nat
  PROVE  /\ Filled(m, digits) \in Seq(Figures(base))
         /\ Len(Filled(m, digits)) = m + Len(digits)
         /\ ValueOf(Filled(m, digits), base) = ValueOf(digits, base)
<1> DEFINE P == {k \in 0 .. m : /\ Filled(k, digits) \in Seq(Figures(base))
                                /\ Len(Filled(k, digits)) = k + Len(digits)
                                /\ ValueOf(Filled(k, digits), base) = ValueOf(digits, base)}
<1>1. 0 \in P
  <2>1. Len(digits) \in Nat /\ digits = [i \in 1 .. Len(digits) |-> digits[i]]
    OBVIOUS
  <2>2. Filled(0, digits) = digits
    <3>1. Filled(0, digits) = [i \in 1 .. 0 + Len(digits) |-> IF i <= 0 THEN 48 ELSE digits[i - 0]]
      BY DEF Filled
    <3>2. 0 + Len(digits) = Len(digits) /\ \A i \in 1 .. Len(digits) : ~(i <= 0) /\ i - 0 = i
      BY <2>1
    <3> QED
      BY <2>1, <3>1, <3>2
  <2> QED
    BY <2>1, <2>2
<1>2. ASSUME NEW k \in 0 .. m - 1, k \in P
      PROVE  k + 1 \in P
  <2>1. PICK s : s = Filled(k, digits)
    OBVIOUS
  <2>2. PICK t : t = Filled(k + 1, digits)
    OBVIOUS
  <2>3. PICK l \in Nat : l = Len(digits)
    OBVIOUS
  <2>4. s \in Seq(Figures(base)) /\ Len(s) = k + l /\ ValueOf(s, base) = ValueOf(digits, base)
    BY <1>2, <2>1, <2>3
  <2>5. 48 \in Figures(base) /\ Numeral(48) = 0 /\ 48 \in Nat
    <3>1. Digit(0) = 48 /\ 0 \in 0 .. base - 1
      BY DEF Digit
    <3> QED
      BY <3>1 DEF Figures, Numeral
  <2>6. /\ <<48>> \o s \in Seq(Figures(base)) /\ Len(<<48>> \o s) = 1 + (k + l)
        /\ \A i \in 1 .. 1 + (k + l) : (<<48>> \o s)[i] = IF i <= 1 THEN 48 ELSE s[i - 1]
    <3>1. <<48>> \in Seq(Figures(base)) /\ Len(<<48>>) = 1 /\ <<48>>[1] = 48
      BY <2>5
    <3>2. \A i \in 1 .. 1 + (k + l) : i <= 1 => i = 1
      OBVIOUS
    <3> QED
      BY <2>4, <3>1, <3>2, ConcatProperties
  <2>7. \A i \in 1 .. 1 + (k + l) : (<<48>> \o s)[i] = IF i <= k + 1 THEN 48 ELSE digits[i - (k + 1)]
    <3> SUFFICES ASSUME NEW i \in 1 .. 1 + (k + l)
                 PROVE  (<<48>> \o s)[i] = IF i <= k + 1 THEN 48 ELSE digits[i - (k + 1)]
      OBVIOUS
    <3>1. (<<48>> \o s)[i] = IF i <= 1 THEN 48 ELSE s[i - 1]
      BY <2>6
    <3>2. CASE i <= 1
      BY <3>1, <3>2
    <3>3. CASE i > 1
      <4>1. i - 1 \in 1 .. k + l /\ (i - 1) - k = i - (k + 1) /\ (i - 1 <= k <=> i <= k + 1)
        BY <3>3
      <4>2. PICK j \in 1 .. k + l : j = i - 1
        BY <4>1
      <4>3. s[j] = IF j <= k THEN 48 ELSE digits[j - k]
        BY <2>1, <2>3 DEF Filled
      <4>6. (<<48>> \o s)[i] = s[j]
        <5>1. ~(i <= 1)
          BY <3>3
        <5> QED
          BY <3>1, <4>2, <5>1, Zenon
      <4>4. CASE i <= k + 1
        BY <4>1, <4>2, <4>3, <4>4, <4>6
      <4>5. CASE ~(i <= k + 1)
        <5>1. ~(j <= k) /\ j - k = i - (k + 1)
          BY <4>2, <4>5
        <5> QED
          BY <4>3, <4>5, <4>6, <5>1, Zenon
      <4> QED
        BY <4>4, <4>5
    <3>4. i <= 1 \/ i > 1
      OBVIOUS
    <3> QED
      BY <3>2, <3>3, <3>4, Zenon
  <2>8. t = <<48>> \o s
    <3>1. t = [i \in 1 .. 1 + (k + l) |-> IF i <= k + 1 THEN 48 ELSE digits[i - (k + 1)]]
      <4>1. (k + 1) + l = 1 + (k + l)
        OBVIOUS
      <4> QED
        BY <2>2, <2>3, <4>1 DEF Filled
    <3>2. <<48>> \o s = [i \in 1 .. 1 + (k + l) |-> (<<48>> \o s)[i]]
      BY <2>6
    <3> QED
      BY <2>7, <3>1, <3>2
  <2>9. ValueOf(t, base) = ValueOf(digits, base)
    <3>1. s \in Seq(Nat) /\ base \in Nat \ {0} /\ base \in Nat /\ Len(s) \in Nat /\ digits \in Seq(Nat)
      BY <2>4, FiguresType, SeqMonotonic
    <3>2. ValueOf(<<48>> \o s, base) = 0 * Power(base, Len(s)) + ValueOf(s, base)
      BY <2>5, <3>1, ValuePrepend
    <3>3. PICK p \in Nat, v \in Int : p = Power(base, Len(s)) /\ v = ValueOf(s, base)
      BY <3>1, PowerNext, ValueType
    <3>4. 0 * p + v = v
      OBVIOUS
    <3> QED
      BY <2>4, <2>8, <3>2, <3>3, <3>4
  <2>10. k + 1 \in 0 .. m /\ 1 + (k + l) = (k + 1) + Len(digits)
    BY <2>3
  <2> QED
    BY <2>2, <2>6, <2>8, <2>9, <2>10
<1>3. m \in P
  <2> HIDE DEF P
  <2>1. \A k \in 0 .. m - 1 : k \in P => k + 1 \in P
    BY <1>2
  <2>2. \A k \in 0 .. m : k \in P
    BY <1>1, <2>1, UpTo
  <2> QED
    BY <2>2
<1> QED
  BY <1>3

(* Cutting zeros off leaves the rest of them. *)
LEMMA FilledCut ==
  ASSUME NEW S, NEW digits \in Seq(S), NEW m \in Nat, NEW c \in 0 .. m
  PROVE  SubSeq(Filled(m, digits), c + 1, m + Len(digits)) = Filled(m - c, digits)
<1>1. PICK l \in Nat : l = Len(digits)
  OBVIOUS
<1>2. PICK s : s = Filled(m, digits)
  OBVIOUS
<1>3. \A i \in 1 .. m + l : s[i] = IF i <= m THEN 48 ELSE digits[i - m]
  BY <1>1, <1>2 DEF Filled
<1>4. SubSeq(s, c + 1, m + l) = [i \in 1 .. (m + l) - (c + 1) + 1 |-> s[(c + 1) + i - 1]]
  <2>1. DOMAIN s = 1 .. m + l /\ Len(s) = m + l
    BY <1>1, <1>2 DEF Filled
  <2> QED
    BY <2>1
<1>5. (m + l) - (c + 1) + 1 = (m - c) + l
  OBVIOUS
<1>6. \A i \in 1 .. (m - c) + l :
        s[(c + 1) + i - 1] = IF i <= m - c THEN 48 ELSE digits[i - (m - c)]
  <2> SUFFICES ASSUME NEW i \in 1 .. (m - c) + l
               PROVE  s[(c + 1) + i - 1] = IF i <= m - c THEN 48 ELSE digits[i - (m - c)]
    OBVIOUS
  <2>1. /\ (c + 1) + i - 1 \in 1 .. m + l
        /\ ((c + 1) + i - 1 <= m <=> i <= m - c)
        /\ (c + 1) + i - 1 - m = i - (m - c)
    OBVIOUS
  <2> QED
    BY <1>3, <2>1
<1> QED
  BY <1>1, <1>2, <1>4, <1>5, <1>6 DEF Filled

-----------------------------------------------------------------------------
(* The texts of numbers *)

(* The characters numbers are printed with: of 7 bits, and no newline. *)
Plain == {b \in Byte : b < 128 /\ b # 10}

LEMMA FiguresPlain ==
  ASSUME NEW base \in 2 .. 36
  PROVE  Figures(base) \subseteq Plain
<1> SUFFICES ASSUME NEW d \in 0 .. base - 1 PROVE Digit(d) \in Plain
  BY DEF Figures
<1> QED
  BY d \in 0 .. 35, DigitNumeral DEF Plain

(* The digits of base 10. *)
LEMMA FiguresOfTen ==
  ASSUME NEW u \in Figures(10)
  PROVE  u \in 48 .. 57
<1>1. PICK d \in 0 .. 9 : u = Digit(d)
  BY DEF Figures
<1> QED
  BY <1>1 DEF Digit

(* The value of every number that is printed. *)
LEMMA NumberBelow ==
  ASSUME NEW value \in Numbers
  PROVE  value \in 0 .. Power(2, BITS) - 1 /\ value \in Nat
BY NumbersAssumption, Widths

(* What is put together of figures can be printed. *)
LEMMA FiguresText ==
  ASSUME NEW base \in 2 .. 36, NEW s \in Seq(Figures(base))
  PROVE  s \in Seq(Plain) /\ s \in Seq(Byte) /\ s \in Seq(Nat)
BY FiguresPlain, FiguresType, SeqMonotonic

(* print_list_entry of gop.c: three digits, zeros in front. *)
LEMMA EntryText ==
  ASSUME NEW value \in Numbers, value <= 999
  PROVE  LET text == Padded(u64tostr(value, 10), 4)
         IN text \in Seq(Figures(10)) /\ Len(text) = 3 /\ ValueOf(text, 10) = value
<1>1. PICK s : s = u64tostr(value, 10)
  OBVIOUS
<1>2. s \in Seq(Figures(10)) /\ ValueOf(s, 10) = value /\ Short(s, value, 10, DEC + 1)
  <2>1. Numerals(s, value, 10) /\ Short(s, value, 10, DEC + 1)
    BY <1>1, NumberBelow, DigitsOf
  <2> QED
    BY <2>1 DEF Numerals
<1>3. Len(s) <= 3
  <2>1. Power(10, 3) = 1000
    <3>1. 10 \in Nat \ {0} /\ 10 \in Nat
      OBVIOUS
    <3>2. Power(10, 0) = 1 /\ Power(10, 0 + 1) = Power(10, 0) * 10
          /\ Power(10, 1 + 1) = Power(10, 1) * 10 /\ Power(10, 2 + 1) = Power(10, 2) * 10
      BY <3>1, PowerZero, PowerNext
    <3> QED
      BY <3>2
  <2>2. value < Power(10, 3)
    BY <2>1, NumberBelow
  <2>3. DEC + 1 <= 3 \/ 3 \in 1 .. DEC + 1
    BY Widths
  <2>4. Len(s) \in Nat
    BY <1>2
  <2> QED
    BY <1>2, <2>2, <2>3, <2>4, Widths DEF Short
<1>4. s \in Seq(Byte) /\ Len(s) < 4 /\ Len(s) \in Nat
  BY <1>2, <1>3, FiguresText
<1>5. Padded(s, 4) = Filled(3 - Len(s), s)
  <2>1. 4 - 1 - Len(s) = 3 - Len(s)
    BY <1>4
  <2> QED
    BY <1>4, <2>1, PaddedIs
<1>6. 3 - Len(s) \in Nat /\ 3 - Len(s) + Len(s) = 3
  BY <1>3, <1>4
<1> QED
  <2>1. 10 \in 2 .. 36
    OBVIOUS
  <2>2. /\ Filled(3 - Len(s), s) \in Seq(Figures(10))
        /\ Len(Filled(3 - Len(s), s)) = 3 - Len(s) + Len(s)
        /\ ValueOf(Filled(3 - Len(s), s), 10) = ValueOf(s, 10)
    BY <1>2, <1>6, <2>1, FilledValue
  <2> QED
    BY <1>1, <1>2, <1>5, <1>6, <2>2

(* efi_put0h: as many digits as are wanted, or as the value has. *)
LEMMA HexText ==
  ASSUME NEW value \in Numbers, NEW digits \in {2, HEX}
  PROVE  LET text == efi_put0h(value, digits)
         IN /\ text \in Seq(Figures(16)) /\ ValueOf(text, 16) = value
            /\ Len(text) <= HEX /\ Len(text) >= digits
<1>1. PICK s : s = u64tostr(value, 16)
  OBVIOUS
<1>h. HEX \in Nat /\ HEX >= 2
  BY DigitsAssumption, Widths DEF HEX
<1>2. s \in Seq(Figures(16)) /\ ValueOf(s, 16) = value /\ Len(s) <= HEX
  <2>1. Numerals(s, value, 16) /\ Len(s) <= HEX
    BY <1>1, NumberBelow, DigitsOf
  <2> QED
    BY <2>1 DEF Numerals
<1>3. s \in Seq(Byte) /\ Len(s) < HEX + 1
  BY <1>2, <1>h, FiguresText
<1>n. PICK n \in Nat : n = Len(s) /\ n <= HEX
  BY <1>2
<1>4. Padded(s, HEX + 1) = Filled(HEX - n, s)
  <2>1. HEX + 1 - 1 - Len(s) = HEX - n
    BY <1>n, <1>h
  <2> QED
    BY <1>3, <1>h, <2>1, PaddedIs
<1>5. PICK shown \in Nat : shown = (IF n > digits THEN n ELSE digits)
  BY <1>h
<1>6. shown >= n /\ shown >= digits /\ shown <= HEX
  BY <1>5, <1>h, <1>n
<1>7. efi_put0h(value, digits) = SubSeq(Filled(HEX - n, s), HEX - shown + 1, HEX)
  BY <1>1, <1>n, <1>4, <1>5, Zenon DEF efi_put0h
<1>8. SubSeq(Filled(HEX - n, s), HEX - shown + 1, HEX) = Filled(shown - n, s)
  <2>1. /\ HEX - n \in Nat /\ HEX - shown \in 0 .. HEX - n
        /\ HEX - n + Len(s) = HEX /\ HEX - n - (HEX - shown) = shown - n
    BY <1>h, <1>n, <1>6
  <2> QED
    BY <1>2, <2>1, FilledCut
<1>9. shown - n \in Nat /\ shown - n + Len(s) = shown
  BY <1>n, <1>6
<1>10. /\ Filled(shown - n, s) \in Seq(Figures(16)) /\ Len(Filled(shown - n, s)) = shown
       /\ ValueOf(Filled(shown - n, s), 16) = value
  <2>1. 16 \in 2 .. 36
    OBVIOUS
  <2>2. /\ Filled(shown - n, s) \in Seq(Figures(16))
        /\ Len(Filled(shown - n, s)) = shown - n + Len(s)
        /\ ValueOf(Filled(shown - n, s), 16) = ValueOf(s, 16)
    BY <1>2, <1>9, <2>1, FilledValue
  <2> QED
    BY <1>2, <1>9, <2>2
<1> QED
  BY <1>6, <1>7, <1>8, <1>10

-----------------------------------------------------------------------------
(* Sizes *)

(* The suffixes can be printed. *)
LEMMA SuffixText ==
  ASSUME NEW k \in 0 .. 4
  PROVE  SizeSuffixes[k + 1] \in Seq(Plain)
<1>1. /\ 66 \in Plain /\ 107 \in Plain /\ 77 \in Plain /\ 71 \in Plain /\ 84 \in Plain
  BY DEF Plain, Byte
<1>2. <<66>> \in Seq(Plain)
  BY <1>1
<1>3. <<107, 66>> \in Seq(Plain)
  BY <1>1
<1>4. <<77, 66>> \in Seq(Plain)
  BY <1>1
<1>5. <<71, 66>> \in Seq(Plain)
  BY <1>1
<1>6. <<84, 66>> \in Seq(Plain)
  BY <1>1
<1>7. /\ SizeSuffixes[1] = <<66>> /\ SizeSuffixes[2] = <<107, 66>> /\ SizeSuffixes[3] = <<77, 66>>
      /\ SizeSuffixes[4] = <<71, 66>> /\ SizeSuffixes[5] = <<84, 66>>
  BY DEF SizeSuffixes
<1>8. k = 0 \/ k = 1 \/ k = 2 \/ k = 3 \/ k = 4
  OBVIOUS
<1>9. PICK j : j = k + 1
  OBVIOUS
<1>10. j = 1 \/ j = 2 \/ j = 3 \/ j = 4 \/ j = 5
  BY <1>8, <1>9
<1>11. SizeSuffixes[j] \in Seq(Plain)
  <2>1. CASE j = 1
    BY <1>2, <1>7, <2>1
  <2>2. CASE j = 2
    BY <1>3, <1>7, <2>2
  <2>3. CASE j = 3
    BY <1>4, <1>7, <2>3
  <2>4. CASE j = 4
    BY <1>5, <1>7, <2>4
  <2>5. CASE j = 5
    BY <1>6, <1>7, <2>5
  <2> QED
    BY <1>10, <2>1, <2>2, <2>3, <2>4, <2>5
<1> QED
  BY <1>9, <1>11

(* The powers of the unit. *)
LEMMA UnitPowers ==
  ASSUME NEW k \in Nat
  PROVE  Power(KILO, k) \in Nat \ {0} /\ Power(KILO, k + 1) = Power(KILO, k) * KILO
BY KiloAssumption, PowerNext

(* stub.c:117-137: the unit is the first in which the size is no more than *)
(* KILO, or the last; a size with a remainder is printed in bytes. *)
LEMMA ScaleIs ==
  ASSUME NEW size \in Nat
  PROVE  /\ Scale(size) \in 0 .. 4
         /\ Scale(size) > 0 => /\ size % KILO = 0
                               /\ size \div Power(KILO, Scale(size) - 1) > KILO
<1> DEFINE enough == {i \in 0 .. 4 : i = 4 \/ size \div Power(KILO, i) <= KILO}
<1>1. CASE size % KILO # 0
  BY <1>1 DEF Scale
<1>2. CASE size % KILO = 0
  <2>1. PICK k : k = Least(enough)
    OBVIOUS
  <2>2. enough \subseteq Nat /\ 4 \in enough
    OBVIOUS
  <2>3. k \in enough /\ \A i \in enough : k <= i
    <3> HIDE DEF enough
    <3> QED
      BY <2>1, <2>2, LeastIs
  <2>4. Scale(size) = k
    BY <1>2, <2>1 DEF Scale
  <2>5. k > 0 => size \div Power(KILO, k - 1) > KILO
    <3> SUFFICES ASSUME k > 0 PROVE size \div Power(KILO, k - 1) > KILO
      OBVIOUS
    <3>1. k - 1 \in 0 .. 4 /\ k - 1 < k
      BY <2>3
    <3>2. k - 1 \notin enough
      <4> HIDE DEF enough
      <4> QED
        BY <2>2, <2>3, <3>1
    <3>3. ~(size \div Power(KILO, k - 1) <= KILO)
      BY <3>1, <3>2
    <3>4. size \div Power(KILO, k - 1) \in Nat
      <4>1. k - 1 \in Nat
        BY <3>1
      <4>2. Power(KILO, k - 1) \in Nat /\ Power(KILO, k - 1) > 0
        BY <4>1, UnitPowers
      <4> QED
        BY <4>2, DivModExists
    <3> QED
      BY <3>3, <3>4, KiloAssumption
  <2> QED
    BY <1>2, <2>3, <2>4, <2>5
<1> QED
  BY <1>1, <1>2

(* A size is printed to within its unit. *)
LEMMA SizeText ==
  ASSUME NEW size \in Numbers
  PROVE  print_size(size) \in Seq(Plain) /\ SizeReadsBack(print_size(size), size)
<1>1. PICK k \in 0 .. 4 : k = Scale(size)
  BY NumberBelow, ScaleIs
<1>2. PICK u \in Nat \ {0} : u = Power(KILO, k)
  BY UnitPowers
<1>3. PICK n \in Nat, left \in 0 .. u - 1 : n = size \div u /\ size = u * n + left
  <2>1. size \in Nat /\ u \in Nat /\ u > 0
    BY NumberBelow
  <2>2. size \div u \in Nat /\ size % u \in 0 .. u - 1 /\ size = u * (size \div u) + (size % u)
    BY <2>1, DivModExists
  <2> QED
    BY <2>2
<1>4. n * u <= size /\ size < (n + 1) * u
  <2>1. n * u = u * n /\ (n + 1) * u = u * n + u
    OBVIOUS
  <2>2. PICK x \in Nat : x = u * n
    OBVIOUS
  <2>3. size = x + left
    BY <1>3, <2>2, Zenon
  <2>4. x <= size /\ size < x + u
    BY <2>3
  <2> QED
    BY <2>1, <2>2, <2>4, Zenon
<1>5. n \in 0 .. Power(2, BITS) - 1
  <2>1. PICK x \in Nat : x = (u - 1) * n
    OBVIOUS
  <2>2. u * n = n + x
    BY <2>1
  <2>3. PICK y : y = u * n
    OBVIOUS
  <2>4. size = y + left /\ y = n + x
    BY <1>3, <2>2, <2>3, Zenon
  <2>5. n <= size
    BY <2>4
  <2> QED
    BY <2>5, NumberBelow, Widths
<1>6. PICK s : s = u64tostr(n, 10)
  OBVIOUS
<1>7. s \in Seq(Figures(10)) /\ ValueOf(s, 10) = n
  <2>1. Numerals(s, n, 10)
    BY <1>5, <1>6, DigitsOf
  <2> QED
    BY <2>1 DEF Numerals
<1>8. PICK x : x = SizeSuffixes[k + 1]
  OBVIOUS
<1>9. s \in Seq(Plain) /\ x \in Seq(Plain)
  <2>1. 10 \in 2 .. 36
    OBVIOUS
  <2> QED
    BY <1>7, <1>8, <2>1, FiguresText, SuffixText
<1>10. PICK t : t = s \o x
  OBVIOUS
<1>11. print_size(size) = t
  BY <1>1, <1>2, <1>3, <1>6, <1>8, <1>10, Zenon DEF print_size
<1>12. t \in Seq(Plain) /\ SubSeq(t, 1, Len(t) - Len(x)) = s
  <2>1. Len(t) - Len(x) = Len(s) /\ Len(s) \in Nat /\ t \in Seq(Plain)
    BY <1>9, <1>10
  <2>2. SubSeq(t, 1, Len(s)) = s
    BY <1>9, <1>10
  <2> QED
    BY <2>1, <2>2
<1>13. \A i \in DOMAIN s : s[i] \in 48 .. 57
  BY <1>7, FiguresOfTen
<1>14. k > 0 => n > 0 /\ size % KILO = 0
  <2> SUFFICES ASSUME k > 0 PROVE n > 0 /\ size % KILO = 0
    OBVIOUS
  <2>1. size % KILO = 0 /\ size \div Power(KILO, k - 1) > KILO
    BY <1>1, NumberBelow, ScaleIs
  <2>2. PICK w \in Nat \ {0} : w = Power(KILO, k - 1) /\ u = w * KILO
    <3>1. k - 1 \in Nat /\ k - 1 + 1 = k
      OBVIOUS
    <3> QED
      BY <1>2, <3>1, UnitPowers
  <2>3. PICK q \in Nat, r \in 0 .. w - 1 : q = size \div w /\ size = w * q + r
    <3>1. size \in Nat /\ w \in Nat /\ w > 0
      BY NumberBelow
    <3>2. size \div w \in Nat /\ size % w \in 0 .. w - 1 /\ size = w * (size \div w) + (size % w)
      BY <3>1, DivModExists
    <3> QED
      BY <3>2
  <2>4. q > KILO
    BY <2>1, <2>2, <2>3, Zenon
  <2>5. size >= u
    <3>1. PICK c \in Nat : q = KILO + c
      BY <2>4, KiloAssumption
    <3>2. w * q = w * KILO + w * c
      BY <3>1, KiloAssumption
    <3>3. PICK a \in Nat, b \in Nat : a = w * KILO /\ b = w * c
      BY KiloAssumption
    <3>4. size = (a + b) + r /\ u = a
      BY <2>2, <2>3, <3>2, <3>3, Zenon
    <3> QED
      BY <3>3, <3>4
  <2>6. n # 0
    <3> SUFFICES ASSUME n = 0 PROVE FALSE
      OBVIOUS
    <3>1. u * 0 = 0
      OBVIOUS
    <3>2. size = 0 + left
      BY <1>3, <3>1, Zenon
    <3> QED
      BY <2>5, <3>2
  <2> QED
    BY <2>1, <2>6
<1>15. t = s \o x /\ SubSeq(t, 1, Len(t) - Len(SizeSuffixes[k + 1])) = s
  BY <1>8, <1>10, <1>12
<1>16. SizeReadsBack(t, size)
  BY <1>2, <1>4, <1>7, <1>8, <1>13, <1>14, <1>15, Zenon DEF SizeReadsBack
<1> QED
  BY <1>11, <1>12, <1>16

-----------------------------------------------------------------------------
(* What every call prints *)

(* What NumbersPrinted asks of the text of a call. *)
TextRight(c, shown) ==
  /\ ReadsBack(c.arg)
  /\ IF c.fn = "print_size" THEN SizeReadsBack(shown, c.arg)
     ELSE /\ ValueOf(shown, IF c.fn \in {"efi_puth", "efi_put0h"} THEN 16 ELSE 10) = c.arg
          /\ Len(shown) < BufSize(c.fn)
          /\ c.fn = "efi_put0h" => Len(shown) >= c.digits
          /\ c.fn = "print_list_entry" => Len(shown) = 3
          /\ c.fn \in {"efi_putd", "efi_puth"} /\ shown[1] = 48 => Len(shown) = 1

(* The calls that print a number. *)
NumberCalls ==
  [fn : {"efi_putd", "efi_puth", "print_size"}, arg : Numbers]
    \cup [fn : {"efi_put0h"}, arg : Numbers, digits : {2, HEX}]
    \cup [fn : {"print_list_entry"}, arg : Numbers \cap 0 .. 999]

LEMMA CallKinds ==
  ASSUME NEW c \in Calls
  PROVE  \/ c.fn = "efi_puts" /\ c.arg \in Strings
         \/ c.fn # "efi_puts" /\ c \in NumberCalls
BY DEF Calls, NumberCalls

(* The digits of a number of the callers. *)
LEMMA DigitsText ==
  ASSUME NEW value \in Numbers, NEW base \in {10, 16}
  PROVE  LET text == u64tostr(value, base)
         IN /\ text \in Seq(Plain) /\ ValueOf(text, base) = value
            /\ text[1] = 48 => Len(text) = 1
            /\ Len(text) < IF base = 10 THEN DEC + 2 ELSE HEX + 1
<1>1. PICK s : s = u64tostr(value, base)
  OBVIOUS
<1>2. base \in {2, 8, 10, 16, 36} /\ base \in 2 .. 36
  OBVIOUS
<1>3. Numerals(s, value, base)
  BY <1>1, <1>2, NumberBelow, DigitsOf
<1>4. /\ s \in Seq(Figures(base)) /\ ValueOf(s, base) = value
      /\ s[1] = 48 => Len(s) = 1
  BY <1>3, Zenon DEF Numerals
<1>5. s \in Seq(Plain) /\ Len(s) \in Nat
  <2>1. s \in Seq(Figures(base)) /\ base \in 2 .. 36
    BY <1>2, <1>4
  <2>2. s \in Seq(Plain)
    BY <2>1, FiguresText, Zenon
  <2> QED
    BY <2>2
<1>6. base = 10 => Len(s) <= DEC + 1
  BY <1>1, NumberBelow, DigitsOf DEF Short
<1>7. base = 16 => Len(s) <= HEX
  BY <1>1, NumberBelow, DigitsOf
<1>8. HEX \in Nat
  BY Widths DEF HEX
<1>9. Len(s) < IF base = 10 THEN DEC + 2 ELSE HEX + 1
  <2>1. CASE base = 10
    <3>1. Len(s) < DEC + 2
      BY <1>5, <1>6, <2>1, Widths
    <3> QED
      BY <2>1, <3>1
  <2>2. CASE base = 16
    <3>1. Len(s) < HEX + 1
      BY <1>5, <1>7, <1>8, <2>2
    <3> QED
      BY <2>2, <3>1
  <2> QED
    BY <2>1, <2>2
<1> QED
  BY <1>1, <1>4, <1>5, <1>9

(* The text of a number can be printed, and it is right. *)
LEMMA NumberText ==
  ASSUME NEW c \in NumberCalls
  PROVE  Text(c) \in Seq(Plain) /\ TextRight(c, Text(c))
<1>1. ReadsBack(c.arg)
  <2>1. c.arg \in Numbers
    BY DEF NumberCalls
  <2> QED
    BY <2>1, NumberBelow, ConversionsReadBack
<1>h. HEX \in Nat
  BY Widths DEF HEX
<1>2. CASE c.fn = "efi_putd"
  <2>1. c.arg \in Numbers
    BY <1>2 DEF NumberCalls
  <2>2. Text(c) = u64tostr(c.arg, 10)
    BY <1>2 DEF Text
  <2>3. BufSize(c.fn) = DEC + 2
    BY <1>2 DEF BufSize
  <2>4. PICK s : s = Text(c)
    OBVIOUS
  <2>5. /\ s \in Seq(Plain) /\ ValueOf(s, 10) = c.arg
        /\ s[1] = 48 => Len(s) = 1
        /\ Len(s) < DEC + 2
    BY <2>1, <2>2, <2>4, 10 \in {10, 16}, DigitsText
  <2> QED
    BY <1>1, <1>2, <2>3, <2>4, <2>5 DEF TextRight
<1>3. CASE c.fn = "efi_puth"
  <2>1. c.arg \in Numbers
    BY <1>3 DEF NumberCalls
  <2>2. Text(c) = u64tostr(c.arg, 16)
    BY <1>3 DEF Text
  <2>3. BufSize(c.fn) = HEX + 1
    BY <1>3 DEF BufSize
  <2>4. PICK s : s = Text(c)
    OBVIOUS
  <2>5. /\ s \in Seq(Plain) /\ ValueOf(s, 16) = c.arg
        /\ s[1] = 48 => Len(s) = 1
        /\ Len(s) < HEX + 1
    BY <2>1, <2>2, <2>4, 16 \in {10, 16}, DigitsText
  <2> QED
    BY <1>1, <1>3, <2>3, <2>4, <2>5 DEF TextRight
<1>4. CASE c.fn = "efi_put0h"
  <2>1. c.arg \in Numbers /\ c.digits \in {2, HEX}
    BY <1>4 DEF NumberCalls
  <2>2. Text(c) = efi_put0h(c.arg, c.digits)
    BY <1>4 DEF Text
  <2>3. BufSize(c.fn) = HEX + 1
    BY <1>4 DEF BufSize
  <2>4. PICK s : s = Text(c)
    OBVIOUS
  <2>5. /\ s \in Seq(Figures(16)) /\ ValueOf(s, 16) = c.arg
        /\ Len(s) <= HEX /\ Len(s) >= c.digits
    BY <2>1, <2>2, <2>4, HexText
  <2>6. s \in Seq(Plain) /\ Len(s) < HEX + 1
    BY <1>h, <2>5, 16 \in 2 .. 36, FiguresText
  <2> QED
    BY <1>1, <1>4, <2>3, <2>4, <2>5, <2>6 DEF TextRight
<1>5. CASE c.fn = "print_list_entry"
  <2>1. c.arg \in Numbers /\ c.arg <= 999
    BY <1>5 DEF NumberCalls
  <2>2. Text(c) = Padded(u64tostr(c.arg, 10), 4)
    BY <1>5 DEF Text
  <2>3. BufSize(c.fn) = 4
    BY <1>5 DEF BufSize
  <2>4. PICK s : s = Text(c)
    OBVIOUS
  <2>5. s \in Seq(Figures(10)) /\ ValueOf(s, 10) = c.arg /\ Len(s) = 3
    BY <2>1, <2>2, <2>4, EntryText
  <2>6. s \in Seq(Plain) /\ Len(s) < 4
    BY <2>5, 10 \in 2 .. 36, FiguresText
  <2> QED
    BY <1>1, <1>5, <2>3, <2>4, <2>5, <2>6 DEF TextRight
<1>6. CASE c.fn = "print_size"
  <2>1. c.arg \in Numbers
    BY <1>6 DEF NumberCalls
  <2>2. Text(c) = print_size(c.arg)
    BY <1>6 DEF Text
  <2> QED
    BY <1>1, <1>6, <2>1, <2>2, SizeText DEF TextRight
<1>7. c.fn \in {"efi_putd", "efi_puth", "efi_put0h", "print_list_entry", "print_size"}
  BY DEF NumberCalls
<1> QED
  BY <1>2, <1>3, <1>4, <1>5, <1>6, <1>7

(* Whatever is printed is a string: octets other than NUL. *)
LEMMA TextsAreOctets == OctetTexts
<1> SUFFICES ASSUME NEW c \in Calls PROVE Text(c) \in Seq(Byte)
  BY DEF OctetTexts
<1>1. CASE c.fn = "efi_puts" /\ c.arg \in Strings
  <2>1. Text(c) = c.arg
    BY <1>1 DEF Text
  <2> QED
    BY <1>1, <2>1, StringsAssumption
<1>2. CASE c \in NumberCalls
  <2>1. Plain \subseteq Byte
    BY DEF Plain
  <2> QED
    BY <1>2, <2>1, NumberText, SeqMonotonic
<1> QED
  BY <1>1, <1>2, CallKinds

-----------------------------------------------------------------------------
(* The octets of the string *)

(* Only the octet behind the string is NUL, and it continues no sequence.  *)
LEMMA OctetType ==
  ASSUME str \in Seq(Byte), NEW i \in Nat \ {0}
  PROVE  /\ Len(str) \in Nat
         /\ i <= Len(str) => Octet(i) \in Byte
         /\ i > Len(str) => Octet(i) = 0
         /\ Octet(i) \in Nat
         /\ Octet(i) = 0 <=> i > Len(str)
<1>1. Len(str) \in Nat
  BY LenProperties
<1>2. CASE i <= Len(str)
  <2>1. PICK c \in Byte : str[i] = c
    BY <1>1, <1>2, ElementOfSeq
  <2>2. c \in Nat /\ c # 0
    BY SMT DEF Byte
  <2>3. Octet(i) = c
    BY <1>2, <2>1, Zenon DEF Octet
  <2> QED
    BY <1>1, <1>2, <2>2, <2>3
<1>3. CASE i > Len(str)
  BY <1>1, <1>3 DEF Octet
<1> QED
  BY <1>1, <1>2, <1>3

LEMMA NulTrailsNot == ~Trailing(0)
BY DEF Trailing

(* TrailingFrom counts the trailing octets up to the first other one. *)
LEMMA TrailingCount ==
  ASSUME NEW i \in Nat, NEW k \in 1 .. 3
  PROVE  /\ TrailingFrom(i, k) \in 0 .. k
         /\ \A j \in 1 .. TrailingFrom(i, k) : Trailing(Octet(i + j))
         /\ TrailingFrom(i, k) = k \/ ~Trailing(Octet(i + TrailingFrom(i, k) + 1))
<1> DEFINE T(j) == Trailing(Octet(i + j))
<1> DEFINE J == {j \in 1 .. k : \A t \in 1 .. j : T(t)}
<1>1. \E g \in 0 .. k : (\A j \in 1 .. g : T(j)) /\ (g = k \/ ~T(g + 1))
  <2> HIDE DEF T
  <2>1. CASE ~T(1)
    <3>1. (\A j \in 1 .. 0 : T(j)) /\ ~T(0 + 1) /\ 0 \in 0 .. k
      BY <2>1
    <3> QED
      BY <3>1
  <2>2. CASE T(1) /\ (k = 1 \/ ~T(2))
    <3>1. (\A j \in 1 .. 1 : T(j)) /\ (1 = k \/ ~T(1 + 1)) /\ 1 \in 0 .. k
      BY <2>2
    <3> QED
      BY <3>1
  <2>3. CASE T(1) /\ k # 1 /\ T(2) /\ (k = 2 \/ ~T(3))
    <3>1. (\A j \in 1 .. 2 : T(j)) /\ (2 = k \/ ~T(2 + 1)) /\ 2 \in 0 .. k
      BY <2>3
    <3> QED
      BY <3>1
  <2>4. CASE T(1) /\ k = 3 /\ T(2) /\ T(3)
    <3>1. (\A j \in 1 .. 3 : T(j)) /\ 3 = k /\ 3 \in 0 .. k
      BY <2>4
    <3> QED
      BY <3>1
  <2> QED
    BY <2>1, <2>2, <2>3, <2>4
<1>2. PICK g \in 0 .. k : (\A j \in 1 .. g : T(j)) /\ (g = k \/ ~T(g + 1))
  BY <1>1
<1>3. J = 1 .. g
  <2> HIDE DEF T
  <2> QED
    BY <1>2
<1>4. Cardinality(J) = g
  <2>1. 1 \in Int /\ g \in Int /\ (IF 1 > g THEN 0 ELSE g - 1 + 1) = g
    OBVIOUS
  <2>2. Cardinality(1 .. g) = IF 1 > g THEN 0 ELSE g - 1 + 1
    BY <2>1, FS_Interval, Zenon
  <2> QED
    BY <1>3, <2>1, <2>2, Zenon
<1>5. TrailingFrom(i, k) = g
  BY <1>4, Zenon DEF TrailingFrom
<1>6. g = k \/ ~Trailing(Octet(i + g + 1))
  <2>1. i + g + 1 = i + (g + 1)
    OBVIOUS
  <2> QED
    BY <1>2
<1> QED
  BY <1>2, <1>5, <1>6

-----------------------------------------------------------------------------
(* utf8_to_utf32 *)

(* A claim to lead a sequence is a number; a newline makes none. *)
LEMMA LeadType ==
  ASSUME NEW c
  PROVE  LeadingOnes(c) \in Nat
BY DEF LeadingOnes, Bool

LEMMA NewlineLeadsNot == LeadingOnes(10) = 0
BY DEF LeadingOnes, Bool

(* The octets in front of the first that is no trailing octet, and that    *)
(* one, are read: none behind the NUL. *)
LEMMA ReadBound ==
  ASSUME str \in Seq(Byte), NEW i \in 1 .. Len(str)
  PROVE  LastRead(i) \in Nat /\ LastRead(i) <= Len(str) + 1
<1>1. Len(str) \in Nat /\ i \in Nat \ {0}
  BY LenProperties
<1>2. PICK clen \in Nat : LeadingOnes(Octet(i)) = clen
  BY LeadType
<1>3. CASE clen \in 2 .. 4
  <2>1. PICK k \in 1 .. 3 : k = clen - 1
    BY <1>3
  <2>2. PICK g \in 0 .. k : /\ TrailingFrom(i, k) = g
                            /\ \A j \in 1 .. g : Trailing(Octet(i + j))
    BY <1>1, TrailingCount
  <2>3. i + g <= Len(str)
    <3>1. CASE g = 0
      BY <1>1, <3>1
    <3>2. CASE g > 0
      <4>1. Trailing(Octet(i + g)) /\ i + g \in Nat \ {0}
        BY <1>1, <2>2, <3>2
      <4>2. Octet(i + g) # 0
        BY <4>1, NulTrailsNot
      <4> QED
        BY <1>1, <4>1, <4>2, OctetType
    <3> QED
      BY <3>1, <3>2
  <2>4. LastRead(i) = i + (IF g = k THEN g ELSE g + 1)
    BY <1>2, <1>3, <2>1, <2>2 DEF LastRead
  <2> QED
    BY <1>1, <2>3, <2>4
<1>4. CASE clen \notin 2 .. 4
  BY <1>1, <1>2, <1>4 DEF LastRead
<1> QED
  BY <1>3, <1>4

(* A sequence is decoded when as many trailing octets as it claims follow  *)
(* and the number they make is valid. *)
LEMMA Sequence ==
  ASSUME NEW i \in Nat, NEW k \in 1 .. 3, LeadingOnes(Octet(i)) = k + 1
  PROVE  Decode(i) =
           IF (\A j \in 1 .. k : Trailing(Octet(i + j))) /\ Valid(Bits(i, k), k)
           THEN [c32 |-> Bits(i, k), len |-> k + 1]
           ELSE [c32 |-> Octet(i), len |-> 1]
<1>1. PICK g \in 0 .. k : /\ TrailingFrom(i, k) = g
                          /\ \A j \in 1 .. g : Trailing(Octet(i + j))
                          /\ g = k \/ ~Trailing(Octet(i + g + 1))
  BY TrailingCount
<1>2. g = k <=> \A j \in 1 .. k : Trailing(Octet(i + j))
  <2>1. CASE g = k
    BY <1>1, <2>1
  <2>2. CASE g # k
    <3>1. g + 1 \in 1 .. k /\ i + g + 1 = i + (g + 1)
      BY <2>2
    <3>2. ~Trailing(Octet(i + (g + 1)))
      BY <1>1, <2>2, <3>1
    <3> QED
      BY <2>2, <3>1, <3>2
  <2> QED
    BY <2>1, <2>2
<1>3. k + 1 \in 2 .. 4 /\ (k + 1) - 1 = k
  OBVIOUS
<1>4. Decode(i) = IF g = k /\ Valid(Bits(i, k), k)
                  THEN [c32 |-> Bits(i, k), len |-> k + 1]
                  ELSE [c32 |-> Octet(i), len |-> 1]
  <2>1. TrailingFrom(i, k) = g
    BY <1>1
  <2> QED
    BY <1>3, <2>1, Zenon DEF Decode
<1> QED
  BY <1>2, <1>4, Zenon

(* Any other octet stands for itself. *)
LEMMA NoSequence ==
  ASSUME NEW i, LeadingOnes(Octet(i)) \notin 2 .. 4
  PROVE  Decode(i) = [c32 |-> Octet(i), len |-> 1]
BY DEF Decode

(* What k + 1 octets make is a number. *)
LEMMA BitsType ==
  ASSUME NEW i \in Nat, NEW k \in 1 .. 3,
         Octet(i) \in Nat, \A j \in 1 .. k : Octet(i + j) \in Nat
  PROVE  Bits(i, k) \in Nat
<1>1. PICK c \in Nat : c = Octet(i)
  OBVIOUS
<1>2. PICK a \in Nat : a = Octet(i + 1)
  OBVIOUS
<1>3. CASE k = 1
  BY <1>1, <1>2, <1>3, SMT DEF Bits
<1>4. CASE k = 2
  <2>1. PICK b \in Nat : b = Octet(i + 2)
    BY <1>4
  <2> QED
    BY <1>1, <1>2, <1>4, <2>1, SMT DEF Bits
<1>5. CASE k = 3
  <2>1. PICK b \in Nat : b = Octet(i + 2)
    BY <1>5
  <2>2. PICK d \in Nat : d = Octet(i + 3)
    BY <1>5
  <2> QED
    BY <1>1, <1>2, <1>5, <2>1, <2>2, SMT DEF Bits
<1> QED
  BY <1>3, <1>4, <1>5

(* What a string can stand for: no NUL, no surrogate. *)
Character == {c \in Nat : 0 < c /\ c <= 1114111 /\ ~High(c) /\ ~Low(c)}

(* A valid number of a sequence is a character above those of one octet.   *)
LEMMA ValidRange ==
  ASSUME NEW c32 \in Nat, NEW k \in 1 .. 3, Valid(c32, k)
  PROVE  c32 \in Character /\ c32 # 10
<1>1. 128 <= c32 /\ c32 <= 1114111
  BY SMT DEF Valid, Bool
<1>2. ~High(c32) /\ ~Low(c32)
  BY SMT DEF Valid, High, Low
<1> QED
  BY <1>1, <1>2, SMT DEF Character

(* So is an octet, but NUL. *)
LEMMA ByteCharacter == Byte \subseteq Character
BY SMT DEF Byte, High, Low, Character

(* What is decoded is a character, within the string; a newline only from  *)
(* a newline, so that the carriage return is never missing. *)
LEMMA DecodeType ==
  ASSUME str \in Seq(Byte), NEW i \in 1 .. Len(str)
  PROVE  \E c32 \in Character, len \in 1 .. 4 :
           /\ Decode(i) = [c32 |-> c32, len |-> len]
           /\ i + len <= Len(str) + 1
           /\ c32 = 10 <=> Octet(i) = 10
<1>1. Len(str) \in Nat /\ i \in Nat \ {0} /\ i <= Len(str)
  BY LenProperties
<1>2. PICK c \in Character : Octet(i) = c
  BY <1>1, OctetType, ByteCharacter
<1>3. CASE Decode(i) = [c32 |-> Octet(i), len |-> 1]
  <2>1. i + 1 <= Len(str) + 1 /\ 1 \in 1 .. 4
    BY <1>1
  <2> QED
    BY <1>2, <1>3, <2>1
<1>4. CASE Decode(i) # [c32 |-> Octet(i), len |-> 1]
  <2>1. PICK k \in 1 .. 3 : LeadingOnes(Octet(i)) = k + 1
    <3>1. PICK clen \in 2 .. 4 : LeadingOnes(Octet(i)) = clen
      BY <1>4, NoSequence
    <3>2. clen - 1 \in 1 .. 3 /\ clen = (clen - 1) + 1
      BY <3>1
    <3> QED
      BY <3>1, <3>2
  <2>2. /\ \A j \in 1 .. k : Trailing(Octet(i + j))
        /\ Valid(Bits(i, k), k)
        /\ Decode(i) = [c32 |-> Bits(i, k), len |-> k + 1]
    <3>1. i \in Nat
      BY <1>1
    <3> QED
      BY <1>4, <2>1, <3>1, Sequence, Zenon
  <2>3. i + k <= Len(str)
    <3>1. i + k \in Nat \ {0} /\ k \in 1 .. k
      BY <1>1
    <3>2. Octet(i + k) # 0
      BY <2>2, <3>1, NulTrailsNot
    <3> QED
      BY <1>1, <3>1, <3>2, OctetType
  <2>4. PICK c32 \in Character : c32 = Bits(i, k) /\ c32 # 10
    <3>1. ASSUME NEW j \in 1 .. k PROVE Octet(i + j) \in Nat
      <4>1. i + j \in Nat \ {0}
        BY <1>1
      <4> QED
        BY <4>1, OctetType
    <3>2. Octet(i) \in Nat /\ i \in Nat
      BY <1>1, OctetType
    <3>3. PICK b \in Nat : b = Bits(i, k)
      BY <3>1, <3>2, BitsType
    <3>4. Valid(b, k)
      BY <2>2, <3>3, Zenon
    <3> QED
      BY <3>3, <3>4, ValidRange, Zenon
  <2>5. Octet(i) # 10
    <3>1. k + 1 # 0
      OBVIOUS
    <3> QED
      BY <2>1, <3>1, NewlineLeadsNot, Zenon
  <2>6. PICK len \in 1 .. 4 : len = k + 1
    OBVIOUS
  <2>7. i + len <= Len(str) + 1
    BY <1>1, <2>3, <2>6
  <2> QED
    BY <2>2, <2>4, <2>5, <2>6, <2>7, Zenon
<1> QED
  BY <1>3, <1>4

-----------------------------------------------------------------------------
(* The units of a character *)

(* A character is one unit, or a high surrogate and a low one. *)
LEMMA UnitsType ==
  ASSUME NEW c32 \in Character
  PROVE  \/ c32 \in Unit /\ ~High(c32) /\ ~Low(c32) /\ Units(c32) = <<c32>>
         \/ \E h, l \in Unit : High(h) /\ Low(l) /\ Units(c32) = <<h, l>>
<1>1. CASE c32 < 65536
  <2>1. Units(c32) = <<c32>>
    BY <1>1, SMT DEF Units
  <2>2. c32 \in Nat /\ 1 <= c32 /\ c32 <= 65535
    BY <1>1, SMT DEF Character
  <2>3. c32 \in Unit
    <3>1. U16_MAX \in Nat /\ 65535 <= U16_MAX
      BY SMT DEF U16_MAX
    <3> QED
      BY <2>2, <3>1, SMT DEF Unit
  <2>4. ~High(c32) /\ ~Low(c32)
    BY SMT DEF Character
  <2> QED
    BY <2>1, <2>3, <2>4, Zenon
<1>2. CASE ~(c32 < 65536)
  <2> DEFINE h == (55296 - 64) + (c32 \div 1024)
             l == 56320 + (c32 % 1024)
  <2>1. Units(c32) = <<h, l>>
    BY <1>2, SMT DEF Units
  <2>2. h \in Nat /\ 55296 <= h /\ h <= 56319 /\ l \in Nat /\ 56320 <= l /\ l <= 57343
    BY <1>2, SMT DEF Character
  <2> HIDE DEF h, l
  <2>3. h \in Unit /\ l \in Unit
    <3>1. U16_MAX \in Nat /\ 57343 <= U16_MAX
      BY SMT DEF U16_MAX
    <3> QED
      BY <2>2, <3>1, SMT DEF Unit
  <2>4. High(h) /\ Low(l)
    BY <2>2, SMT DEF High, Low
  <2> QED
    BY <2>1, <2>3, <2>4, Zenon
<1> QED
  BY <1>1, <1>2

(* What the character at i adds to the buffer. *)
Added(i) == (IF Octet(i) = 10 THEN <<13>> ELSE <<>>) \o Units(Decode(i).c32)

(* The surrogates, the newline and the carriage return are different units.*)
LEMMA Distinct ==
  /\ \A u \in Unit : ~(High(u) /\ Low(u)) /\ (High(u) \/ Low(u) => u # 10 /\ u # 13)
  /\ 10 \in Unit /\ 13 \in Unit /\ Unit \subseteq Nat
<1>1. U16_MAX \in Nat /\ 13 <= U16_MAX
  BY SMT DEF U16_MAX
<1> QED
  BY <1>1, SMT DEF Unit, High, Low

LEMMA DecodeUnits ==
  ASSUME str \in Seq(Byte), NEW i \in 1 .. Len(str)
  PROVE  Units(Decode(i).c32) \in Seq(Unit)
<1>1. PICK c32 \in Character, len \in 1 .. 4 : Decode(i) = [c32 |-> c32, len |-> len]
  BY DecodeType
<1>2. Decode(i).c32 = c32
  BY <1>1
<1>3. CASE c32 \in Unit /\ Units(c32) = <<c32>>
  BY <1>2, <1>3
<1>4. ASSUME NEW h \in Unit, NEW l \in Unit, Units(c32) = <<h, l>>
      PROVE  Units(Decode(i).c32) \in Seq(Unit)
  BY <1>2, <1>4
<1> QED
  BY <1>3, <1>4, UnitsType

(* It is one unit or two that stand together. *)
LEMMA AddedWhole ==
  ASSUME str \in Seq(Byte), NEW i \in 1 .. Len(str)
  PROVE  Added(i) \in Seq(Unit) /\ Len(Added(i)) \in 1 .. 2 /\ Whole(Added(i))
<1>1. PICK c32 \in Character, len \in 1 .. 4 :
        Decode(i) = [c32 |-> c32, len |-> len] /\ (c32 = 10 <=> Octet(i) = 10)
  BY DecodeType
<1>2. Decode(i).c32 = c32
  BY <1>1
<1>3. Units(c32) \in Seq(Unit)
  BY <1>2, DecodeUnits
<1>4. CASE Octet(i) = 10
  <2>1. Units(10) = <<10>>
    BY SMT DEF Units
  <2>2. c32 = 10
    BY <1>1, <1>4, Zenon
  <2>3. PICK w : w = <<13>> \o <<10>>
    OBVIOUS
  <2>4. w \in Seq(Unit) /\ Len(w) = 2 /\ DOMAIN w = 1 .. 2 /\ w[1] = 13 /\ w[2] = 10
    <3>1. <<13>> \in Seq(Unit) /\ <<10>> \in Seq(Unit) /\ Len(<<13>>) = 1 /\ Len(<<10>>) = 1
      BY Distinct
    <3> QED
      BY <2>3, <3>1, ConcatProperties, LenProperties
  <2>5. Whole(w)
    BY <2>4, Distinct DEF Whole
  <2>6. Added(i) = w
    BY <1>2, <1>4, <2>1, <2>2, <2>3, Zenon DEF Added
  <2> QED
    BY <2>4, <2>5, <2>6
<1>5. CASE Octet(i) # 10
  <2>1. Added(i) = Units(c32)
    <3>1. Added(i) = <<>> \o Units(c32)
      BY <1>2, <1>5, Zenon DEF Added
    <3> QED
      BY <1>3, <3>1, ConcatEmptySeq
  <2>2. CASE c32 \in Unit /\ ~High(c32) /\ ~Low(c32) /\ Units(c32) = <<c32>>
    <3>1. Whole(<<c32>>)
      BY <1>1, <1>5, <2>2 DEF Whole
    <3> QED
      BY <2>1, <2>2, <3>1
  <2>3. ASSUME NEW h \in Unit, NEW l \in Unit, High(h), Low(l), Units(c32) = <<h, l>>
        PROVE  Added(i) \in Seq(Unit) /\ Len(Added(i)) \in 1 .. 2 /\ Whole(Added(i))
    <3>1. Whole(<<h, l>>)
      BY <2>3, Distinct DEF Whole
    <3> QED
      BY <2>1, <2>3, <3>1
  <2> QED
    BY <2>2, <2>3, UnitsType
<1> QED
  BY <1>4, <1>5

(* What stands together still does when something is put behind it. *)
LEMMA WholeConcat ==
  ASSUME NEW b \in Seq(Unit), NEW c \in Seq(Unit), Whole(b), Whole(c)
  PROVE  Whole(b \o c)
<1> DEFINE w == b \o c
<1>1. /\ Len(b) \in Nat /\ Len(c) \in Nat /\ Len(w) = Len(b) + Len(c)
      /\ DOMAIN w = 1 .. Len(b) + Len(c)
      /\ DOMAIN b = 1 .. Len(b) /\ DOMAIN c = 1 .. Len(c)
      /\ \A k \in 1 .. Len(b) + Len(c) : w[k] = IF k <= Len(b) THEN b[k] ELSE c[k - Len(b)]
  BY ConcatProperties, LenProperties
<1> SUFFICES ASSUME NEW k \in 1 .. Len(b) + Len(c)
             PROVE  /\ w[k] = 10 => k > 1 /\ w[k - 1] = 13
                    /\ High(w[k]) => k < Len(w) /\ Low(w[k + 1])
                    /\ Low(w[k]) => k > 1 /\ High(w[k - 1])
  BY <1>1, Zenon DEF Whole
<1> HIDE DEF w
<1>2. CASE k <= Len(b)
  <2>1. k \in DOMAIN b /\ w[k] = b[k]
    BY <1>1, <1>2
  <2>2. k > 1 => w[k - 1] = b[k - 1]
    BY <1>1, <1>2
  <2>3. k < Len(b) => k < Len(w) /\ w[k + 1] = b[k + 1]
    BY <1>1, <1>2
  <2>4. /\ b[k] = 10 => k > 1 /\ b[k - 1] = 13
        /\ High(b[k]) => k < Len(b) /\ Low(b[k + 1])
        /\ Low(b[k]) => k > 1 /\ High(b[k - 1])
    BY <2>1, Zenon DEF Whole
  <2> QED
    BY <2>1, <2>2, <2>3, <2>4, Zenon
<1>3. CASE k > Len(b)
  <2>1. PICK j \in 1 .. Len(c) : j = k - Len(b) /\ w[k] = c[j]
    BY <1>1, <1>3
  <2>2. j > 1 => k > 1 /\ w[k - 1] = c[j - 1]
    BY <1>1, <1>3, <2>1
  <2>3. j < Len(c) => k < Len(w) /\ w[k + 1] = c[j + 1]
    BY <1>1, <1>3, <2>1
  <2>4. /\ c[j] = 10 => j > 1 /\ c[j - 1] = 13
        /\ High(c[j]) => j < Len(c) /\ Low(c[j + 1])
        /\ Low(c[j]) => j > 1 /\ High(c[j - 1])
    BY <1>1, Zenon DEF Whole
  <2> QED
    BY <2>1, <2>2, <2>3, <2>4, Zenon
<1> QED
  BY <1>1, <1>2, <1>3

-----------------------------------------------------------------------------
(* Turns of the loop *)

(* PutChar adds a character behind the buffer and goes on behind it in the *)
(* string.                                                                 *)
LEMMA Turn ==
  ASSUME TypeOK, PutChar
  PROVE  /\ s8 \in 1 .. Len(str)
         /\ s8' = s8 + Decode(s8).len
         /\ LET now == buf \o Added(s8)
            IN IF Octet(s8') = 0 \/ Full(Len(now))
               THEN /\ out' = Append(out, now) /\ buf' = <<>>
                    /\ peak' = IF Len(now) > peak THEN Len(now) ELSE peak
               ELSE buf' = now /\ UNCHANGED <<out, peak>>
         /\ far' = IF LastRead(s8) > far THEN LastRead(s8) ELSE far
         /\ call' = call /\ str' = str
<1>1. str \in Seq(Byte) /\ s8 \in 1 .. Len(str) + 1 /\ buf \in Seq(Unit)
  BY DEF TypeOK
<1>2. s8 \in 1 .. Len(str)
  <2>1. Len(str) \in Nat /\ s8 \in Nat \ {0} /\ Octet(s8) # 0
    BY <1>1, LenProperties DEF PutChar
  <2>2. ~(s8 > Len(str))
    BY <1>1, <2>1, OctetType
  <2> QED
    BY <1>1, <2>1, <2>2
<1> DEFINE cr == IF Octet(s8) = 10 THEN <<13>> ELSE <<>>
           units == Units(Decode(s8).c32)
<1>3. (buf \o cr) \o units = buf \o Added(s8)
  <2>1. units \in Seq(Unit)
    BY <1>1, <1>2, DecodeUnits
  <2>2. cr \in Seq(Unit)
    <3>1. <<13>> \in Seq(Unit) /\ <<>> \in Seq(Unit)
      BY Distinct
    <3> QED
      BY <3>1, Zenon
  <2>3. Added(s8) = cr \o units
    BY Zenon DEF Added
  <2> HIDE DEF cr, units
  <2>4. (buf \o cr) \o units = buf \o (cr \o units)
    <3>1. \A x, y, z \in Seq(Unit) : (x \o y) \o z = x \o (y \o z)
      BY ConcatAssociative
    <3>2. buf \in Seq(Unit)
      BY <1>1
    <3> QED
      BY <2>1, <2>2, <3>1, <3>2, Zenon
  <2> QED
    BY <2>3, <2>4, Zenon
<1>4. /\ s8' = s8 + Decode(s8).len
      /\ IF Octet(s8') = 0 \/ Full(Len((buf \o cr) \o units))
         THEN /\ out' = Append(out, (buf \o cr) \o units) /\ buf' = <<>>
              /\ peak' = IF Len((buf \o cr) \o units) > peak
                         THEN Len((buf \o cr) \o units) ELSE peak
         ELSE buf' = (buf \o cr) \o units /\ UNCHANGED <<out, peak>>
      /\ far' = IF LastRead(s8) > far THEN LastRead(s8) ELSE far
      /\ call' = call /\ str' = str
  BY Zenon DEF PutChar
<1> HIDE DEF cr, units
<1> QED
  BY <1>2, <1>3, <1>4, Zenon

(* A buffer with another character in it still holds whole characters, and *)
(* has room for its NUL. *)
LEMMA Extended ==
  ASSUME IInv, s8 \in 1 .. Len(str)
  PROVE  LET now == buf \o Added(s8)
         IN now \in Seq(Unit) /\ now # <<>> /\ Whole(now) /\ Len(now) \in 1 .. LIM - 1
<1>1. buf \in Seq(Unit) /\ str \in Seq(Byte) /\ Whole(buf) /\ Len(buf) <= LIM - 3
  BY DEF IInv, TypeOK, BufferFits
<1>2. Added(s8) \in Seq(Unit) /\ Len(Added(s8)) \in 1 .. 2 /\ Whole(Added(s8))
  BY <1>1, AddedWhole
<1> DEFINE new == Added(s8)
<1> HIDE DEF new
<1>3. buf \o new \in Seq(Unit) /\ Len(buf \o new) = Len(buf) + Len(new) /\ Len(buf) \in Nat
  BY <1>1, <1>2, ConcatProperties, LenProperties DEF new
<1>4. Whole(buf \o new)
  BY <1>1, <1>2, WholeConcat, Zenon DEF new
<1>5. Len(buf \o new) \in 1 .. LIM - 1
  <2>1. PICK n \in 1 .. 2 : Len(new) = n
    BY <1>2, Zenon DEF new
  <2>2. PICK m \in Nat : Len(buf) = m
    BY <1>3
  <2>3. m <= LIM - 3 /\ Len(buf \o new) = m + n
    BY <1>1, <1>3, <2>1, <2>2, Zenon
  <2> QED
    BY <2>3, LimAssumption
<1>6. buf \o new # <<>>
  BY <1>3, <1>5
<1> QED
  BY <1>3, <1>4, <1>5, <1>6, Zenon DEF new

(* The first string is as strings are, and nothing has been done with it.  *)
LEMMA InitIInv ==
  ASSUME Init
  PROVE  IInv
<1>1. str \in Seq(Byte) /\ Len(str) \in Nat
  <2>1. str \in Seq(Byte)
    BY TextsAreOctets, Zenon DEF Init, OctetTexts
  <2> QED
    BY <2>1, LenProperties
<1>2. /\ call \in Calls /\ str = Text(call)
      /\ s8 = 1 /\ buf = <<>> /\ out = <<>> /\ peak = 0 /\ far = 1
  BY Zenon DEF Init
<1>3. <<>> \in Seq(Unit) /\ <<>> \in Seq(Seq(Unit) \ {<<>>}) /\ Len(<<>>) = 0
  BY EmptySeq
<1>4. TypeOK
  <2>1. s8 \in 1 .. Len(str) + 1 /\ peak \in Nat /\ far \in Nat
    BY <1>1, <1>2
  <2> QED
    BY <1>1, <1>2, <1>3, <2>1, Zenon DEF TypeOK
<1>5. BufferFits
  BY <1>2, <1>3, LimAssumption DEF BufferFits
<1>6. NeverPastNul
  BY <1>1, <1>2 DEF NeverPastNul
<1>7. BuffersWhole /\ Whole(buf)
  BY <1>2 DEF BuffersWhole, Whole
<1> QED
  BY <1>4, <1>5, <1>6, <1>7 DEF IInv

(* Every turn of the loop keeps the invariant. *)
LEMMA TurnIInv ==
  ASSUME IInv, PutChar
  PROVE  IInv'
<1>1. TypeOK
  BY DEF IInv
<1> DEFINE now == buf \o Added(s8)
<1>2. /\ s8 \in 1 .. Len(str)
      /\ s8' = s8 + Decode(s8).len
      /\ call' = call /\ str' = str
      /\ far' = IF LastRead(s8) > far THEN LastRead(s8) ELSE far
  BY <1>1, Turn
<1>3. \/ /\ Octet(s8') = 0 \/ Full(Len(now))
         /\ out' = Append(out, now) /\ buf' = <<>>
         /\ peak' = IF Len(now) > peak THEN Len(now) ELSE peak
      \/ /\ Octet(s8') # 0 /\ ~Full(Len(now))
         /\ buf' = now /\ out' = out /\ peak' = peak
  BY <1>1, Turn, Zenon
<1>4. now \in Seq(Unit) /\ now # <<>> /\ Whole(now) /\ Len(now) \in 1 .. LIM - 1
  BY <1>2, Extended
<1> HIDE DEF now
<1>5. /\ call \in Calls /\ str = Text(call) /\ str \in Seq(Byte) /\ Len(str) \in Nat
      /\ out \in Seq(Seq(Unit) \ {<<>>}) /\ peak \in Nat /\ far \in Nat
  BY <1>1, LenProperties DEF TypeOK
<1>6. PICK len \in 1 .. 4 : Decode(s8).len = len /\ s8 + len <= Len(str) + 1
  BY <1>2, <1>5, DecodeType
<1>7. s8' \in 1 .. Len(str') + 1
  BY <1>2, <1>5, <1>6
<1>8. LastRead(s8) \in Nat /\ LastRead(s8) <= Len(str) + 1
  BY <1>2, <1>5, ReadBound
<1>9. TypeOK'
  <2>1. buf' \in Seq(Unit)
    BY <1>3, <1>4, EmptySeq, Zenon
  <2>2. out' \in Seq(Seq(Unit) \ {<<>>})
    <3>1. now \in Seq(Unit) \ {<<>>}
      BY <1>4
    <3>2. Append(out, now) \in Seq(Seq(Unit) \ {<<>>})
      BY <1>5, <3>1, AppendProperties
    <3> QED
      BY <1>3, <1>5, <3>2, Zenon
  <2>3. peak' \in Nat
    BY <1>3, <1>4, <1>5
  <2>4. far' \in Nat
    BY <1>2, <1>5, <1>8
  <2> QED
    BY <1>2, <1>5, <1>7, <2>1, <2>2, <2>3, <2>4, Zenon DEF TypeOK
<1>10. BufferFits'
  <2>1. peak <= LIM - 1
    BY DEF IInv, BufferFits
  <2>2. peak' <= LIM - 1
    BY <1>3, <1>4, <1>5, <2>1
  <2>3. Len(buf') <= LIM - 3
    <3>1. CASE buf' = <<>>
      BY <3>1, LimAssumption
    <3>2. CASE ~Full(Len(now)) /\ buf' = now
      BY <1>4, <3>2, LimAssumption DEF Full
    <3> QED
      BY <1>3, <3>1, <3>2
  <2> QED
    BY <2>2, <2>3 DEF BufferFits
<1>11. NeverPastNul'
  <2>1. far <= Len(str) + 1
    BY DEF IInv, NeverPastNul
  <2>2. far' <= Len(str) + 1
    BY <1>2, <1>5, <1>8, <2>1
  <2> QED
    BY <1>2, <2>2 DEF NeverPastNul
<1>12. BuffersWhole' /\ Whole(buf)'
  <2>1. \A n \in DOMAIN out : Whole(out[n])
    BY DEF IInv, BuffersWhole
  <2>2. \A n \in DOMAIN out' : Whole(out'[n])
    <3>1. CASE out' = Append(out, now)
      <4>1. /\ DOMAIN out = 1 .. Len(out) /\ DOMAIN out' = 1 .. Len(out) + 1 /\ Len(out) \in Nat
            /\ \A n \in 1 .. Len(out) : out'[n] = out[n]
            /\ out'[Len(out) + 1] = now
        BY <1>4, <1>5, <3>1, AppendProperties, LenProperties
      <4> QED
        BY <1>4, <2>1, <4>1
    <3> QED
      BY <1>3, <2>1, <3>1
  <2>3. Octet(s8') = 0 => buf' = <<>>
    BY <1>3
  <2>4. Whole(<<>>)
    BY DEF Whole
  <2>5. Whole(buf')
    BY <1>3, <1>4, <2>4, Zenon
  <2> QED
    BY <1>2, <2>2, <2>3, <2>5 DEF BuffersWhole, Octet, Whole
<1> QED
  BY <1>9, <1>10, <1>11, <1>12 DEF IInv

(* Nor does a stutter break it. *)
LEMMA StutterIInv ==
  ASSUME IInv, UNCHANGED vars
  PROVE  IInv'
BY DEF vars, IInv, TypeOK, BufferFits, NeverPastNul, BuffersWhole, Whole, Octet

(* The invariant holds in every state. *)
THEOREM Invariance ==
  Spec => []IInv
<1>1. Init => IInv
  BY InitIInv
<1>2. IInv /\ [PutChar]_vars => IInv'
  BY TurnIInv, StutterIInv
<1> QED
  BY <1>1, <1>2, PTL DEF Spec

(* Buffers hold 16-bit units, no NUL among them, and the position in the   *)
(* string stays at or before its NUL. *)
THEOREM TypeCorrect ==
  Spec => []TypeOK
<1>1. IInv => TypeOK
  BY DEF IInv
<1> QED
  BY <1>1, Invariance, PTL

(* efi_puts writes nothing outside its buffer, whatever its size: not the  *)
(* second half of a pair, not the carriage return, not the NUL. *)
THEOREM BufferNeverOverruns ==
  Spec => []BufferFits
<1>1. IInv => BufferFits
  BY DEF IInv
<1> QED
  BY <1>1, Invariance, PTL

(* utf8_to_utf32 reads nothing behind the NUL, even when a sequence is     *)
(* cut off by the end of the string. *)
THEOREM NothingBehindNulIsRead ==
  Spec => []NeverPastNul
<1>1. IInv => NeverPastNul
  BY DEF IInv
<1> QED
  BY <1>1, Invariance, PTL

(* Buffers hold whole characters, and nothing is left at the end. *)
THEOREM BuffersAreWhole ==
  Spec => []BuffersWhole
<1>1. IInv => BuffersWhole
  BY DEF IInv
<1> QED
  BY <1>1, Invariance, PTL

-----------------------------------------------------------------------------
(* Numbers on the console *)

(* The console has what it was handed, one buffer behind the other. *)
LEMMA PrintedNext ==
  ASSUME NEW bs \in Seq(Seq(Unit)), NEW b \in Seq(Unit)
  PROVE  /\ Printed(<<>>) = <<>>
         /\ Printed(bs) \in Seq(Unit)
         /\ Printed(Append(bs, b)) = Printed(bs) \o b
<1>1. Printed(<<>>) = <<>>
  <2>1. Len(<<>>) = 0
    OBVIOUS
  <2> QED
    BY <2>1, LoopStart, Zenon DEF Printed
<1>2. PICK n \in Nat : n = Len(bs)
  OBVIOUS
<1>3. \A k \in 1 .. n : \A s \in Seq(Unit) : Behind(bs)[k][s] = s \o bs[k]
  BY <1>2 DEF Behind
<1>4. \A k \in 1 .. n : \A s \in Seq(Unit) : Behind(bs)[k][s] \in Seq(Unit)
  <2> SUFFICES ASSUME NEW k \in 1 .. n, NEW s \in Seq(Unit)
               PROVE  Behind(bs)[k][s] \in Seq(Unit)
    OBVIOUS
  <2>1. bs[k] \in Seq(Unit)
    BY <1>2
  <2> QED
    BY <1>3, <2>1, ConcatProperties
<1>5. Printed(bs) \in Seq(Unit)
  <2>1. <<>> \in Seq(Unit)
    BY EmptySeq
  <2>2. Loop(Behind(bs), <<>>, n) \in Seq(Unit)
    BY <1>4, <2>1, LoopType
  <2> QED
    BY <1>2, <2>2 DEF Printed
<1>6. PICK all : all = Append(bs, b)
  OBVIOUS
<1>7. Len(all) = n + 1 /\ all[n + 1] = b /\ \A k \in 1 .. n : all[k] = bs[k]
  BY <1>2, <1>6, AppendProperties
<1>8. ASSUME NEW k \in 1 .. n
      PROVE  Behind(bs)[k] = Behind(all)[k]
  <2>1. k \in 1 .. Len(bs) /\ k \in 1 .. Len(all) /\ all[k] = bs[k]
    BY <1>2, <1>7
  <2>2. Behind(bs)[k] = [s \in Seq(Unit) |-> s \o bs[k]]
    BY <2>1, Zenon DEF Behind
  <2>3. Behind(all)[k] = [s \in Seq(Unit) |-> s \o all[k]]
    BY <2>1, Zenon DEF Behind
  <2> QED
    BY <2>1, <2>2, <2>3, Zenon
<1>9. Loop(Behind(all), <<>>, n + 1) = Behind(all)[n + 1][Loop(Behind(bs), <<>>, n)]
  BY <1>8, LoopNext
<1>10. \A s \in Seq(Unit) : Behind(all)[n + 1][s] = s \o b
  BY <1>7 DEF Behind
<1>11. Printed(all) = Printed(bs) \o b
  BY <1>2, <1>5, <1>7, <1>9, <1>10 DEF Printed
<1> QED
  BY <1>1, <1>5, <1>6, <1>11

(* A character of 7 bits is printed as itself. *)
LEMMA PlainTurn ==
  ASSUME str \in Seq(Byte), NEW i \in 1 .. Len(str), str[i] \in Plain
  PROVE  Decode(i).len = 1 /\ Added(i) = <<str[i]>>
<1>1. PICK c \in Nat : c = str[i] /\ c = Octet(i) /\ c \in Byte /\ c < 128 /\ c # 10
  <2>1. Octet(i) = str[i]
    BY DEF Octet
  <2>2. str[i] \in Byte /\ str[i] < 128 /\ str[i] # 10
    BY DEF Plain
  <2> QED
    BY <2>1, <2>2, NoNul
<1>2. LeadingOnes(c) = 0
  BY <1>1 DEF LeadingOnes, Bool
<1>3. LeadingOnes(c) \notin 2 .. 4
  BY <1>2
<1>4. Decode(i) = [c32 |-> c, len |-> 1]
  BY <1>1, <1>3, Zenon DEF Decode
<1>5. Decode(i).c32 = c /\ Decode(i).len = 1
  BY <1>4
<1>6. Units(c) = <<c>>
  BY <1>1 DEF Units
<1>7. Added(i) = <<>> \o <<c>>
  BY <1>1, <1>5, <1>6, Zenon DEF Added
<1>8. <<>> \o <<c>> = <<c>>
  BY <1>1
<1> QED
  BY <1>1, <1>5, <1>7, <1>8

(* Nothing has been printed at first. *)
LEMMA InitInOrder ==
  ASSUME Init, IInv
  PROVE  InOrder
<1>1. s8 = 1 /\ buf = <<>> /\ out = <<>> /\ str \in Seq(Byte)
  BY DEF Init, IInv, TypeOK
<1>2. Printed(<<>>) = <<>>
  <2>1. <<>> \in Seq(Seq(Unit)) /\ <<>> \in Seq(Unit)
    BY EmptySeq
  <2> QED
    BY <2>1, PrintedNext
<1>3. SubSeq(str, 1, 1 - 1) = <<>> /\ <<>> \o <<>> = <<>>
  BY <1>1
<1> QED
  BY <1>1, <1>2, <1>3, Zenon DEF InOrder

(* A turn prints the next character. *)
LEMMA TurnInOrder ==
  ASSUME IInv, InOrder, PutChar
  PROVE  InOrder'
<1>1. TypeOK
  BY DEF IInv
<1> DEFINE now == buf \o Added(s8)
<1>2. /\ s8 \in 1 .. Len(str)
      /\ s8' = s8 + Decode(s8).len
      /\ call' = call /\ str' = str
  BY <1>1, Turn
<1>3. \/ out' = Append(out, now) /\ buf' = <<>>
      \/ buf' = now /\ out' = out
  BY <1>1, Turn, Zenon
<1>4. now \in Seq(Unit)
  BY <1>2, Extended
<1>5. /\ call \in Calls /\ str = Text(call) /\ str \in Seq(Byte)
      /\ out \in Seq(Seq(Unit)) /\ buf \in Seq(Unit)
  <2>1. Seq(Unit) \ {<<>>} \subseteq Seq(Unit)
    OBVIOUS
  <2>2. out \in Seq(Seq(Unit))
    BY <1>1, <2>1, SeqMonotonic DEF TypeOK
  <2> QED
    BY <1>1, <2>2 DEF TypeOK
<1> SUFFICES ASSUME call.fn # "efi_puts"
             PROVE  Printed(out') \o buf' = SubSeq(str, 1, s8' - 1)
  BY <1>2 DEF InOrder
<1>6. str \in Seq(Plain)
  BY <1>5, CallKinds, NumberText
<1>7. Decode(s8).len = 1 /\ Added(s8) = <<str[s8]>>
  <2>1. str[s8] \in Plain
    BY <1>2, <1>6
  <2> QED
    BY <1>2, <1>5, <2>1, PlainTurn
<1>8. PICK p \in Seq(Unit) : p = Printed(out)
  BY <1>4, <1>5, PrintedNext
<1>9. Printed(out') \o buf' = p \o now
  <2> HIDE DEF now
  <2>1. CASE out' = Append(out, now) /\ buf' = <<>>
    <3>1. Printed(out') = p \o now
      BY <1>4, <1>5, <1>8, <2>1, PrintedNext
    <3>2. (p \o now) \o <<>> = p \o now
      BY <1>4
    <3> QED
      BY <2>1, <3>1, <3>2
  <2>2. CASE buf' = now /\ out' = out
    BY <1>8, <2>2
  <2> QED
    BY <1>3, <2>1, <2>2
<1>10. p \o now = (p \o buf) \o <<str[s8]>>
  <2>1. PICK u : u = str[s8]
    OBVIOUS
  <2>2. u \in Nat /\ buf \in Seq(Nat) /\ p \in Seq(Nat)
    <3>1. Unit \subseteq Nat
      BY DEF Unit, U16_MAX
    <3>2. u \in Byte
      BY <1>2, <1>5, <2>1
    <3> QED
      BY <1>5, <3>1, <3>2, NoNul, SeqMonotonic
  <2>3. p \o (buf \o <<u>>) = (p \o buf) \o <<u>>
    BY <2>2
  <2> QED
    BY <1>7, <2>1, <2>3
<1>11. p \o buf = SubSeq(str, 1, s8 - 1)
  BY <1>8 DEF InOrder
<1>12. SubSeq(str, 1, s8 - 1) \o <<str[s8]>> = SubSeq(str, 1, s8)
  <2>1. PICK n \in Nat : n = s8 - 1 /\ s8 = n + 1 /\ n + 1 \in 1 .. Len(str)
    BY <1>2
  <2>2. SubSeq(str, 1, n) \o <<str[n + 1]>> = SubSeq(str, 1, n + 1)
    BY <1>5, <2>1
  <2> QED
    BY <2>1, <2>2
<1>13. s8' - 1 = s8
  BY <1>2, <1>7
<1> QED
  BY <1>9, <1>10, <1>11, <1>12, <1>13

(* At the end the whole text has been printed, and it is right. *)
LEMMA AllPrinted ==
  ASSUME IInv, InOrder
  PROVE  NumbersPrinted
<1> SUFFICES ASSUME call.fn # "efi_puts", Octet(s8) = 0
             PROVE  TextRight(call, Printed(out))
  BY Zenon DEF NumbersPrinted, TextRight
<1>1. /\ call \in Calls /\ str = Text(call) /\ str \in Seq(Byte)
      /\ s8 \in 1 .. Len(str) + 1 /\ out \in Seq(Seq(Unit)) /\ buf = <<>>
  <2>1. Seq(Unit) \ {<<>>} \subseteq Seq(Unit)
    OBVIOUS
  <2>2. out \in Seq(Seq(Unit))
    BY <2>1, SeqMonotonic DEF IInv, TypeOK
  <2> QED
    BY <2>2 DEF IInv, TypeOK, BuffersWhole
<1>2. s8 = Len(str) + 1
  <2>1. s8 \in Nat \ {0} /\ Len(str) \in Nat
    BY <1>1
  <2>2. s8 > Len(str)
    BY <1>1, <2>1, OctetType
  <2> QED
    BY <1>1, <2>1, <2>2
<1>3. Printed(out) = str
  <2>1. Printed(out) \o buf = SubSeq(str, 1, s8 - 1)
    BY DEF InOrder
  <2>2. s8 - 1 = Len(str) /\ SubSeq(str, 1, Len(str)) = str
    BY <1>1, <1>2
  <2>3. Printed(out) \in Seq(Unit)
    BY <1>1, EmptySeq, PrintedNext
  <2>4. Printed(out) \o <<>> = Printed(out)
    BY <2>3
  <2> QED
    BY <1>1, <2>1, <2>2, <2>4
<1>4. TextRight(call, Text(call))
  BY <1>1, CallKinds, NumberText
<1> QED
  BY <1>1, <1>3, <1>4

(* A stutter changes nothing of it. *)
LEMMA StutterInOrder ==
  ASSUME InOrder, UNCHANGED vars
  PROVE  InOrder'
BY DEF vars, InOrder

(* Whatever number is printed, in whatever buffer, in whatever base: the   *)
(* digits on the console read back as the number, with no zeros in front   *)
(* but those wanted, from a buffer that holds them; a size reads back to   *)
(* within its unit. *)
THEOREM NumbersArePrinted ==
  Spec => []NumbersPrinted
<1>1. Init => IInv /\ InOrder
  BY InitIInv, InitInOrder
<1>2. IInv /\ InOrder /\ [PutChar]_vars => IInv' /\ InOrder'
  BY TurnIInv, StutterIInv, TurnInOrder, StutterInOrder
<1>3. IInv /\ InOrder => NumbersPrinted
  BY AllPrinted
<1> QED
  BY <1>1, <1>2, <1>3, PTL DEF Spec

-----------------------------------------------------------------------------
(* The decoder and the Unicode standard *)

(* The octets that lead sequences of two, three and four. *)
LEMMA LeadValue ==
  ASSUME NEW c \in Nat
  PROVE  /\ LeadingOnes(c) = 2 <=> 192 <= c /\ c <= 223
         /\ LeadingOnes(c) = 3 <=> 224 <= c /\ c <= 239
         /\ LeadingOnes(c) = 4 <=> 240 <= c /\ c <= 247
BY SMT DEF LeadingOnes, Bool

LEMMA TrailingValue ==
  ASSUME NEW c \in Nat
  PROVE  Trailing(c) <=> 128 <= c /\ c <= 191
BY SMT DEF Trailing

(* Two octets: the overlong ones are those led by 192 and 193. *)
LEMMA TwoRight ==
  ASSUME NEW c \in Nat, NEW a \in Nat, 192 <= c, c <= 223, Trailing(a)
  PROVE  /\ (c % 32) * 64 + (a % 64) = (c - 192) * 64 + (a - 128)
         /\ Valid((c % 32) * 64 + (a % 64), 1) <=> 194 <= c
<1>1. 128 <= a /\ a <= 191
  BY TrailingValue
<1>2. PICK v \in Nat : v = (c - 192) * 64 + (a - 128)
  BY <1>1, SMT
<1>3. (c % 32) * 64 + (a % 64) = v
  BY <1>1, <1>2, SMT
<1>4. v <= 1114111 /\ (v \div 2048) % 32 # 27 /\ v < 65536 /\ v < 2048
  BY <1>1, <1>2, SMT
<1>5. v >= 128 <=> 194 <= c
  BY <1>1, <1>2, SMT
<1>6. Valid(v, 1) <=> 194 <= c
  BY <1>4, <1>5, SMT DEF Valid, Bool
<1> QED
  BY <1>2, <1>3, <1>6, SMT

(* Three octets: the second tells what is overlong and what a surrogate.   *)
LEMMA ThreeRight ==
  ASSUME NEW c \in Nat, NEW a \in Nat, NEW b \in Nat,
         224 <= c, c <= 239, Trailing(a), Trailing(b)
  PROVE  /\ ((c % 16) * 64 + (a % 64)) * 64 + (b % 64)
              = (c - 224) * 4096 + (a - 128) * 64 + (b - 128)
         /\ Valid(((c % 16) * 64 + (a % 64)) * 64 + (b % 64), 2)
              <=> (c = 224 => 160 <= a) /\ (c = 237 => a <= 159)
<1>1. 128 <= a /\ a <= 191 /\ 128 <= b /\ b <= 191
  BY TrailingValue
<1>2. PICK v \in Nat : v = (c - 224) * 4096 + (a - 128) * 64 + (b - 128)
  BY <1>1, SMT
<1>3. ((c % 16) * 64 + (a % 64)) * 64 + (b % 64) = v
  BY <1>1, <1>2, SMT
<1>4. v <= 1114111 /\ v < 65536
  BY <1>1, <1>2, SMT
<1>5. v >= 2048 <=> (c = 224 => 160 <= a)
  BY <1>1, <1>2, SMT
<1>6. (v \div 2048) % 32 = 27 <=> 55296 <= v /\ v <= 57343
  BY <1>4, SMT
<1>7. 55296 <= v /\ v <= 57343 <=> c = 237 /\ 160 <= a
  BY <1>1, <1>2, SMT
<1>8. Valid(v, 2) <=> (c = 224 => 160 <= a) /\ (c = 237 => a <= 159)
  BY <1>4, <1>5, <1>6, <1>7, SMT DEF Valid, Bool
<1> QED
  BY <1>2, <1>3, <1>8, SMT

(* Four octets: what the code makes of them, what they stand for, and which*)
(* of them are well formed. *)
Joined(c, a, b, d) == (((c % 8) * 64 + (a % 64)) * 64 + (b % 64)) * 64 + (d % 64)

Value(c, a, b, d) == (c - 240) * 262144 + (a - 128) * 4096 + (b - 128) * 64 + (d - 128)

InPlanes(c, a) == c <= 244 /\ (c = 240 => 144 <= a) /\ (c = 244 => a <= 143)

(* What the code takes for a surrogate depends on the low 16 bits alone.   *)
LEMMA FourRight ==
  ASSUME NEW c \in Nat, NEW a \in Nat, NEW b \in Nat, NEW d \in Nat,
         240 <= c, c <= 247, Trailing(a), Trailing(b), Trailing(d)
  PROVE  /\ Joined(c, a, b, d) = Value(c, a, b, d)
         /\ Valid(Joined(c, a, b, d), 3) => InPlanes(c, a)
         /\ InPlanes(c, a) /\ ~LooksSurrogate(Value(c, a, b, d))
              => Valid(Joined(c, a, b, d), 3)
<1>1. 128 <= a /\ a <= 191 /\ 128 <= b /\ b <= 191 /\ 128 <= d /\ d <= 191
  BY TrailingValue
<1>2. PICK v \in Nat : v = Value(c, a, b, d)
  BY <1>1, SMT DEF Value
<1>3. Joined(c, a, b, d) = v
  BY <1>1, <1>2, SMT DEF Joined, Value
<1>4. v >= 65536 /\ v <= 1114111 <=> InPlanes(c, a)
  BY <1>1, <1>2, SMT DEF InPlanes, Value
<1>5. (v \div 2048) % 32 = 27 => High(v % 65536) \/ Low(v % 65536)
  <2>1. PICK q \in Nat, s \in Nat, r \in Nat : v = 65536 * q + 2048 * s + r /\ s < 32 /\ r < 2048
    <3>1. /\ v = 65536 * (v \div 65536) + (v % 65536)
          /\ v % 65536 = 2048 * ((v % 65536) \div 2048) + ((v % 65536) % 2048)
      BY SMT
    <3>2. v \div 65536 \in Nat /\ (v % 65536) \div 2048 \in Nat /\ (v % 65536) % 2048 \in Nat
          /\ (v % 65536) \div 2048 < 32 /\ (v % 65536) % 2048 < 2048
      BY SMT
    <3> QED
      BY <3>1, <3>2, SMT
  <2>2. v % 65536 = 2048 * s + r /\ (v \div 2048) % 32 = s
    BY <2>1, SMT
  <2> QED
    BY <2>1, <2>2, SMT DEF High, Low
<1>6. Valid(v, 3) <=> v >= 65536 /\ v <= 1114111 /\ (v \div 2048) % 32 # 27
  BY SMT DEF Valid, Bool
<1>7. v > 65535 <=> v >= 65536
  BY SMT
<1> QED
  BY <1>2, <1>3, <1>4, <1>5, <1>6, <1>7, SMT DEF LooksSurrogate

(* What the code decodes is what the standard says, for every octet that   *)
(* may stand there; but for the characters of LooksSurrogate. *)
LEMMA DecodesRight ==
  ASSUME str \in Seq(Byte), NEW i \in 1 .. Len(str), ~LooksSurrogate(CodePoint(i))
  PROVE  Decode(i) = [c32 |-> CodePoint(i), len |-> WellFormedLength(i)]
<1>1. i \in Nat \ {0} /\ i + 1 \in Nat \ {0} /\ i + 2 \in Nat \ {0} /\ i + 3 \in Nat \ {0}
  BY LenProperties
<1>2. PICK c \in Nat, a \in Nat, b \in Nat, d \in Nat :
        Octet(i) = c /\ Octet(i + 1) = a /\ Octet(i + 2) = b /\ Octet(i + 3) = d
  BY <1>1, OctetType
<1>3. /\ TwoOctets(i) <=> 194 <= c /\ c <= 223 /\ Trailing(a)
      /\ ThreeOctets(i) <=>
           /\ 224 <= c /\ c <= 239 /\ Trailing(a) /\ Trailing(b)
           /\ (c = 224 => 160 <= a) /\ (c = 237 => a <= 159)
      /\ FourOctets(i) <=>
           /\ 240 <= c /\ c <= 244 /\ Trailing(a) /\ Trailing(b) /\ Trailing(d)
           /\ (c = 240 => 144 <= a) /\ (c = 244 => a <= 143)
  <2>1. /\ Trailing(a) <=> 128 <= a /\ a <= 191
        /\ Trailing(b) <=> 128 <= b /\ b <= 191
        /\ Trailing(d) <=> 128 <= d /\ d <= 191
    BY TrailingValue
  <2>2. TwoOctets(i) <=> 194 <= c /\ c <= 223 /\ Trailing(a)
    BY <1>2, <2>1, SMT DEF TwoOctets, In
  <2>3. ThreeOctets(i) <=>
          /\ 224 <= c /\ c <= 239 /\ Trailing(a) /\ Trailing(b)
          /\ (c = 224 => 160 <= a) /\ (c = 237 => a <= 159)
    BY <1>2, <2>1, SMT DEF ThreeOctets, In
  <2>4. FourOctets(i) <=>
          /\ 240 <= c /\ c <= 244 /\ Trailing(a) /\ Trailing(b) /\ Trailing(d)
          /\ (c = 240 => 144 <= a) /\ (c = 244 => a <= 143)
    BY <1>2, <2>1, SMT DEF FourOctets, In
  <2> QED
    BY <2>2, <2>3, <2>4, Zenon
<1>4. ASSUME ~TwoOctets(i), ~ThreeOctets(i), ~FourOctets(i)
      PROVE  CodePoint(i) = Octet(i) /\ WellFormedLength(i) = 1
  BY <1>4 DEF CodePoint, WellFormedLength
<1>5. CASE LeadingOnes(c) = 2
  <2>1. 192 <= c /\ c <= 223 /\ ~ThreeOctets(i) /\ ~FourOctets(i)
    BY <1>3, <1>5, LeadValue, SMT
  <2>2. Bits(i, 1) = (c % 32) * 64 + (a % 64)
    BY <1>2 DEF Bits
  <2>3. (\A j \in 1 .. 1 : Trailing(Octet(i + j))) <=> Trailing(a)
    BY <1>2
  <2>4. LeadingOnes(Octet(i)) = 1 + 1 /\ 1 \in 1 .. 3 /\ 1 + 1 = 2
    BY <1>2, <1>5
  <2>5. Decode(i) = IF Trailing(a) /\ Valid(Bits(i, 1), 1)
                    THEN [c32 |-> Bits(i, 1), len |-> 2] ELSE [c32 |-> Octet(i), len |-> 1]
    BY <1>1, <2>3, <2>4, Sequence
  <2> DEFINE v == (c - 192) * 64 + (a - 128)
             good == 194 <= c
  <2>6. ASSUME Trailing(a) PROVE Bits(i, 1) = v /\ (Valid(Bits(i, 1), 1) <=> good)
    BY <2>1, <2>2, <2>6, TwoRight
  <2>7. TwoOctets(i) <=> Trailing(a) /\ good
    BY <1>3, <2>1, SMT
  <2>8. TwoOctets(i) => CodePoint(i) = v /\ WellFormedLength(i) = 2
    BY <1>2, SMT DEF CodePoint, WellFormedLength
  <2> HIDE DEF v, good
  <2>9. CASE TwoOctets(i)
    BY <2>5, <2>6, <2>7, <2>8, <2>9, Zenon
  <2>10. CASE ~TwoOctets(i)
    BY <1>4, <2>1, <2>5, <2>6, <2>7, <2>10, Zenon
  <2> QED
    BY <2>9, <2>10
<1>6. CASE LeadingOnes(c) = 3
  <2>1. 224 <= c /\ c <= 239 /\ ~TwoOctets(i) /\ ~FourOctets(i)
    BY <1>3, <1>6, LeadValue, SMT
  <2>2. Bits(i, 2) = ((c % 16) * 64 + (a % 64)) * 64 + (b % 64)
    <3>1. 2 # 1
      OBVIOUS
    <3> QED
      BY <1>2, <3>1, Zenon DEF Bits
  <2>3. (\A j \in 1 .. 2 : Trailing(Octet(i + j))) <=> Trailing(a) /\ Trailing(b)
    BY <1>2
  <2>4. LeadingOnes(Octet(i)) = 2 + 1 /\ 2 \in 1 .. 3 /\ 2 + 1 = 3
    BY <1>2, <1>6
  <2>5. Decode(i) = IF (Trailing(a) /\ Trailing(b)) /\ Valid(Bits(i, 2), 2)
                    THEN [c32 |-> Bits(i, 2), len |-> 3] ELSE [c32 |-> Octet(i), len |-> 1]
    BY <1>1, <2>3, <2>4, Sequence
  <2> DEFINE v == (c - 224) * 4096 + (a - 128) * 64 + (b - 128)
             good == (c = 224 => 160 <= a) /\ (c = 237 => a <= 159)
  <2>6. ASSUME Trailing(a), Trailing(b)
        PROVE  Bits(i, 2) = v /\ (Valid(Bits(i, 2), 2) <=> good)
    <3>1. 224 <= c /\ c <= 239
      BY <2>1
    <3> QED
      BY <2>2, <2>6, <3>1, ThreeRight
  <2>7. ThreeOctets(i) <=> Trailing(a) /\ Trailing(b) /\ good
    BY <1>3, <2>1, SMT
  <2>8. ThreeOctets(i) => CodePoint(i) = v /\ WellFormedLength(i) = 3
    BY <1>2, <2>1, SMT DEF CodePoint, WellFormedLength
  <2> HIDE DEF v, good
  <2>9. CASE ThreeOctets(i)
    BY <2>5, <2>6, <2>7, <2>8, <2>9, Zenon
  <2>10. CASE ~ThreeOctets(i)
    BY <1>4, <2>1, <2>5, <2>6, <2>7, <2>10, Zenon
  <2> QED
    BY <2>9, <2>10
<1>7. CASE LeadingOnes(c) = 4
  <2>1. 240 <= c /\ c <= 247 /\ ~TwoOctets(i) /\ ~ThreeOctets(i)
    BY <1>3, <1>7, LeadValue, SMT
  <2>2. Bits(i, 3) = Joined(c, a, b, d)
    <3>1. 3 # 1 /\ 3 # 2
      OBVIOUS
    <3> QED
      BY <1>2, <3>1, Zenon DEF Bits, Joined
  <2>3. (\A j \in 1 .. 3 : Trailing(Octet(i + j))) <=> Trailing(a) /\ Trailing(b) /\ Trailing(d)
    BY <1>2
  <2>4. LeadingOnes(Octet(i)) = 3 + 1 /\ 3 \in 1 .. 3 /\ 3 + 1 = 4
    BY <1>2, <1>7
  <2>5. Decode(i) = IF (Trailing(a) /\ Trailing(b) /\ Trailing(d)) /\ Valid(Bits(i, 3), 3)
                    THEN [c32 |-> Bits(i, 3), len |-> 4] ELSE [c32 |-> Octet(i), len |-> 1]
    BY <1>1, <2>3, <2>4, Sequence
  <2>6. ASSUME Trailing(a), Trailing(b), Trailing(d)
        PROVE  /\ Bits(i, 3) = Value(c, a, b, d)
               /\ Valid(Bits(i, 3), 3) => InPlanes(c, a)
               /\ InPlanes(c, a) /\ ~LooksSurrogate(Value(c, a, b, d)) => Valid(Bits(i, 3), 3)
    <3>1. 240 <= c /\ c <= 247
      BY <2>1
    <3> QED
      BY <2>2, <2>6, <3>1, FourRight
  <2>7. FourOctets(i) <=> Trailing(a) /\ Trailing(b) /\ Trailing(d) /\ InPlanes(c, a)
    BY <1>3, <2>1, SMT DEF InPlanes
  <2>8. FourOctets(i) => CodePoint(i) = Value(c, a, b, d) /\ WellFormedLength(i) = 4
    <3> SUFFICES ASSUME FourOctets(i)
                 PROVE  CodePoint(i) = Value(c, a, b, d) /\ WellFormedLength(i) = 4
      OBVIOUS
    <3>1. CodePoint(i) = Value(Octet(i), Octet(i + 1), Octet(i + 2), Octet(i + 3))
      BY <2>1, SMT DEF CodePoint, Value
    <3>2. WellFormedLength(i) = 4
      BY <2>1, SMT DEF WellFormedLength
    <3> QED
      BY <1>2, <3>1, <3>2, Zenon
  <2>9. CASE FourOctets(i)
    BY <2>5, <2>6, <2>7, <2>8, <2>9, Zenon
  <2>10. CASE ~FourOctets(i)
    BY <1>4, <2>1, <2>5, <2>6, <2>7, <2>10, Zenon
  <2> QED
    BY <2>9, <2>10
<1>8. CASE LeadingOnes(c) \notin 2 .. 4
  <2>1. ~TwoOctets(i) /\ ~ThreeOctets(i) /\ ~FourOctets(i)
    BY <1>3, <1>8, LeadValue, SMT
  <2>2. Decode(i) = [c32 |-> Octet(i), len |-> 1]
    BY <1>2, <1>8, NoSequence, Zenon
  <2> QED
    BY <1>4, <2>1, <2>2, Zenon
<1>9. LeadingOnes(c) \in 2 .. 4 =>
        LeadingOnes(c) = 2 \/ LeadingOnes(c) = 3 \/ LeadingOnes(c) = 4
  OBVIOUS
<1> QED
  BY <1>5, <1>6, <1>7, <1>8, <1>9, Zenon

(* A turn of the loop prints the character the standard sees.              *)
LEMMA TurnRight ==
  ASSUME IInv, PutChar, ~LooksSurrogate(CodePoint(s8))
  PROVE  /\ s8' = s8 + WellFormedLength(s8)
         /\ Adds((IF CodePoint(s8) = 10 THEN <<13>> ELSE <<>>) \o Units(CodePoint(s8)))
<1>1. TypeOK /\ str \in Seq(Byte)
  BY DEF IInv, TypeOK
<1>2. s8 \in 1 .. Len(str) /\ s8' = s8 + Decode(s8).len
  BY <1>1, Turn
<1>3. \/ out' = Append(out, buf \o Added(s8)) /\ buf' = <<>>
      \/ buf' = buf \o Added(s8) /\ out' = out
  BY <1>1, Turn, Zenon
<1>4. Decode(s8) = [c32 |-> CodePoint(s8), len |-> WellFormedLength(s8)]
  BY <1>1, <1>2, DecodesRight
<1>5. Decode(s8).c32 = CodePoint(s8) /\ Decode(s8).len = WellFormedLength(s8)
  BY <1>4
<1>6. CodePoint(s8) = 10 <=> Octet(s8) = 10
  <2>1. PICK c32 \in Character, len \in 1 .. 4 :
          Decode(s8) = [c32 |-> c32, len |-> len] /\ (c32 = 10 <=> Octet(s8) = 10)
    BY <1>1, <1>2, DecodeType
  <2>2. Decode(s8).c32 = c32
    BY <2>1
  <2> QED
    BY <1>5, <2>1, <2>2, Zenon
<1>7. Added(s8) = (IF CodePoint(s8) = 10 THEN <<13>> ELSE <<>>) \o Units(CodePoint(s8))
  BY <1>5, <1>6, Zenon DEF Added
<1> QED
  BY <1>2, <1>3, <1>5, <1>7, Zenon DEF Adds

(* efi_puts prints every well-formed character as itself and every other   *)
(* octet as the character of its value, nothing twice and nothing lost,    *)
(* whatever the string and wherever a buffer happens to end. *)
THEOREM CharactersPrinted ==
  Spec => PrintsRight
<1>1. ASSUME IInv, [PutChar]_vars
      PROVE  [LET c == CodePoint(s8)
              IN ~LooksSurrogate(c) =>
                   /\ s8' = s8 + WellFormedLength(s8)
                   /\ Adds((IF c = 10 THEN <<13>> ELSE <<>>) \o Units(c))]_vars
  BY <1>1, TurnRight, Zenon
<1> QED
  BY <1>1, Invariance, PTL DEF Spec, PrintsRight

-----------------------------------------------------------------------------
(* The string functions *)

(* The least of a set of numbers is the one below all others. *)
LEMMA LeastOf ==
  ASSUME NEW S, S \subseteq Nat, NEW n \in S, \A k \in S : n <= k
  PROVE  Least(S) = n
<1>1. PICK m : m = Least(S)
  OBVIOUS
<1>2. m \in S /\ \A y \in S : m <= y
  BY <1>1, LeastIs
<1>3. m \in Nat /\ m <= n /\ n <= m
  BY <1>2
<1> QED
  BY <1>1, <1>3

(* The octets what stand in memory from the address on. *)
Stands(mem, at, what) == \A k \in 1 .. Len(what) : mem[at + k - 1] = what[k]

(* The length of a string, up to a limit: where its NUL is. *)
LEMMA StrnlenIs ==
  ASSUME NEW mem, NEW p \in Nat, NEW s \in Seq(Byte), NEW size \in Nat, Stands(mem, p, s)
  PROVE  /\ Len(s) < size /\ mem[p + Len(s)] = 0 => strnlen(mem, p, size) = Len(s)
         /\ Len(s) = size => strnlen(mem, p, size) = Len(s)
<1> DEFINE nuls == {k \in 0 .. size - 1 : mem[p + k] = 0}
<1>0. nuls \subseteq Nat
  OBVIOUS
<1>1. PICK n \in Nat : n = Len(s)
  OBVIOUS
<1>2. ASSUME NEW k \in 0 .. n - 1 PROVE mem[p + k] # 0
  <2>1. k + 1 \in 1 .. n /\ p + (k + 1) - 1 = p + k
    OBVIOUS
  <2>2. mem[p + k] = s[k + 1] /\ s[k + 1] \in Byte
    BY <1>1, <2>1 DEF Stands
  <2> QED
    BY <2>2, NoNul
<1>3. ASSUME n < size, mem[p + n] = 0 PROVE strnlen(mem, p, size) = n
  <2>1. n \in nuls
    BY <1>3
  <2>2. \A k \in nuls : n <= k
    <3> SUFFICES ASSUME NEW k \in nuls, k < n PROVE FALSE
      OBVIOUS
    <3>1. k \in 0 .. n - 1 /\ mem[p + k] = 0
      OBVIOUS
    <3> QED
      BY <1>2, <3>1
  <2>3. Least(nuls) = n
    <3> HIDE DEF nuls
    <3> QED
      BY <1>0, <2>1, <2>2, LeastOf
  <2> QED
    BY <2>1, <2>3, Zenon DEF strnlen
<1>4. ASSUME n = size PROVE strnlen(mem, p, size) = n
  <2>1. nuls = {}
    BY <1>2, <1>4
  <2> QED
    BY <1>4, <2>1, Zenon DEF strnlen
<1> QED
  BY <1>1, <1>3, <1>4

(* The length of a string that ends in memory. *)
LEMMA StrlenAt ==
  ASSUME NEW mem, NEW p \in Nat, NEW s \in Seq(Byte), Stands(mem, p, s),
         Len(mem) \in Nat, p + Len(s) <= Len(mem), mem[p + Len(s)] = 0
  PROVE  strlen(mem, p) = Len(s)
<1>1. PICK size \in Nat : size = Len(mem) - p + 1 /\ Len(s) < size
  <2>1. PICK l \in Nat, n \in Nat : l = Len(mem) /\ n = Len(s) /\ p + n <= l
    OBVIOUS
  <2>2. l - p + 1 \in Nat /\ n < l - p + 1
    BY <2>1
  <2> QED
    BY <2>1, <2>2
<1>2. strnlen(mem, p, size) = Len(s)
  BY <1>1, StrnlenIs
<1> QED
  BY <1>1, <1>2, Zenon DEF strlen

-----------------------------------------------------------------------------
(* What a function writes *)

(* string.c:21-31: mempcpy writes what stands at its source. *)
LEMMA CopyIs ==
  ASSUME NEW mem, NEW dst \in Nat, NEW src \in Nat, NEW what, Len(what) \in Nat,
         Stands(mem, src, what)
  PROVE  /\ mempcpy(mem, dst, src, Len(what)).mem = With(mem, dst, what)
         /\ mempcpy(mem, dst, src, Len(what)).ptr = dst + Len(what)
<1>0. PICK n \in Nat : n = Len(what)
  OBVIOUS
<1>1. PICK new : new = [i \in DOMAIN mem |-> IF i \in dst .. dst + n - 1
                                         THEN mem[src + (i - dst)] ELSE mem[i]]
  OBVIOUS
<1>2. mempcpy(mem, dst, src, n) = [mem |-> new, ptr |-> dst + n]
  BY <1>1, Zenon DEF mempcpy
<1>3. With(mem, dst, what) = new
  <2>1. ASSUME NEW i \in DOMAIN mem, i \in dst .. dst + n - 1
        PROVE  mem[src + (i - dst)] = what[i - dst + 1]
    <3>1. i - dst + 1 \in 1 .. n /\ src + (i - dst + 1) - 1 = src + (i - dst)
      BY <2>1
    <3>2. PICK k \in 1 .. n : k = i - dst + 1 /\ src + k - 1 = src + (i - dst)
      BY <3>1
    <3>3. mem[src + k - 1] = what[k]
      BY <1>0 DEF Stands
    <3> QED
      BY <3>2, <3>3, Zenon
  <2>2. With(mem, dst, what) = [i \in DOMAIN mem |-> IF i \in dst .. dst + n - 1
                                                 THEN what[i - dst + 1] ELSE mem[i]]
    BY <1>0, Zenon DEF With
  <2> QED
    BY <1>1, <2>1, <2>2, Zenon
<1> QED
  BY <1>0, <1>2, <1>3

(* One octet more behind what was written. *)
LEMMA WithNext ==
  ASSUME NEW mem, NEW m \in Nat, DOMAIN mem = 1 .. m, NEW at \in Nat \ {0}, NEW S,
         NEW what \in Seq(S), NEW u \in S, at + Len(what) <= m
  PROVE  [With(mem, at, what) EXCEPT ![at + Len(what)] = u] = With(mem, at, Append(what, u))
<1>1. PICK n \in Nat : n = Len(what)
  OBVIOUS
<1>2. PICK more : more = Append(what, u)
  OBVIOUS
<1>3. Len(more) = n + 1 /\ more[n + 1] = u /\ \A k \in 1 .. n : more[k] = what[k]
  BY <1>1, <1>2
<1>4. PICK f : f = With(mem, at, what)
  OBVIOUS
<1>5. f = [i \in 1 .. m |-> IF i \in at .. at + n - 1 THEN what[i - at + 1] ELSE mem[i]]
  BY <1>1, <1>4, Zenon DEF With
<1>6. With(mem, at, more) = [i \in 1 .. m |-> IF i \in at .. at + (n + 1) - 1
                                              THEN more[i - at + 1] ELSE mem[i]]
  BY <1>3, Zenon DEF With
<1>7. [f EXCEPT ![at + n] = u] = [i \in 1 .. m |-> IF i = at + n THEN u ELSE f[i]]
  BY <1>5
<1>8. ASSUME NEW i \in 1 .. m
      PROVE  (IF i = at + n THEN u ELSE f[i])
                = IF i \in at .. at + (n + 1) - 1 THEN more[i - at + 1] ELSE mem[i]
  <2>1. CASE i = at + n
    <3>1. i \in at .. at + (n + 1) - 1 /\ i - at + 1 = n + 1
      BY <2>1
    <3> QED
      BY <1>3, <2>1, <3>1, Zenon
  <2>2. CASE i # at + n /\ i \in at .. at + n - 1
    <3>1. i \in at .. at + (n + 1) - 1 /\ i - at + 1 \in 1 .. n
      BY <2>2
    <3> QED
      BY <1>3, <1>5, <2>2, <3>1, Zenon
  <2>3. CASE i # at + n /\ i \notin at .. at + n - 1
    <3>1. i \notin at .. at + (n + 1) - 1
      BY <2>3
    <3> QED
      BY <1>5, <2>3, <3>1, Zenon
  <2> QED
    BY <2>1, <2>2, <2>3, Zenon
<1>9. [f EXCEPT ![at + n] = u] = With(mem, at, more)
  BY <1>6, <1>7, <1>8, Zenon
<1> QED
  BY <1>1, <1>2, <1>4, <1>9, Zenon

(* A string with its NUL. *)
LEMMA EndedIs ==
  ASSUME NEW s \in Seq(Nat)
  PROVE  /\ Ended(s) \in Seq(Nat) /\ Len(Ended(s)) = Len(s) + 1
         /\ Ended(s)[Len(s) + 1] = 0 /\ \A k \in 1 .. Len(s) : Ended(s)[k] = s[k]
BY DEF Ended

(* string.c:96-108: a string is copied with its NUL. *)
LEMMA StpcpyIs ==
  ASSUME NEW mem, NEW m \in Nat, DOMAIN mem = 1 .. m, Len(mem) = m,
         NEW dst \in Nat \ {0}, NEW src \in Nat \ {0},
         NEW s \in Seq(Byte), src + Len(s) <= m, dst + Len(s) <= m, mem[src + Len(s)] = 0,
         Stands(mem, src, s)
  PROVE  /\ stpcpy(mem, dst, src).mem = With(mem, dst, Ended(s))
         /\ strcpy(mem, dst, src).mem = With(mem, dst, Ended(s))
<1>1. PICK n \in Nat : n = Len(s)
  OBVIOUS
<1>2. strlen(mem, src) = n
  BY <1>1, StrlenAt
<1>3. PICK copied : copied = mempcpy(mem, dst, src, n)
  OBVIOUS
<1>4. copied.mem = With(mem, dst, s) /\ copied.ptr = dst + n
  BY <1>1, <1>3, CopyIs
<1>5. copied = [mem |-> copied.mem, ptr |-> copied.ptr]
  BY <1>3 DEF mempcpy
<1>6. [With(mem, dst, s) EXCEPT ![dst + n] = 0] = With(mem, dst, Ended(s))
  <2>1. s \in Seq(Nat) /\ 0 \in Nat
    BY NoNul, SeqMonotonic
  <2> QED
    BY <1>1, <2>1, WithNext DEF Ended
<1>7. stpcpy(mem, dst, src) = [copied EXCEPT !.mem[copied.ptr] = 0]
  BY <1>2, <1>3, Zenon DEF stpcpy
<1>8. [copied EXCEPT !.mem[copied.ptr] = 0].mem = [copied.mem EXCEPT ![copied.ptr] = 0]
  BY <1>5
<1>9. strcpy(mem, dst, src).mem = stpcpy(mem, dst, src).mem
  <2>1. stpcpy(mem, dst, src) = [mem |-> [copied.mem EXCEPT ![copied.ptr] = 0], ptr |-> copied.ptr]
    BY <1>5, <1>7
  <2> QED
    BY <2>1 DEF strcpy
<1> QED
  BY <1>4, <1>6, <1>7, <1>8, <1>9, Zenon

(* What has been written stands there, and the rest is as it was. *)
LEMMA WithAt ==
  ASSUME NEW mem, NEW m \in Nat, DOMAIN mem = 1 .. m, NEW at \in Nat \ {0},
         NEW what, Len(what) \in Nat, at + Len(what) - 1 <= m
  PROVE  /\ DOMAIN With(mem, at, what) = 1 .. m /\ Len(With(mem, at, what)) = m
         /\ Stands(With(mem, at, what), at, what)
         /\ \A i \in 1 .. m : i < at => With(mem, at, what)[i] = mem[i]
<1>1. PICK f : f = With(mem, at, what)
  OBVIOUS
<1>2. PICK n \in Nat : n = Len(what)
  OBVIOUS
<1>3. f = [i \in 1 .. m |-> IF i \in at .. at + n - 1 THEN what[i - at + 1] ELSE mem[i]]
  BY <1>1, <1>2, Zenon DEF With
<1>4. DOMAIN f = 1 .. m
  BY <1>3, Zenon
<1>5. Len(f) = m
  BY <1>4
<1>6. Stands(f, at, what)
  <2> SUFFICES ASSUME NEW k \in 1 .. n PROVE f[at + k - 1] = what[k]
    BY <1>2 DEF Stands
  <2>1. at + k - 1 \in 1 .. m /\ at + k - 1 \in at .. at + n - 1 /\ (at + k - 1) - at + 1 = k
    BY <1>2
  <2> QED
    BY <1>3, <2>1, Zenon
<1>7. \A i \in 1 .. m : i < at => f[i] = mem[i]
  BY <1>3
<1> QED
  BY <1>1, <1>4, <1>5, <1>6, <1>7, Zenon

(* What is written over the NUL of a string continues it. *)
LEMMA WithMore ==
  ASSUME NEW mem, NEW m \in Nat, NEW at \in Nat \ {0}, NEW s \in Seq(Nat), NEW r \in Seq(Nat),
         NEW end,
         DOMAIN mem = 1 .. m, Len(r) > 0, end = at + Len(s)
  PROVE  With(With(mem, at, Ended(s)), end, r) = With(mem, at, s \o r)
<1>1. PICK b \in Nat : b = Len(s)
  OBVIOUS
<1>2. PICK c \in Nat : c = Len(r) /\ c > 0
  OBVIOUS
<1>3. PICK one : one = Ended(s)
  OBVIOUS
<1>4. Len(one) = b + 1 /\ \A k \in 1 .. b : one[k] = s[k]
  BY <1>1, <1>3, EndedIs
<1>5. PICK both : both = s \o r
  OBVIOUS
<1>6. /\ Len(both) = b + c
      /\ \A k \in 1 .. b : both[k] = s[k]
      /\ \A k \in b + 1 .. b + c : both[k] = r[k - b]
  BY <1>1, <1>2, <1>5, ConcatProperties
<1>7. PICK f : f = With(mem, at, one)
  OBVIOUS
<1>8. f = [i \in 1 .. m |-> IF i \in at .. at + (b + 1) - 1 THEN one[i - at + 1] ELSE mem[i]]
  BY <1>4, <1>7, Zenon DEF With
<1>9. With(f, at + b, r)
        = [i \in 1 .. m |-> IF i \in at + b .. at + b + c - 1 THEN r[i - (at + b) + 1] ELSE f[i]]
  <2>1. DOMAIN f = 1 .. m
    BY <1>8, Zenon
  <2> QED
    BY <1>2, <2>1, Zenon DEF With
<1>10. With(mem, at, both)
         = [i \in 1 .. m |-> IF i \in at .. at + (b + c) - 1 THEN both[i - at + 1] ELSE mem[i]]
  BY <1>6, Zenon DEF With
<1>11. ASSUME NEW i \in 1 .. m
       PROVE  (IF i \in at + b .. at + b + c - 1 THEN r[i - (at + b) + 1] ELSE f[i])
                 = IF i \in at .. at + (b + c) - 1 THEN both[i - at + 1] ELSE mem[i]
  <2>1. CASE i \in at + b .. at + b + c - 1
    <3>1. PICK k \in b + 1 .. b + c : k = i - at + 1 /\ k - b = i - (at + b) + 1
      BY <2>1
    <3>2. i \in at .. at + (b + c) - 1
      BY <2>1
    <3>3. both[i - at + 1] = r[i - (at + b) + 1]
      <4>1. both[k] = r[k - b]
        BY <1>6
      <4> QED
        BY <3>1, <4>1, Zenon
    <3> QED
      BY <2>1, <3>2, <3>3, Zenon
  <2>2. CASE i \in at .. at + b - 1
    <3>1. PICK k \in 1 .. b : k = i - at + 1
      BY <2>2
    <3>2. i \in at .. at + (b + c) - 1 /\ i \notin at + b .. at + b + c - 1 /\ i \in at .. at + (b + 1) - 1
      BY <2>2
    <3>3. f[i] = one[i - at + 1]
      BY <1>8, <3>2, Zenon
    <3> QED
      BY <1>4, <1>6, <3>1, <3>2, <3>3, Zenon
  <2>3. CASE i \notin at .. at + (b + c) - 1
    <3>1. i \notin at + b .. at + b + c - 1 /\ i \notin at .. at + (b + 1) - 1
      BY <1>2, <2>3
    <3>2. f[i] = mem[i]
      BY <1>8, <3>1, Zenon
    <3> QED
      BY <2>3, <3>1, <3>2, Zenon
  <2>4. i \in at .. at + (b + c) - 1 => i \in at .. at + b - 1 \/ i \in at + b .. at + b + c - 1
    OBVIOUS
  <2> QED
    BY <2>1, <2>2, <2>3, <2>4, Zenon
<1>12. With(f, at + b, r) = With(mem, at, both)
  BY <1>9, <1>10, <1>11, Zenon
<1> QED
  BY <1>1, <1>3, <1>5, <1>7, <1>12

(* string.c:163-167: a concatenation is written over the NUL. *)
LEMMA StrcatIs ==
  ASSUME NEW mem, NEW m \in Nat, DOMAIN mem = 1 .. m,
         NEW dst \in Nat \ {0}, NEW src \in Nat \ {0},
         NEW s \in Seq(Byte), NEW t \in Seq(Byte),
         src + Len(t) < dst, dst + Len(s) + Len(t) <= m,
         Stands(mem, src, t), mem[src + Len(t)] = 0
  PROVE  strcat(With(mem, dst, Ended(s)), dst, src).mem = With(mem, dst, s \o Ended(t))
<1>1. PICK b \in Nat : b = Len(s)
  OBVIOUS
<1>2. PICK a \in Nat : a = Len(t)
  OBVIOUS
<1>3. s \in Seq(Nat) /\ t \in Seq(Nat) /\ 0 \in Nat
  BY NoNul, SeqMonotonic
<1>4. PICK one : one = Ended(s)
  OBVIOUS
<1>5. Len(one) = b + 1 /\ one[b + 1] = 0 /\ \A k \in 1 .. b : one[k] = s[k]
  BY <1>1, <1>3, <1>4, EndedIs
<1>6. PICK f : f = With(mem, dst, one)
  OBVIOUS
<1>7. /\ DOMAIN f = 1 .. m /\ Len(f) = m /\ Stands(f, dst, one)
      /\ \A i \in 1 .. m : i < dst => f[i] = mem[i]
  <2>1. Len(one) \in Nat /\ dst + Len(one) - 1 <= m
    BY <1>1, <1>5
  <2> QED
    BY <1>6, <2>1, WithAt
<1>8. strlen(f, dst) = b
  <2>1. Stands(f, dst, s) /\ f[dst + b] = 0
    <3>1. b + 1 \in 1 .. Len(one) /\ dst + (b + 1) - 1 = dst + b /\ \A k \in 1 .. b : k \in 1 .. Len(one)
      BY <1>5
    <3> QED
      BY <1>1, <1>5, <1>7, <3>1 DEF Stands
  <2>2. dst + b <= Len(f) /\ Len(f) \in Nat
    BY <1>1, <1>7
  <2> QED
    BY <1>1, <2>1, <2>2, StrlenAt
<1>9. Stands(f, src, t) /\ f[src + a] = 0
  <2>1. src + a \in 1 .. m /\ src + a < dst
    BY <1>1, <1>2
  <2>2. \A k \in 1 .. a : src + k - 1 \in 1 .. m /\ src + k - 1 < dst
    BY <1>1, <1>2
  <2> QED
    BY <1>2, <1>7, <2>1, <2>2 DEF Stands
<1>10. stpcpy(f, dst + b, src).mem = With(f, dst + b, Ended(t))
  <2>1. dst + b \in Nat \ {0} /\ src + Len(t) <= m /\ dst + b + Len(t) <= m
    BY <1>1, <1>2
  <2>2. f[src + Len(t)] = 0
    BY <1>2, <1>9, Zenon
  <2>3. Stands(f, src, t) /\ DOMAIN f = 1 .. m /\ Len(f) = m
    BY <1>7, <1>9
  <2> QED
    BY <2>1, <2>2, <2>3, StpcpyIs
<1>11. With(f, dst + b, Ended(t)) = With(mem, dst, s \o Ended(t))
  <2>1. PICK r \in Seq(Nat) : r = Ended(t) /\ Len(r) > 0
    BY <1>3, EndedIs
  <2>2. PICK end \in Nat : end = dst + Len(s) /\ end = dst + b
    BY <1>1
  <2>3. With(With(mem, dst, Ended(s)), end, r) = With(mem, dst, s \o r)
    BY <1>3, <2>1, <2>2, WithMore
  <2> QED
    BY <1>4, <1>6, <2>1, <2>2, <2>3
<1>12. strcat(f, dst, src).mem = stpcpy(f, dst + b, src).mem
  <2>1. PICK g : g = stpcpy(f, dst + b, src)
    OBVIOUS
  <2>2. strcat(f, dst, src) = [g EXCEPT !.ptr = dst]
    BY <1>8, <2>1, Zenon DEF strcat
  <2>3. g = [mem |-> g.mem, ptr |-> g.ptr]
    BY <2>1 DEF stpcpy, mempcpy
  <2> QED
    BY <2>1, <2>2, <2>3
<1> QED
  BY <1>4, <1>6, <1>10, <1>11, <1>12, Zenon

(* string.c:141-160: a string is turned round where it stands. *)
LEMMA StrrevIs ==
  ASSUME NEW mem, NEW src \in Nat \ {0}, NEW s \in Seq(Byte),
         strlen(mem, src) = Len(s), Stands(mem, src, s)
  PROVE  strrev(mem, src) = With(mem, src, Reverse(s))
<1>1. PICK b \in Nat : b = Len(s)
  OBVIOUS
<1>2. PICK back : back = Reverse(s)
  OBVIOUS
<1>3. Len(back) = b /\ \A k \in 1 .. b : back[k] = s[b - k + 1]
  BY <1>1, <1>2 DEF Reverse
<1>4. strrev(mem, src) = [i \in DOMAIN mem |-> IF i \in src .. src + b - 1
                                               THEN mem[(2 * src + b - 1) - i] ELSE mem[i]]
  BY <1>1, Zenon DEF strrev, strnrev
<1>5. With(mem, src, back) = [i \in DOMAIN mem |-> IF i \in src .. src + b - 1
                                                   THEN back[i - src + 1] ELSE mem[i]]
  BY <1>3, Zenon DEF With
<1>6. ASSUME NEW i \in src .. src + b - 1
      PROVE  mem[(2 * src + b - 1) - i] = back[i - src + 1]
  <2>1. PICK k \in 1 .. b : k = i - src + 1
    OBVIOUS
  <2>2. PICK j \in 1 .. b : j = b - k + 1 /\ src + j - 1 = (2 * src + b - 1) - i
    BY <2>1
  <2>3. back[k] = s[j] /\ mem[src + j - 1] = s[j]
    BY <1>1, <1>3, <2>2 DEF Stands
  <2> QED
    BY <2>1, <2>2, <2>3, Zenon
<1>7. strrev(mem, src) = With(mem, src, back)
  BY <1>4, <1>5, <1>6, Zenon
<1> QED
  BY <1>2, <1>7

(* The first octets of a string. *)
LEMMA FirstOf ==
  ASSUME NEW s \in Seq(Byte), NEW k \in 0 .. Len(s)
  PROVE  /\ SubSeq(s, 1, k) \in Seq(Byte) /\ Len(SubSeq(s, 1, k)) = k
         /\ \A i \in 1 .. k : SubSeq(s, 1, k)[i] = s[i]
<1>1. Len(s) \in Nat /\ \A i \in 1 .. k : s[i] \in Byte
  OBVIOUS
<1>2. 1 \in Int /\ k \in Int
  BY <1>1
<1>3. /\ SubSeq(s, 1, k) \in Seq(Byte)
      /\ Len(SubSeq(s, 1, k)) = IF 1 <= k THEN k - 1 + 1 ELSE 0
      /\ \A i \in 1 .. k - 1 + 1 : SubSeq(s, 1, k)[i] = s[1 + i - 1]
  BY <1>1, <1>2, SubSeqProperties
<1>4. k - 1 + 1 = k /\ \A i \in 1 .. k : 1 + i - 1 = i
  BY <1>1
<1> QED
  BY <1>1, <1>3, <1>4

(* A copy of n octets holds first and a padding, and ends where first does. *)
Fills(mem, dst, src, n, first, pad) ==
  /\ stpncpy(mem, dst, src, n).mem = With(mem, dst, first \o Nuls(pad))
  /\ stpncpy(mem, dst, src, n).ptr = dst + Len(first)

(* string.c:82-86: a copy of n octets, cut or padded. *)
LEMMA StpncpyIs ==
  ASSUME NEW mem, NEW m \in Nat, DOMAIN mem = 1 .. m,
         NEW dst \in Nat \ {0}, NEW src \in Nat \ {0}, NEW first \in Seq(Byte), NEW n \in Nat,
         NEW pad \in Nat, pad = n - Len(first),
         Stands(mem, src, first), Len(first) <= n, Len(first) = n \/ mem[src + Len(first)] = 0
  PROVE  Fills(mem, dst, src, n, first, pad)
<1>1. PICK len \in Nat : len = Len(first)
  OBVIOUS
<1>2. len <= n /\ n - len \in Nat /\ pad = n - len
  BY <1>1
<1>3. strnlen(mem, src, n) = len
  <2>1. /\ Len(first) < n /\ mem[src + Len(first)] = 0 => strnlen(mem, src, n) = Len(first)
        /\ Len(first) = n => strnlen(mem, src, n) = Len(first)
    BY StrnlenIs
  <2> QED
    BY <1>1, <2>1
<1>5. PICK copied : copied = mempcpy(mem, dst, src, len)
  OBVIOUS
<1>6. copied.mem = With(mem, dst, first) /\ copied.ptr = dst + len
  BY <1>1, <1>5, CopyIs
<1>7. PICK f : f = copied.mem
  OBVIOUS
<1>8. f = [i \in 1 .. m |-> IF i \in dst .. dst + len - 1 THEN first[i - dst + 1] ELSE mem[i]]
  BY <1>1, <1>6, <1>7, Zenon DEF With
<1>9. stpncpy(mem, dst, src, n) = memset(f, dst + len, 0, n - len)
  BY <1>3, <1>5, <1>6, <1>7, Zenon DEF stpncpy
<1>10. PICK filled : filled = [i \in 1 .. m |-> IF i \in dst + len .. dst + n - 1 THEN 0 ELSE f[i]]
  OBVIOUS
<1>11. memset(f, dst + len, 0, n - len) = [mem |-> filled, ptr |-> dst + len]
  <2>1. DOMAIN f = 1 .. m /\ 0 % 256 = 0 /\ dst + len + (n - len) - 1 = dst + n - 1
    BY <1>8
  <2> QED
    BY <1>10, <2>1, Zenon DEF memset
<1>12. PICK nuls : nuls = Nuls(pad)
  OBVIOUS
<1>13. PICK both : both = first \o nuls
  OBVIOUS
<1>14. /\ Len(both) = n
       /\ \A k \in 1 .. len : both[k] = first[k]
       /\ \A k \in len + 1 .. n : both[k] = 0
  <2>1. nuls \in Seq(Nat) /\ Len(nuls) = n - len /\ \A k \in 1 .. n - len : nuls[k] = 0
    BY <1>1, <1>2, <1>12 DEF Nuls
  <2>2. first \in Seq(Nat)
    BY NoNul, SeqMonotonic
  <2>3. /\ Len(both) = Len(first) + Len(nuls)
        /\ \A k \in 1 .. Len(first) + Len(nuls) :
             both[k] = IF k <= Len(first) THEN first[k] ELSE nuls[k - Len(first)]
    BY <1>13, <2>1, <2>2, ConcatProperties
  <2>4. len + (n - len) = n
    OBVIOUS
  <2>5. ASSUME NEW k \in 1 .. len PROVE both[k] = first[k]
    <3>1. k \in 1 .. Len(first) + Len(nuls) /\ k <= Len(first)
      BY <1>1, <1>2, <2>1
    <3> QED
      BY <2>3, <3>1
  <2>6. ASSUME NEW k \in len + 1 .. n PROVE both[k] = 0
    <3>1. k \in 1 .. Len(first) + Len(nuls) /\ ~(k <= Len(first)) /\ k - Len(first) \in 1 .. n - len
      BY <1>1, <1>2, <2>1
    <3> QED
      BY <2>1, <2>3, <3>1
  <2> QED
    BY <1>1, <2>1, <2>3, <2>4, <2>5, <2>6
<1>15. With(mem, dst, both)
         = [i \in 1 .. m |-> IF i \in dst .. dst + n - 1 THEN both[i - dst + 1] ELSE mem[i]]
  BY <1>14, Zenon DEF With
<1>16. ASSUME NEW i \in 1 .. m
       PROVE  (IF i \in dst + len .. dst + n - 1 THEN 0 ELSE f[i])
                 = IF i \in dst .. dst + n - 1 THEN both[i - dst + 1] ELSE mem[i]
  <2>1. CASE i \in dst + len .. dst + n - 1
    <3>1. PICK k \in len + 1 .. n : k = i - dst + 1
      BY <2>1
    <3>2. i \in dst .. dst + n - 1
      BY <2>1
    <3>3. both[k] = 0
      BY <1>14
    <3> QED
      BY <2>1, <3>1, <3>2, <3>3, Zenon
  <2>2. CASE i \in dst .. dst + len - 1
    <3>1. PICK k \in 1 .. len : k = i - dst + 1
      BY <2>2
    <3>2. i \in dst .. dst + n - 1 /\ i \notin dst + len .. dst + n - 1
      BY <1>2, <2>2
    <3>3. f[i] = first[i - dst + 1]
      BY <1>8, <2>2, Zenon
    <3>4. both[k] = first[k]
      BY <1>14
    <3> QED
      BY <3>1, <3>2, <3>3, <3>4, Zenon
  <2>3. CASE i \notin dst .. dst + n - 1
    <3>1. i \notin dst + len .. dst + n - 1 /\ i \notin dst .. dst + len - 1
      BY <1>2, <2>3
    <3>2. f[i] = mem[i]
      BY <1>8, <3>1, Zenon
    <3> QED
      BY <2>3, <3>1, <3>2, Zenon
  <2>4. i \in dst .. dst + n - 1 => i \in dst .. dst + len - 1 \/ i \in dst + len .. dst + n - 1
    OBVIOUS
  <2> QED
    BY <2>1, <2>2, <2>3, <2>4, Zenon
<1>17. With(mem, dst, both) = filled
  BY <1>10, <1>15, <1>16, Zenon
<1>18. stpncpy(mem, dst, src, n) = [mem |-> With(mem, dst, both), ptr |-> dst + len]
  BY <1>9, <1>11, <1>17, Zenon
<1>19. /\ stpncpy(mem, dst, src, n).mem = With(mem, dst, both)
       /\ stpncpy(mem, dst, src, n).ptr = dst + len
  BY <1>18
<1> QED
  BY <1>1, <1>12, <1>13, <1>19, Zenon DEF Fills

-----------------------------------------------------------------------------
(* Comparisons *)

Octets == 0 .. 255

(* Octets as characters and as numbers: each its own value. *)
LEMMA RanksDiffer ==
  ASSUME NEW c \in Octets, NEW d \in Octets
  PROVE  /\ Signed[c] = Char(c) /\ Unsigned[c] = c /\ c \in Nat
         /\ Char(c) \in Int
         /\ Char(c) = Char(d) <=> c = d
<1>1. c \in Nat /\ d \in Nat /\ c <= 255 /\ d <= 255
  BY DEF Octets
<1>2. Signed[c] = Char(c) /\ Unsigned[c] = c
  BY Zenon DEF Signed, Unsigned, Octets
<1> QED
  BY <1>1, <1>2 DEF Char

(* Octets that agree before the first place where they stop. *)
Meet(u, v, k) ==
  /\ k \in 1 .. Len(u) /\ k \in 1 .. Len(v)
  /\ \A i \in 1 .. k - 1 : u[i] = v[i]

(* The sign of the difference of values at the first difference orders.    *)
LEMMA FirstDifference ==
  ASSUME NEW Rank, NEW u \in Seq(Octets), NEW v \in Seq(Octets), NEW k, Meet(u, v, k),
         \A c, d \in Octets : Rank[c] \in Int /\ (Rank[c] = Rank[d] <=> c = d),
         u[k] # v[k]
  PROVE  Compares(Rank[u[k]] - Rank[v[k]], u, v, Rank)
<1>1. PICK x \in Int, y \in Int : x = Rank[u[k]] /\ y = Rank[v[k]] /\ x # y
  BY DEF Meet
<1>2. u # v
  BY DEF Meet
<1>3. x - y = 0 <=> u = v
  BY <1>1, <1>2
<1>4. k \in DOMAIN u \cap DOMAIN v /\ \A i \in 1 .. k - 1 : u[i] = v[i]
  BY DEF Meet
<1>5. ASSUME x - y < 0
      PROVE  \E j \in DOMAIN u \cap DOMAIN v :
               (\A i \in 1 .. j - 1 : u[i] = v[i]) /\ Rank[u[j]] < Rank[v[j]]
  <2>1. Rank[u[k]] < Rank[v[k]]
    BY <1>1, <1>5
  <2> QED
    BY <1>4, <2>1, Zenon
<1>6. ASSUME NEW j \in DOMAIN u \cap DOMAIN v,
             \A i \in 1 .. j - 1 : u[i] = v[i], Rank[u[j]] < Rank[v[j]]
      PROVE  x - y < 0
  <2>1. j \in Nat \ {0} /\ k \in Nat \ {0}
    BY DEF Meet
  <2>2. u[j] # v[j]
    <3>1. u[j] \in Octets /\ v[j] \in Octets
      OBVIOUS
    <3>2. PICK a \in Int, b \in Int : a = Rank[u[j]] /\ b = Rank[v[j]] /\ a < b
      BY <1>6, <3>1
    <3> QED
      BY <3>2
  <2>3. ~(j < k)
    <3>1. j < k => j \in 1 .. k - 1
      BY <2>1
    <3> QED
      BY <1>4, <2>2, <3>1
  <2>4. ~(k < j)
    <3>1. k < j => k \in 1 .. j - 1
      BY <2>1
    <3> QED
      BY <1>6, <3>1
  <2>5. j = k
    BY <2>1, <2>3, <2>4
  <2> QED
    BY <1>1, <1>6, <2>5
<1>7. Compares(x - y, u, v, Rank)
  <2>1. x - y < 0 <=> \E j \in DOMAIN u \cap DOMAIN v :
               (\A i \in 1 .. j - 1 : u[i] = v[i]) /\ Rank[u[j]] < Rank[v[j]]
    BY <1>5, <1>6, Zenon
  <2> QED
    BY <1>3, <2>1, Zenon DEF Compares
<1> QED
  BY <1>1, <1>7, Zenon

(* Nothing is less than itself. *)
LEMMA NoDifference ==
  ASSUME NEW Rank, NEW u \in Seq(Octets), NEW v, u = v,
         \A c, d \in Octets : Rank[c] \in Int /\ (Rank[c] = Rank[d] <=> c = d)
  PROVE  Compares(0, u, v, Rank)
<1>1. ASSUME NEW j \in DOMAIN u, Rank[u[j]] < Rank[u[j]] PROVE FALSE
  <2>1. u[j] \in Octets
    OBVIOUS
  <2>2. PICK a \in Int : a = Rank[u[j]]
    BY <2>1
  <2> QED
    BY <1>1, <2>2
<1>2. 0 = 0 /\ ~(0 < 0)
  OBVIOUS
<1> QED
  BY <1>1, <1>2, Zenon DEF Compares

(* Octets that differ somewhere have a first place where they do. *)
LEMMA FirstPlaceOf ==
  ASSUME NEW S, S \subseteq Nat \ {0}, S # {}
  PROVE  \E k \in S : \A i \in 1 .. k - 1 : i \notin S
<1>1. PICK k \in S : \A i \in S : k <= i
  BY LeastExists
<1>2. ASSUME NEW i \in 1 .. k - 1 PROVE i \notin S
  <2>1. k \in Nat /\ i \in Nat /\ i < k
    OBVIOUS
  <2> QED
    BY <1>1, <2>1
<1> QED
  BY <1>2

(* The first place of the octets is the least offset. *)
LEMMA LeastOffset ==
  ASSUME NEW S, NEW size \in Nat, NEW k \in 1 .. size, S \subseteq 0 .. size - 1,
         k - 1 \in S, \A i \in 1 .. k - 1 : i - 1 \notin S
  PROVE  Least(S) = k - 1
<1>1. S \subseteq Nat
  OBVIOUS
<1>2. ASSUME NEW j \in S, j < k - 1 PROVE FALSE
  <2>1. j + 1 \in 1 .. k - 1 /\ (j + 1) - 1 = j
    BY <1>2
  <2> QED
    BY <1>2, <2>1
<1>3. \A j \in S : k - 1 <= j
  <2> SUFFICES ASSUME NEW j \in S PROVE k - 1 <= j
    OBVIOUS
  <2>1. j \in Nat /\ k - 1 \in Nat /\ ~(j < k - 1)
    BY <1>2
  <2> QED
    BY <2>1
<1> QED
  BY <1>1, <1>3, LeastOf

(* string.c:43-58: memory is compared by its octets. *)
LEMMA MemcmpRight ==
  ASSUME NEW mem, NEW p \in Nat, NEW q \in Nat, NEW u \in Seq(Octets), NEW v \in Seq(Octets),
         Len(u) = Len(v), Stands(mem, p, u), Stands(mem, q, v)
  PROVE  Compares(memcmp(mem, p, q, Len(u)), u, v, Unsigned)
<1>1. PICK n \in Nat : n = Len(u) /\ n = Len(v)
  OBVIOUS
<1>2. \A k \in 1 .. n : mem[p + (k - 1)] = u[k] /\ mem[q + (k - 1)] = v[k]
  <2> SUFFICES ASSUME NEW k \in 1 .. n PROVE mem[p + (k - 1)] = u[k] /\ mem[q + (k - 1)] = v[k]
    OBVIOUS
  <2>1. p + k - 1 = p + (k - 1) /\ q + k - 1 = q + (k - 1)
    OBVIOUS
  <2> QED
    BY <1>1, <2>1 DEF Stands
<1>3. PICK D : D = {k \in 1 .. n : u[k] # v[k]}
  OBVIOUS
<1>4. PICK differs : differs = {k \in 0 .. n - 1 : mem[p + k] # mem[q + k]}
  OBVIOUS
<1>5. \A k \in 1 .. n : k - 1 \in differs <=> k \in D
  <2> SUFFICES ASSUME NEW k \in 1 .. n PROVE k - 1 \in differs <=> k \in D
    OBVIOUS
  <2>1. k - 1 \in 0 .. n - 1
    OBVIOUS
  <2> QED
    BY <1>2, <1>3, <1>4, <2>1
<1>6. memcmp(mem, p, q, n) = IF differs = {} THEN 0
                             ELSE mem[p + Least(differs)] - mem[q + Least(differs)]
  BY <1>4, Zenon DEF memcmp
<1>v. \A c, d \in Octets : Unsigned[c] \in Int /\ (Unsigned[c] = Unsigned[d] <=> c = d)
  BY RanksDiffer
<1>7. CASE D = {}
  <2>1. differs = {}
    <3> SUFFICES ASSUME NEW j \in differs PROVE FALSE
      OBVIOUS
    <3>1. j \in 0 .. n - 1 /\ j + 1 \in 1 .. n /\ (j + 1) - 1 = j
      BY <1>4
    <3> QED
      BY <1>5, <1>7, <3>1
  <2>2. u = v
    BY <1>1, <1>3, <1>7
  <2>3. Compares(0, u, v, Unsigned)
    BY <1>v, <2>2, NoDifference
  <2> QED
    BY <1>1, <1>6, <2>1, <2>3, Zenon
<1>8. CASE D # {}
  <2>1. PICK k \in D : \A i \in 1 .. k - 1 : i \notin D
    <3>1. D \subseteq Nat \ {0}
      BY <1>3
    <3> QED
      BY <1>8, <3>1, FirstPlaceOf
  <2>2. k \in 1 .. n /\ u[k] # v[k] /\ Meet(u, v, k)
    BY <1>1, <1>3, <2>1 DEF Meet
  <2>3. differs \subseteq 0 .. n - 1 /\ k - 1 \in differs /\ \A i \in 1 .. k - 1 : i - 1 \notin differs
    <3>1. differs \subseteq 0 .. n - 1
      BY <1>4
    <3>2. k - 1 \in differs
      BY <1>5, <2>1, <2>2
    <3>3. \A i \in 1 .. k - 1 : i \in 1 .. n
      BY <2>2
    <3> QED
      BY <1>5, <2>1, <3>1, <3>2, <3>3
  <2>4. Least(differs) = k - 1
    BY <2>2, <2>3, LeastOffset
  <2>5. memcmp(mem, p, q, n) = u[k] - v[k]
    BY <1>2, <1>6, <2>2, <2>3, <2>4
  <2>6. Compares(Unsigned[u[k]] - Unsigned[v[k]], u, v, Unsigned)
    BY <1>v, <2>2, FirstDifference
  <2>7. Unsigned[u[k]] = u[k] /\ Unsigned[v[k]] = v[k]
    <3>1. u[k] \in Octets /\ v[k] \in Octets
      BY <1>1, <2>2
    <3> QED
      BY <3>1, RanksDiffer
  <2> QED
    BY <1>1, <2>5, <2>6, <2>7
<1> QED
  BY <1>7, <1>8

(* Where a comparison of characters stops. *)
LEMMA StrncmpStops ==
  ASSUME NEW mem, NEW p \in Nat, NEW q \in Nat, NEW size \in Nat,
         NEW u \in Seq(Octets), NEW v \in Seq(Octets), Stands(mem, p, u), Stands(mem, q, v),
         NEW k \in 1 .. size, Meet(u, v, k), u[k] # v[k] \/ u[k] = 0,
         \A i \in 1 .. k - 1 : u[i] # 0
  PROVE  strncmp(mem, p, q, size) = Char(u[k]) - Char(v[k])
<1>1. PICK stops : stops = {j \in 0 .. size - 1 : mem[p + j] # mem[q + j] \/ mem[p + j] = 0}
  OBVIOUS
<1>2. \A i \in 1 .. k : mem[p + (i - 1)] = u[i] /\ mem[q + (i - 1)] = v[i]
  <2> SUFFICES ASSUME NEW i \in 1 .. k PROVE mem[p + (i - 1)] = u[i] /\ mem[q + (i - 1)] = v[i]
    OBVIOUS
  <2>1. p + i - 1 = p + (i - 1) /\ q + i - 1 = q + (i - 1)
    OBVIOUS
  <2>2. i \in 1 .. Len(u) /\ i \in 1 .. Len(v)
    BY DEF Meet
  <2> QED
    BY <2>1, <2>2 DEF Stands
<1>3. k - 1 \in stops
  <2>1. k - 1 \in 0 .. size - 1 /\ k \in 1 .. k
    OBVIOUS
  <2> QED
    BY <1>1, <1>2, <2>1
<1>4. \A i \in 1 .. k - 1 : i - 1 \notin stops
  <2> SUFFICES ASSUME NEW i \in 1 .. k - 1 PROVE i - 1 \notin stops
    OBVIOUS
  <2>1. i \in 1 .. k /\ u[i] = v[i] /\ u[i] # 0
    BY DEF Meet
  <2> QED
    BY <1>1, <1>2, <2>1
<1>5. Least(stops) = k - 1
  <2>1. stops \subseteq 0 .. size - 1
    BY <1>1
  <2> QED
    BY <1>3, <1>4, <2>1, LeastOffset
<1>6. strncmp(mem, p, q, size) = IF stops = {} THEN 0
                                 ELSE Char(mem[p + Least(stops)]) - Char(mem[q + Least(stops)])
  BY <1>1, Zenon DEF strncmp
<1>7. mem[p + (k - 1)] = u[k] /\ mem[q + (k - 1)] = v[k] /\ stops # {}
  <2>1. k \in 1 .. k
    OBVIOUS
  <2> QED
    BY <1>2, <1>3, <2>1
<1> QED
  BY <1>5, <1>6, <1>7, Zenon

(* string.c:111-132: characters are compared as signed, up to a limit. *)
LEMMA StrncmpRight ==
  ASSUME NEW mem, NEW p \in Nat, NEW q \in Nat, NEW u \in Seq(Octets), NEW v \in Seq(Octets),
         Len(u) = Len(v), Stands(mem, p, u), Stands(mem, q, v),
         \A i \in 1 .. Len(u) : u[i] # 0
  PROVE  Compares(strncmp(mem, p, q, Len(u)), u, v, Signed)
<1>1. PICK n \in Nat : n = Len(u) /\ n = Len(v)
  OBVIOUS
<1>2. PICK D : D = {k \in 1 .. n : u[k] # v[k]}
  OBVIOUS
<1>v. \A c, d \in Octets : Signed[c] \in Int /\ (Signed[c] = Signed[d] <=> c = d)
  BY RanksDiffer
<1>3. CASE D = {}
  <2>1. u = v
    BY <1>1, <1>2, <1>3
  <2>2. PICK stops : stops = {j \in 0 .. n - 1 : mem[p + j] # mem[q + j] \/ mem[p + j] = 0}
    OBVIOUS
  <2>3. stops = {}
    <3> SUFFICES ASSUME NEW j \in 0 .. n - 1 PROVE mem[p + j] = mem[q + j] /\ mem[p + j] # 0
      BY <2>2
    <3>1. j + 1 \in 1 .. n /\ p + (j + 1) - 1 = p + j /\ q + (j + 1) - 1 = q + j
      OBVIOUS
    <3>2. mem[p + j] = u[j + 1] /\ mem[q + j] = v[j + 1]
      BY <1>1, <3>1 DEF Stands
    <3> QED
      BY <1>1, <2>1, <3>1, <3>2
  <2>4. strncmp(mem, p, q, n) = 0
    BY <2>2, <2>3, Zenon DEF strncmp
  <2>5. Compares(0, u, v, Signed)
    BY <1>v, <2>1, NoDifference
  <2> QED
    BY <1>1, <2>4, <2>5
<1>4. CASE D # {}
  <2>1. PICK k \in D : \A i \in 1 .. k - 1 : i \notin D
    <3>1. D \subseteq Nat \ {0}
      BY <1>2
    <3> QED
      BY <1>4, <3>1, FirstPlaceOf
  <2>2. k \in 1 .. n /\ u[k] # v[k] /\ Meet(u, v, k) /\ \A i \in 1 .. k - 1 : u[i] # 0
    BY <1>1, <1>2, <2>1 DEF Meet
  <2>3. strncmp(mem, p, q, n) = Char(u[k]) - Char(v[k])
    BY <2>2, StrncmpStops
  <2>4. Compares(Signed[u[k]] - Signed[v[k]], u, v, Signed)
    BY <1>v, <2>2, FirstDifference
  <2>5. Signed[u[k]] = Char(u[k]) /\ Signed[v[k]] = Char(v[k])
    <3>1. u[k] \in Octets /\ v[k] \in Octets
      BY <1>1, <2>2
    <3> QED
      BY <3>1, RanksDiffer
  <2> QED
    BY <1>1, <2>3, <2>4, <2>5
<1> QED
  BY <1>3, <1>4

(* The octets of strings are octets. *)
LEMMA ByteOctets == Byte \subseteq Octets /\ 0 \in Octets
<1>1. 0 \in Octets
  BY DEF Octets
<1>2. ASSUME NEW b \in Byte PROVE b \in Octets
  <2>1. b \in Nat /\ 1 <= b /\ b <= 255
    BY DEF Byte
  <2> QED
    BY <2>1 DEF Octets
<1> QED
  BY <1>1, <1>2

(* Strings with their NUL are compared to the first difference, the NUL    *)
(* included. *)
LEMMA StrcmpRight ==
  ASSUME NEW mem, NEW p \in Nat, NEW q \in Nat, NEW t \in Seq(Byte), NEW s \in Seq(Byte),
         NEW size \in Nat, Len(t) < size, Len(s) < size,
         Stands(mem, p, Ended(t)), Stands(mem, q, Ended(s))
  PROVE  Compares(strncmp(mem, p, q, size), Ended(t), Ended(s), Signed)
<1>1. PICK a \in Nat, b \in Nat : a = Len(t) /\ b = Len(s)
  OBVIOUS
<1>2. t \in Seq(Octets) /\ s \in Seq(Octets) /\ t \in Seq(Nat) /\ s \in Seq(Nat)
  BY ByteOctets, NoNul, SeqMonotonic
<1>3. PICK u : u = Ended(t)
  OBVIOUS
<1>4. PICK v : v = Ended(s)
  OBVIOUS
<1>5. u \in Seq(Octets) /\ v \in Seq(Octets)
  BY <1>2, <1>3, <1>4, ByteOctets DEF Ended
<1>6. /\ Len(u) = a + 1 /\ u[a + 1] = 0
      /\ Len(v) = b + 1 /\ v[b + 1] = 0
  BY <1>1, <1>2, <1>3, <1>4, EndedIs
<1>7. (\A i \in 1 .. a : u[i] # 0) /\ (\A i \in 1 .. b : v[i] # 0)
  <2>1. ASSUME NEW i \in 1 .. a PROVE u[i] # 0
    <3>1. t[i] \in Byte
      BY <1>1
    <3>2. Ended(t)[i] = t[i]
      BY <1>1, <1>2, EndedIs
    <3> QED
      BY <1>3, <3>1, <3>2, NoNul
  <2>2. ASSUME NEW i \in 1 .. b PROVE v[i] # 0
    <3>1. s[i] \in Byte
      BY <1>1
    <3>2. Ended(s)[i] = s[i]
      BY <1>1, <1>2, EndedIs
    <3> QED
      BY <1>4, <3>1, <3>2, NoNul
  <2> QED
    BY <2>1, <2>2
<1>8. PICK n \in Nat : n <= a /\ n <= b /\ (n = a \/ n = b)
  <2>1. CASE a <= b
    BY <2>1
  <2>2. CASE b <= a
    BY <2>2
  <2> QED
    BY <2>1, <2>2
<1>9. PICK S : S = {k \in 1 .. n + 1 : u[k] # v[k] \/ u[k] = 0}
  OBVIOUS
<1>10. n + 1 \in S
  <2>1. CASE n = a
    BY <1>6, <1>9, <2>1
  <2>2. CASE n = b /\ n < a
    <3>1. v[n + 1] = 0 /\ u[n + 1] # 0 /\ n + 1 \in 1 .. n + 1
      BY <1>6, <1>7, <2>2
    <3> QED
      BY <1>9, <3>1
  <2> QED
    BY <1>8, <2>1, <2>2
<1>11. PICK k \in S : \A i \in 1 .. k - 1 : i \notin S
  <2>1. S \subseteq Nat \ {0} /\ S # {}
    BY <1>9, <1>10
  <2> QED
    BY <2>1, FirstPlaceOf
<1>12. k \in 1 .. n + 1 /\ (u[k] # v[k] \/ u[k] = 0)
  BY <1>9, <1>11
<1>13. \A i \in 1 .. k - 1 : u[i] = v[i] /\ u[i] # 0
  <2> SUFFICES ASSUME NEW i \in 1 .. k - 1 PROVE u[i] = v[i] /\ u[i] # 0
    OBVIOUS
  <2>1. i \in 1 .. n + 1 /\ i \notin S
    BY <1>11, <1>12
  <2> QED
    BY <1>9, <2>1
<1>14. Meet(u, v, k)
  <2>1. k \in 1 .. Len(u) /\ k \in 1 .. Len(v)
    BY <1>6, <1>8, <1>12
  <2> QED
    BY <1>13, <2>1 DEF Meet
<1>15. strncmp(mem, p, q, size) = Char(u[k]) - Char(v[k])
  <2>1. k \in 1 .. size
    BY <1>1, <1>8, <1>12
  <2>2. Stands(mem, p, u) /\ Stands(mem, q, v)
    BY <1>3, <1>4
  <2>3. \A i \in 1 .. k - 1 : u[i] # 0
    BY <1>13
  <2> QED
    BY <1>5, <1>12, <1>14, <2>1, <2>2, <2>3, StrncmpStops
<1>16. u[k] \in Octets /\ v[k] \in Octets
  BY <1>5, <1>14 DEF Meet
<1>v. \A c, d \in Octets : Signed[c] \in Int /\ (Signed[c] = Signed[d] <=> c = d)
  BY RanksDiffer
<1>17. Compares(strncmp(mem, p, q, size), u, v, Signed)
  <2>1. CASE u[k] # v[k]
    <3>1. Compares(Signed[u[k]] - Signed[v[k]], u, v, Signed)
      BY <1>5, <1>14, <1>v, <2>1, FirstDifference
    <3>2. Signed[u[k]] = Char(u[k]) /\ Signed[v[k]] = Char(v[k])
      BY <1>16, RanksDiffer
    <3> QED
      BY <1>15, <3>1, <3>2
  <2>2. CASE u[k] = v[k]
    <3>1. u[k] = 0 /\ v[k] = 0
      BY <1>12, <2>2
    <3>2. k = a + 1 /\ k = b + 1
      <4>1. k \notin 1 .. a /\ k \notin 1 .. b
        BY <1>7, <3>1
      <4> QED
        BY <1>8, <1>12, <4>1
    <3>3. u = v
      <4>1. \A i \in 1 .. a + 1 : u[i] = v[i]
        BY <1>13, <2>2, <3>2
      <4>2. Len(u) = a + 1 /\ Len(v) = a + 1
        BY <1>6, <3>2
      <4> QED
        BY <1>5, <4>1, <4>2
    <3>4. Char(u[k]) - Char(v[k]) = 0
      <4>1. PICK c \in Int : c = Char(u[k])
        BY <1>16, RanksDiffer
      <4> QED
        BY <2>2, <4>1
    <3>5. Compares(0, u, v, Signed)
      BY <1>5, <1>v, <3>3, NoDifference
    <3> QED
      BY <1>15, <3>4, <3>5
  <2> QED
    BY <2>1, <2>2
<1> QED
  BY <1>3, <1>4, <1>17

-----------------------------------------------------------------------------
(* Two strings in memory *)

(* A string stands where it stands with its NUL. *)
LEMMA EndedStands ==
  ASSUME NEW mem, NEW p \in Nat, NEW s \in Seq(Nat), Stands(mem, p, Ended(s))
  PROVE  Stands(mem, p, s) /\ mem[p + Len(s)] = 0
<1>0. PICK e : e = Ended(s)
  OBVIOUS
<1>1. PICK n \in Nat : n = Len(s)
  OBVIOUS
<1>2. Len(e) = n + 1 /\ e[n + 1] = 0 /\ \A k \in 1 .. n : e[k] = s[k]
  BY <1>0, <1>1, EndedIs
<1>3. \A k \in 1 .. n + 1 : mem[p + k - 1] = e[k]
  BY <1>0, <1>1, <1>2 DEF Stands
<1>4. n + 1 \in 1 .. n + 1 /\ p + (n + 1) - 1 = p + n /\ \A k \in 1 .. n : k \in 1 .. n + 1
  OBVIOUS
<1>5. mem[p + n] = 0
  BY <1>2, <1>3, <1>4
<1>6. Stands(mem, p, s)
  BY <1>0, <1>1, <1>2, <1>3, <1>4 DEF Stands
<1> QED
  BY <1>0, <1>1, <1>5, <1>6

(* Where the two strings are, and how much memory there is. *)
LEMMA MemoryIs ==
  ASSUME NEW s \in Seq(Byte), NEW t \in Seq(Byte)
  PROVE  \E mem, m :
           /\ mem = Memory(s, t) /\ m \in Nat
           /\ m = 2 * Len(s) + 2 * Len(t) + 5
           /\ mem \in Seq(Octets) /\ DOMAIN mem = 1 .. m /\ Len(mem) = m
           /\ Stands(mem, 1, Ended(t)) /\ Stands(mem, Len(t) + 2, Ended(s))
<1>1. PICK a \in Nat, b \in Nat : a = Len(t) /\ b = Len(s)
  OBVIOUS
<1>2. t \in Seq(Octets) /\ s \in Seq(Octets) /\ t \in Seq(Nat) /\ s \in Seq(Nat)
  BY ByteOctets, NoNul, SeqMonotonic
<1>3. PICK u, v : u = Ended(t) /\ v = Ended(s)
  OBVIOUS
<1>4. u \in Seq(Octets) /\ v \in Seq(Octets) /\ Len(u) = a + 1 /\ Len(v) = b + 1
  <2>1. u \in Seq(Octets) /\ v \in Seq(Octets)
    BY <1>2, <1>3, ByteOctets DEF Ended
  <2> QED
    BY <1>1, <1>2, <1>3, <2>1, EndedIs
<1>5. PICK guard : guard = [i \in 1 .. b + a + 3 |-> 170]
  OBVIOUS
<1>6. guard \in Seq(Octets) /\ Len(guard) = b + a + 3
  <2>1. 170 \in Octets
    BY DEF Octets
  <2> QED
    BY <1>5, <2>1
<1>7. PICK both : both = u \o v
  OBVIOUS
<1>8. /\ both \in Seq(Octets) /\ Len(both) = Len(u) + Len(v)
      /\ \A k \in 1 .. Len(u) + Len(v) : both[k] = IF k <= Len(u) THEN u[k] ELSE v[k - Len(u)]
  BY <1>4, <1>7, ConcatProperties
<1>9. PICK mem : mem = both \o guard
  OBVIOUS
<1>m. mem = Memory(s, t)
  BY <1>1, <1>3, <1>5, <1>7, <1>9, Zenon DEF Memory
<1>10. /\ mem \in Seq(Octets) /\ Len(mem) = Len(both) + Len(guard)
       /\ \A k \in 1 .. Len(both) + Len(guard) :
            mem[k] = IF k <= Len(both) THEN both[k] ELSE guard[k - Len(both)]
  <2>1. both \in Seq(Octets) /\ guard \in Seq(Octets)
    BY <1>6, <1>8
  <2> QED
    BY <1>9, <2>1, ConcatProperties
<1>11. ASSUME NEW k \in 1 .. a + 1 PROVE mem[1 + k - 1] = u[k]
  <2>1. k \in 1 .. Len(u) + Len(v) /\ k <= Len(u) /\ k \in 1 .. Len(both) + Len(guard) /\ k <= Len(both)
    BY <1>4, <1>6, <1>8
  <2>2. 1 + k - 1 = k
    OBVIOUS
  <2> QED
    BY <1>8, <1>10, <2>1, <2>2
<1>12. ASSUME NEW k \in 1 .. b + 1 PROVE mem[(a + 2) + k - 1] = v[k]
  <2>1. PICK j \in Nat : j = (a + 2) + k - 1 /\ j - Len(u) = k
    BY <1>4
  <2>2. j \in 1 .. Len(u) + Len(v) /\ ~(j <= Len(u)) /\ j \in 1 .. Len(both) + Len(guard) /\ j <= Len(both)
    BY <1>4, <1>6, <1>8, <2>1
  <2>3. mem[j] = both[j]
    BY <1>10, <2>2
  <2>4. both[j] = v[j - Len(u)]
    BY <1>8, <2>2
  <2> QED
    BY <2>1, <2>3, <2>4
<1>13. Stands(mem, 1, u) /\ Stands(mem, a + 2, v)
  BY <1>4, <1>11, <1>12 DEF Stands
<1>14. PICK m \in Nat : m = 2 * b + 2 * a + 5
  OBVIOUS
<1>15. Len(mem) = m /\ DOMAIN mem = 1 .. m
  BY <1>4, <1>6, <1>8, <1>10, <1>14
<1> QED
  BY <1>1, <1>3, <1>m, <1>10, <1>13, <1>14, <1>15, Zenon

(* A copy of n octets of a string. *)
LEMMA FillIs ==
  ASSUME NEW mem, NEW m \in Nat, DOMAIN mem = 1 .. m, NEW dst \in Nat \ {0}, NEW src \in Nat \ {0},
         NEW s \in Seq(Byte), NEW n \in Nat, Stands(mem, src, s), mem[src + Len(s)] = 0
  PROVE  FillRight(mem, src, dst, s, n)
<1>1. PICK k \in 0 .. Len(s) : k = (IF n > Len(s) THEN Len(s) ELSE n) /\ k <= n /\ (k = n \/ k = Len(s))
  OBVIOUS
<1>2. PICK first \in Seq(Byte) : first = Cut(s, n) /\ Len(first) = k /\ \A i \in 1 .. k : first[i] = s[i]
  <2>1. Cut(s, n) = SubSeq(s, 1, k)
    BY <1>1, Zenon DEF Cut
  <2>2. /\ SubSeq(s, 1, k) \in Seq(Byte) /\ Len(SubSeq(s, 1, k)) = k
        /\ \A i \in 1 .. k : SubSeq(s, 1, k)[i] = s[i]
    BY FirstOf
  <2> QED
    BY <2>1, <2>2
<1>3. Stands(mem, src, first)
  <2>1. \A i \in 1 .. k : i \in 1 .. Len(s)
    OBVIOUS
  <2> QED
    BY <1>2, <2>1 DEF Stands
<1>4. Len(first) <= n /\ (Len(first) = n \/ mem[src + Len(first)] = 0)
  <2>1. Len(first) = k /\ k <= n /\ (k = n \/ k = Len(s))
    BY <1>1, <1>2
  <2>2. CASE k = n
    BY <2>1, <2>2
  <2>3. CASE k = Len(s)
    <3>1. mem[src + Len(first)] = mem[src + Len(s)]
      BY <2>1, <2>3, Zenon
    <3> QED
      BY <2>1, <3>1
  <2> QED
    BY <2>1, <2>2, <2>3, Zenon
<1>5. PICK pad \in Nat : pad = n - Len(first)
  <2>1. Len(first) = k /\ k <= n
    BY <1>1, <1>2
  <2>2. n - k \in Nat
    BY <2>1
  <2> QED
    BY <2>1, <2>2
<1>6. Fills(mem, dst, src, n, first, pad)
  <2>1. pad = n - Len(first) /\ Len(first) <= n
    BY <1>4, <1>5
  <2>2. Len(first) = n \/ mem[src + Len(first)] = 0
    BY <1>4
  <2> QED
    BY <1>3, <2>1, <2>2, StpncpyIs
<1> QED
  BY <1>2, <1>5, <1>6, Zenon DEF FillRight, Fills, strncpy

(* What string.h promises of its functions holds of any two strings.       *)
(* (utils/string.c:7-167, include/string.h:11-179)                         *)
THEOREM StringFunctions ==
  \A s, t \in Seq(Byte) : FunctionsRight(s, t)
<1> SUFFICES ASSUME NEW s \in Seq(Byte), NEW t \in Seq(Byte) PROVE FunctionsRight(s, t)
  OBVIOUS
<1>0. PICK mem : mem = Memory(s, t)
  OBVIOUS
<1>1. PICK m \in Nat :
        /\ m = 2 * Len(s) + 2 * Len(t) + 5
        /\ mem \in Seq(Octets) /\ DOMAIN mem = 1 .. m /\ Len(mem) = m
        /\ Stands(mem, 1, Ended(t)) /\ Stands(mem, Len(t) + 2, Ended(s))
  BY <1>0, MemoryIs
<1>2. PICK a \in Nat, b \in Nat : a = Len(t) /\ b = Len(s)
  OBVIOUS
<1>3. PICK src \in Nat \ {0}, dst \in Nat \ {0} :
        src = Len(t) + 2 /\ dst = src + Len(s) + 1 /\ src = a + 2 /\ dst = a + b + 3
  <2>1. a + 2 \in Nat \ {0} /\ a + b + 3 \in Nat \ {0} /\ a + 2 + b + 1 = a + b + 3
    OBVIOUS
  <2> QED
    BY <1>2, <2>1
<1>4. m \in Nat /\ m = 2 * b + 2 * a + 5 /\ DOMAIN mem = 1 .. m /\ Len(mem) = m
  BY <1>1, <1>2
<1>5. t \in Seq(Nat) /\ s \in Seq(Nat) /\ t \in Seq(Octets) /\ s \in Seq(Octets)
  BY ByteOctets, NoNul, SeqMonotonic
<1>6. Stands(mem, 1, t) /\ mem[1 + Len(t)] = 0
  BY <1>1, <1>5, EndedStands
<1>7. Stands(mem, src, s) /\ mem[src + Len(s)] = 0
  <2>1. Stands(mem, src, Ended(s))
    BY <1>1, <1>3
  <2> QED
    BY <1>5, <2>1, EndedStands
<1>8. strlen(mem, 1) = Len(t) /\ strlen(mem, src) = Len(s)
  <2>1. 1 + Len(t) <= Len(mem) /\ src + Len(s) <= Len(mem)
    BY <1>2, <1>3, <1>4
  <2> QED
    BY <1>4, <1>6, <1>7, <2>1, StrlenAt
<1>9. CopiesRight(mem, src, dst, s, t)
  <2>1. strcpy(mem, dst, src).mem = With(mem, dst, Ended(s))
    <3>1. src + Len(s) <= m /\ dst + Len(s) <= m
      BY <1>2, <1>3, <1>4
    <3> QED
      BY <1>4, <1>7, <3>1, StpcpyIs
  <2>2. strcat(With(mem, dst, Ended(s)), dst, 1).mem = With(mem, dst, s \o Ended(t))
    <3>1. 1 + Len(t) < dst /\ dst + Len(s) + Len(t) <= m /\ 1 \in Nat \ {0}
      BY <1>2, <1>3, <1>4
    <3> QED
      BY <1>4, <1>6, <3>1, StrcatIs
  <2>3. memcpy(mem, dst, 1, src + Len(s)).mem = With(mem, dst, SubSeq(mem, 1, src + Len(s)))
    <3>1. PICK n \in Nat : n = src + Len(s) /\ n <= m
      BY <1>2, <1>3, <1>4
    <3>2. PICK what : what = SubSeq(mem, 1, n)
      OBVIOUS
    <3>3. Len(what) = n /\ \A k \in 1 .. n : what[k] = mem[k]
      BY <1>4, <3>1, <3>2
    <3>4. Stands(mem, 1, what)
      <4>1. \A k \in 1 .. n : 1 + k - 1 = k
        OBVIOUS
      <4> QED
        BY <3>3, <4>1 DEF Stands
    <3>5. mempcpy(mem, dst, 1, n).mem = With(mem, dst, what)
      <4>1. Len(what) \in Nat /\ 1 \in Nat
        BY <3>3
      <4>2. mempcpy(mem, dst, 1, Len(what)).mem = With(mem, dst, what)
        BY <3>4, <4>1, CopyIs
      <4> QED
        BY <3>3, <4>2
    <3>6. memcpy(mem, dst, 1, n).mem = mempcpy(mem, dst, 1, n).mem
      BY DEF memcpy, mempcpy
    <3> QED
      BY <3>1, <3>2, <3>5, <3>6
  <2>4. strrev(mem, src) = With(mem, src, Reverse(s))
    BY <1>7, <1>8, StrrevIs
  <2> QED
    BY <2>1, <2>2, <2>3, <2>4, Zenon DEF CopiesRight
<1>10. PaddingRight(mem, src, dst, s)
  <2>1. \A n \in 0 .. Len(s) + 2 : n \in Nat
    BY <1>2
  <2>2. \A n \in Nat : FillRight(mem, src, dst, s, n)
    BY <1>4, <1>7, FillIs
  <2> QED
    BY <2>1, <2>2, Zenon DEF PaddingRight
<1>11. ComparisonsRight(mem, src, s, t)
  <2>1. PICK n \in Nat : n = Shorter(s, t) /\ n \in 0 .. Len(s) /\ n \in 0 .. Len(t) /\ n <= a /\ n <= b
    BY <1>2 DEF Shorter
  <2>2. Compares(strcmp(mem, 1, src), Ended(t), Ended(s), Signed)
    <3>1. PICK size \in Nat : size = Len(mem) + 1 - src /\ Len(t) < size /\ Len(s) < size
      <4>1. m + 1 - src \in Nat /\ a < m + 1 - src /\ b < m + 1 - src
        BY <1>3, <1>4
      <4> QED
        BY <1>2, <1>4, <4>1
    <3>2. strcmp(mem, 1, src) = strncmp(mem, 1, src, size)
      <4>1. ~(1 > src)
        BY <1>3
      <4> QED
        BY <3>1, <4>1, Zenon DEF strcmp
    <3>3. Stands(mem, 1, Ended(t)) /\ Stands(mem, src, Ended(s)) /\ 1 \in Nat /\ src \in Nat
      BY <1>1, <1>3
    <3>4. Compares(strncmp(mem, 1, src, size), Ended(t), Ended(s), Signed)
      BY <3>1, <3>3, StrcmpRight
    <3> QED
      BY <3>2, <3>4, Zenon
  <2>3. Compares(strncmp(mem, 1, src, n), SubSeq(t, 1, n), SubSeq(s, 1, n), Signed)
    <3>1. PICK u : u = SubSeq(t, 1, n)
      OBVIOUS
    <3>2. PICK v : v = SubSeq(s, 1, n)
      OBVIOUS
    <3>3. u \in Seq(Byte) /\ Len(u) = n /\ \A i \in 1 .. n : u[i] = t[i]
      BY <2>1, <3>1, FirstOf
    <3>4. v \in Seq(Byte) /\ Len(v) = n /\ \A i \in 1 .. n : v[i] = s[i]
      BY <2>1, <3>2, FirstOf
    <3>5. u \in Seq(Octets) /\ v \in Seq(Octets)
      BY <3>3, <3>4, ByteOctets, SeqMonotonic
    <3>6. Stands(mem, 1, u) /\ Stands(mem, src, v)
      <4>1. \A i \in 1 .. n : i \in 1 .. Len(t) /\ i \in 1 .. Len(s)
        BY <1>2, <2>1
      <4> QED
        BY <1>6, <1>7, <3>3, <3>4, <4>1 DEF Stands
    <3>7. \A i \in 1 .. Len(u) : u[i] # 0
      <4> SUFFICES ASSUME NEW i \in 1 .. Len(u) PROVE u[i] # 0
        OBVIOUS
      <4>1. u[i] \in Byte
        BY <3>3
      <4> QED
        BY <4>1, NoNul
    <3>8. Compares(strncmp(mem, 1, src, Len(u)), u, v, Signed)
      <4>1. Len(u) = Len(v) /\ 1 \in Nat /\ src \in Nat
        BY <3>3, <3>4
      <4> QED
        BY <3>5, <3>6, <3>7, <4>1, StrncmpRight
    <3> QED
      BY <3>1, <3>2, <3>3, <3>8
  <2>4. Compares(memcmp(mem, 1, src, n + 1), SubSeq(mem, 1, n + 1), SubSeq(mem, src, src + n), Unsigned)
    <3>1. PICK u : u = SubSeq(mem, 1, n + 1)
      OBVIOUS
    <3>2. PICK v : v = SubSeq(mem, src, src + n)
      OBVIOUS
    <3>3. u \in Seq(Octets) /\ Len(u) = n + 1 /\ \A k \in 1 .. n + 1 : u[k] = mem[k]
      <4>1. n + 1 \in Nat /\ n + 1 <= m /\ \A i \in 1 .. n + 1 : 1 + i - 1 = i
        BY <1>4, <2>1
      <4>2. Len(u) = n + 1 /\ \A i \in 1 .. n + 1 : u[i] = mem[i]
        BY <1>4, <3>1, <4>1
      <4>3. u \in Seq(Octets)
        BY <1>1, <1>4, <3>1, <4>1
      <4> QED
        BY <4>2, <4>3, Zenon
    <3>4. v \in Seq(Octets) /\ Len(v) = n + 1 /\ \A k \in 1 .. n + 1 : v[k] = mem[src + k - 1]
      <4>1. \A i \in src .. src + n : mem[i] \in Octets
        <5>1. \A i \in src .. src + n : i \in 1 .. m
          BY <1>3, <1>4, <2>1
        <5> QED
          BY <1>1, <5>1
      <4>2. src \in Int /\ src + n \in Int /\ src <= src + n /\ (src + n) - src + 1 = n + 1
        BY <2>1
      <4> QED
        BY <3>2, <4>1, <4>2, SubSeqProperties
    <3>5. Stands(mem, 1, u) /\ Stands(mem, src, v)
      <4>1. \A k \in 1 .. n + 1 : 1 + k - 1 = k
        BY <2>1
      <4> QED
        BY <3>3, <3>4, <4>1 DEF Stands
    <3>6. Compares(memcmp(mem, 1, src, Len(u)), u, v, Unsigned)
      <4>1. Len(u) = Len(v) /\ 1 \in Nat /\ src \in Nat
        BY <3>3, <3>4
      <4> QED
        BY <3>3, <3>4, <3>5, <4>1, MemcmpRight
    <3> QED
      BY <3>1, <3>2, <3>3, <3>6
  <2> QED
    BY <2>1, <2>2, <2>3, <2>4, Zenon DEF ComparisonsRight
<1> QED
  BY <1>0, <1>3, <1>8, <1>9, <1>10, <1>11, Zenon DEF FunctionsRight

(* The strings like a string are strings. *)
LEMMA RelativesAre ==
  ASSUME NEW s \in Seq(Byte)
  PROVE  Relatives(s) \subseteq Seq(Byte)
<1>1. 200 \in Byte /\ 1 \in Byte
  BY DEF Byte
<1>2. Append(s, 200) \in Seq(Byte) /\ Append(s, 1) \in Seq(Byte)
  BY <1>1
<1>3. Reverse(s) \in Seq(Byte)
  <2>1. \A i \in 1 .. Len(s) : s[(Len(s) - i) + 1] \in Byte
    OBVIOUS
  <2> QED
    BY <2>1 DEF Reverse
<1>4. \A k \in 0 .. Len(s) : SubSeq(s, 1, k) \in Seq(Byte)
  BY FirstOf
<1> QED
  BY <1>2, <1>3, <1>4, Zenon DEF Relatives

(* The functions of string.h are right for the strings that are printed    *)
(* and strings like them (string.c:7-167). StringsRight stops at four      *)
(* octets for TLC's sake; StringFunctions says it of strings of any length. *)
THEOREM StringsAreRight ==
  Spec => []StringsRight
<1>1. IInv => StringsRight
  <2>1. ASSUME IInv, NEW t \in Relatives(str) PROVE FunctionsRight(str, t)
    <3>1. str \in Seq(Byte)
      BY <2>1 DEF IInv, TypeOK
    <3> QED
      BY <3>1, RelativesAre, StringFunctions
  <2> QED
    BY <2>1, Zenon DEF StringsRight
<1> QED
  BY <1>1, Invariance, PTL
=============================================================================
