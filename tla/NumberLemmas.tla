---------------------------- MODULE NumberLemmas ----------------------------
(***************************************************************************)
(* Facts about numbers that the models rest on: division with remainder    *)
(* (aligning, masking and latching are all of the form x - x % m), the     *)
(* induction that a least counterexample gives, and with it counted loops  *)
(* and powers.                                                             *)
(***************************************************************************)
EXTENDS Loops, WellFoundedInduction, TLAPS

-----------------------------------------------------------------------------
(* Division with remainder *)

(* Quotient and remainder are natural numbers that give the dividend back; *)
(* the remainder is below the divisor. *)
LEMMA DivModExists ==
  ASSUME NEW n \in Nat, NEW g \in Nat, g > 0
  PROVE  /\ n \div g \in Nat
         /\ n % g \in 0 .. g - 1
         /\ n = g * (n \div g) + (n % g)
OBVIOUS

(* Multiplication by a natural number keeps distance. *)
LEMMA TimesMonotone ==
  ASSUME NEW g \in Nat, NEW a \in Nat, NEW b \in Nat, a < b
  PROVE  g * a + g <= g * b
<1>1. PICK c \in Nat : b = a + 1 + c
  OBVIOUS
<1>2. g * b = g * a + g + g * c
  BY <1>1
<1>3. g * c \in Nat
  OBVIOUS
<1> QED
  BY <1>2, <1>3

(* There is no other quotient and remainder. *)
LEMMA DivModUnique ==
  ASSUME NEW g \in Nat, NEW q \in Nat, NEW r \in Nat, r < g
  PROVE  (g * q + r) % g = r /\ (g * q + r) \div g = q
<1> DEFINE n == g * q + r
<1>1. n \in Nat
  OBVIOUS
<1>2. PICK p \in Nat, s \in 0 .. g - 1 : n = g * p + s /\ p = n \div g /\ s = n % g
  BY <1>1, DivModExists
<1>3. ~(q < p)
  BY <1>2, TimesMonotone
<1>4. ~(p < q)
  BY <1>2, TimesMonotone
<1> QED
  BY <1>2, <1>3, <1>4

(* Adding less than g to a multiple of g leaves exactly that remainder. *)
LEMMA ModOfSum ==
  ASSUME NEW a \in Nat, NEW g \in Nat, NEW f \in Nat, a % g = 0, f < g
  PROVE  (a + f) % g = f
<1>1. PICK q \in Nat : a = g * q
  BY DivModExists
<1> QED
  BY <1>1, DivModUnique

(* A remainder by a multiple of g keeps the remainder by g. *)
LEMMA ModOfMod ==
  ASSUME NEW n \in Nat, NEW g \in Nat, NEW l \in Nat, g > 0, l > 0, l % g = 0
  PROVE  (n % l) % g = n % g
<1>1. PICK m \in Nat : l = g * m
  BY DivModExists
<1>2. PICK q \in Nat, r \in 0 .. l - 1 : n = l * q + r /\ r = n % l
  BY DivModExists
<1>3. PICK a \in Nat, b \in 0 .. g - 1 : r = g * a + b /\ b = r % g
  BY DivModExists
<1>4. PICK c \in Nat : c = m * q
  OBVIOUS
<1>5. n = g * (c + a) + b
  <2>1. l * q = g * c
    BY <1>1, <1>4
  <2>2. g * (c + a) = g * c + g * a
    OBVIOUS
  <2>3. n = l * q + r
    BY <1>2
  <2>4. r = g * a + b
    BY <1>3
  <2> QED
    BY <2>1, <2>2, <2>3, <2>4
<1>6. c + a \in Nat
  OBVIOUS
<1>7. n % g = b
  BY <1>5, <1>6, DivModUnique
<1> QED
  BY <1>2, <1>3, <1>7

(* A multiple of g below a multiple of g has room for g. *)
LEMMA RoomBelowMultiple ==
  ASSUME NEW x \in Nat, NEW g \in Nat, NEW l \in Nat, g > 0,
         x % g = 0, l % g = 0, x < l
  PROVE  x + g <= l
<1>1. PICK a \in Nat : x = g * a
  BY DivModExists
<1>2. PICK m \in Nat : l = g * m
  BY DivModExists
<1>3. a < m
  <2>1. CASE m < a
    BY <2>1, <1>1, <1>2, TimesMonotone
  <2>2. CASE m = a
    BY <2>2, <1>1, <1>2
  <2> QED
    BY <2>1, <2>2
<1> QED
  BY <1>1, <1>2, <1>3, TimesMonotone

(* What is left of v below l, with the bits below g replaced by f, is      *)
(* below l again. *)
LEMMA ReplacedBitsBound ==
  ASSUME NEW v \in Nat, NEW g \in Nat, NEW l \in Nat, NEW f \in Nat,
         g > 0, l > 0, l % g = 0, f < g
  PROVE  (v % l) - (v % g) + f \in 0 .. l - 1
<1>1. PICK x \in 0 .. l - 1 : x = v % l
  BY DivModExists
<1>2. PICK y \in 0 .. g - 1 : y = v % g
  BY DivModExists
<1>3. y = x % g
  BY <1>1, <1>2, ModOfMod
<1>4. PICK a \in Nat : x = g * a + y
  <2>1. x \in Nat
    OBVIOUS
  <2>2. x \div g \in Nat /\ x = g * (x \div g) + (x % g)
    BY <2>1, DivModExists
  <2> QED
    BY <1>3, <2>2
<1>5. PICK z \in Nat : z = g * a
  OBVIOUS
<1>6. z % g = 0
  <2>1. z = g * a + 0
    BY <1>5
  <2> QED
    BY <2>1, DivModUnique
<1>7. x - y = z
  <2>1. x = z + y
    BY <1>4, <1>5
  <2> QED
    BY <2>1
<1>8. z < l
  <2>1. x < l /\ y >= 0
    BY <1>1, <1>2
  <2> QED
    BY <1>7, <2>1
<1>9. z + g <= l
  BY <1>6, <1>8, RoomBelowMultiple
<1>10. z + f \in 0 .. l - 1
  BY <1>9
<1> QED
  BY <1>1, <1>2, <1>7, <1>10

(* A multiple of a multiple of g is a multiple of g. *)
LEMMA ModTransitive ==
  ASSUME NEW n \in Nat, NEW g \in Nat, NEW l \in Nat, g > 0, l > 0, l % g = 0, n % l = 0
  PROVE  n % g = 0
<1>1. n % g = 0 % g
  <2>1. (n % l) % g = n % g
    BY ModOfMod
  <2> QED
    BY <2>1
<1>2. 0 % g = 0
  <2>1. g * 0 + 0 = 0
    OBVIOUS
  <2> QED
    BY <2>1, DivModUnique
<1> QED
  BY <1>1, <1>2

(* All ones: the number below a multiple of l is l - 1 modulo l. *)
LEMMA OnesMod ==
  ASSUME NEW w \in Nat, NEW l \in Nat, w > 0, l > 0, w % l = 0
  PROVE  (w - 1) % l = l - 1
<1>1. PICK q \in Nat : w = l * q
  BY DivModExists
<1>2. q # 0
  BY <1>1
<1>3. PICK p \in Nat : q = p + 1
  BY <1>2
<1>4. w - 1 = l * p + (l - 1)
  BY <1>1, <1>3
<1> QED
  BY <1>4, DivModUnique

(* The difference of two multiples of g is one. *)
LEMMA ModOfDifference ==
  ASSUME NEW l \in Nat, NEW a \in Nat, NEW g \in Nat, g > 0, l % g = 0, a % g = 0, a <= l
  PROVE  (l - a) % g = 0
<1>1. PICK p \in Nat : l = g * p
  BY DivModExists
<1>2. PICK q \in Nat : a = g * q
  BY DivModExists
<1>3. q <= p
  <2> SUFFICES ASSUME p < q PROVE FALSE
    OBVIOUS
  <2>1. g * p + g <= g * q
    BY TimesMonotone
  <2> QED
    BY <1>1, <1>2, <2>1
<1>4. PICK c \in Nat : p = q + c
  BY <1>3
<1>5. l - a = g * c + 0
  BY <1>1, <1>2, <1>4
<1> QED
  BY <1>5, DivModUnique

(* A divisor is not above what it divides. *)
LEMMA DivisorBelow ==
  ASSUME NEW l \in Nat, NEW g \in Nat, g > 0, l > 0, l % g = 0
  PROVE  g <= l
<1>1. PICK q \in Nat : l = g * q
  BY DivModExists
<1>2. 0 < q
  BY <1>1
<1>3. g * 0 + g <= g * q
  BY <1>2, TimesMonotone
<1> QED
  BY <1>1, <1>3

(* A number below the divisor is its own remainder. *)
LEMMA ModBelow ==
  ASSUME NEW n \in Nat, NEW w \in Nat, n < w
  PROVE  n % w = n
<1>1. n = w * 0 + n
  OBVIOUS
<1> QED
  BY <1>1, DivModUnique

-----------------------------------------------------------------------------
(* Induction and loops *)

(* A set of numbers that is not empty has a least one. *)
LEMMA LeastExists ==
  ASSUME NEW S, S \subseteq Nat, S # {}
  PROVE  \E x \in S : \A y \in S : x <= y
<1>1. PICK x \in S : \A y \in S : ~(<<y, x>> \in OpToRel(<, Nat))
  BY NatLessThanWellFounded, WFMin
<1>2. \A y \in S : ~(y < x)
  BY <1>1 DEF OpToRel
<1> QED
  BY <1>2

(* A set of numbers with 0, and with every number's successor up to n,     *)
(* holds all numbers up to n. *)
LEMMA UpTo ==
  ASSUME NEW n \in Nat, NEW P, 0 \in P, \A k \in 0 .. n - 1 : k \in P => k + 1 \in P
  PROVE  \A k \in 0 .. n : k \in P
<1> SUFFICES ASSUME (0 .. n) \ P # {} PROVE FALSE
  OBVIOUS
<1>1. PICK x \in (0 .. n) \ P : \A y \in (0 .. n) \ P : x <= y
  <2>1. (0 .. n) \ P \subseteq Nat
    OBVIOUS
  <2> QED
    BY <2>1, LeastExists
<1>2. x # 0 /\ x - 1 \in 0 .. n - 1
  BY <1>1
<1>3. x - 1 \in P
  BY <1>1, <1>2
<1>4. x - 1 + 1 \in P /\ x - 1 + 1 = x
  BY <1>2, <1>3
<1> QED
  BY <1>1, <1>4

(* What the turns of a loop have left, as a function. *)
Turns(f, body, start, n) ==
  f = [k \in 0 .. n |-> IF k = 0 THEN start ELSE body[k][f[k - 1]]]

IsFunction(f, n) == f = [k \in 0 .. n |-> f[k]]

(* It is determined turn by turn. *)
LEMMA TurnsOf ==
  ASSUME NEW n \in Nat, NEW body, NEW start, NEW f
  PROVE  Turns(f, body, start, n) <=>
           /\ IsFunction(f, n)
           /\ f[0] = start
           /\ \A k \in 1 .. n : f[k] = body[k][f[k - 1]]
<1> DEFINE T(k) == IF k = 0 THEN start ELSE body[k][f[k - 1]]
<1>1. Turns(f, body, start, n) <=> f = [k \in 0 .. n |-> T(k)]
  BY DEF Turns
<1>2. f = [k \in 0 .. n |-> T(k)] <=> IsFunction(f, n) /\ \A k \in 0 .. n : f[k] = T(k)
  <2> HIDE DEF T
  <2> QED
    BY DEF IsFunction
<1>3. (\A k \in 0 .. n : f[k] = T(k)) <=> f[0] = start /\ \A k \in 1 .. n : f[k] = body[k][f[k - 1]]
  OBVIOUS
<1> HIDE DEF T
<1> QED
  BY <1>1, <1>2, <1>3

(* Such a function exists. *)
LEMMA TurnsExist ==
  ASSUME NEW n \in Nat, NEW body, NEW start
  PROVE  \E f : Turns(f, body, start, n)
<1> DEFINE P == {m \in 0 .. n : \E f : Turns(f, body, start, m)}
<1>1. 0 \in P
  <2>1. PICK f : f = [k \in 0 .. 0 |-> start]
    OBVIOUS
  <2>2. IsFunction(f, 0) /\ f[0] = start
    BY <2>1 DEF IsFunction
  <2>3. Turns(f, body, start, 0)
    BY <2>2, TurnsOf
  <2> QED
    BY <2>3
<1>2. ASSUME NEW m \in 0 .. n - 1, m \in P
      PROVE  m + 1 \in P
  <2>1. PICK f : Turns(f, body, start, m)
    BY <1>2
  <2>2. f[0] = start /\ \A k \in 1 .. m : f[k] = body[k][f[k - 1]]
    BY <2>1, TurnsOf
  <2>. PICK g : g = [k \in 0 .. m + 1 |-> IF k = m + 1 THEN body[k][f[m]] ELSE f[k]]
    OBVIOUS
  <2>3. IsFunction(g, m + 1)
    BY DEF IsFunction
  <2>4. g[m + 1] = body[m + 1][f[m]] /\ \A k \in 0 .. m : g[k] = f[k]
    OBVIOUS
  <2>5. \A k \in 1 .. m + 1 : g[k] = body[k][g[k - 1]]
    <3> SUFFICES ASSUME NEW k \in 1 .. m + 1 PROVE g[k] = body[k][g[k - 1]]
      OBVIOUS
    <3>1. CASE k = m + 1
      BY <3>1, <2>4
    <3>2. CASE k # m + 1
      BY <3>2, <2>2, <2>4
    <3> QED
      BY <3>1, <3>2
  <2>6. g[0] = start
    BY <2>2, <2>4
  <2>7. Turns(g, body, start, m + 1)
    BY m + 1 \in Nat, <2>3, <2>5, <2>6, TurnsOf
  <2> QED
    BY <2>7
<1>3. n \in P
  <2> HIDE DEF P
  <2> QED
    BY <1>1, <1>2, UpTo
<1> QED
  BY <1>3

(* The result of a loop is reached turn by turn. *)
LEMMA LoopTurns ==
  ASSUME NEW n \in Nat, NEW body, NEW start
  PROVE  \E f : /\ f[0] = start
                /\ \A k \in 1 .. n : f[k] = body[k][f[k - 1]]
                /\ Loop(body, start, n) = f[n]
<1>1. PICK f : f = CHOOSE g : Turns(g, body, start, n)
  OBVIOUS
<1>2. Turns(f, body, start, n)
  BY <1>1, TurnsExist, Zenon
<1>3. Loop(body, start, n) = f[n]
  BY <1>1, Zenon DEF Loop, Turns
<1> QED
  BY <1>2, <1>3, TurnsOf

(* A loop keeps what every turn keeps. *)
LEMMA LoopInvariant ==
  ASSUME NEW n \in Nat, NEW body, NEW start, NEW I,
         start \in I[0],
         \A k \in 1 .. n : \A s \in I[k - 1] : body[k][s] \in I[k]
  PROVE  Loop(body, start, n) \in I[n]
<1>1. PICK f : /\ f[0] = start
               /\ \A k \in 1 .. n : f[k] = body[k][f[k - 1]]
               /\ Loop(body, start, n) = f[n]
  BY LoopTurns
<1> DEFINE P == {k \in 0 .. n : f[k] \in I[k]}
<1>2. 0 \in P
  BY <1>1
<1>3. \A k \in 0 .. n - 1 : k \in P => k + 1 \in P
  BY <1>1
<1>4. n \in P
  <2> HIDE DEF P
  <2> QED
    BY <1>2, <1>3, UpTo
<1> QED
  BY <1>1, <1>4

(* In particular it stays in a set that no turn leaves. *)
LEMMA LoopType ==
  ASSUME NEW n \in Nat, NEW body, NEW start, NEW S,
         start \in S,
         \A k \in 1 .. n : \A s \in S : body[k][s] \in S
  PROVE  Loop(body, start, n) \in S
<1>1. PICK I : I = [k \in 0 .. n |-> S]
  OBVIOUS
<1>2. \A k \in 0 .. n : I[k] = S
  BY <1>1
<1>3. start \in I[0] /\ \A k \in 1 .. n : \A s \in I[k - 1] : body[k][s] \in I[k]
  <2>1. \A k \in 1 .. n : I[k - 1] = S /\ I[k] = S
    BY <1>2
  <2> QED
    BY <1>2, <2>1
<1>4. Loop(body, start, n) \in I[n]
  BY <1>3, LoopInvariant
<1> QED
  BY <1>2, <1>4

(* No turns leave the start. *)
LEMMA LoopStart ==
  ASSUME NEW body, NEW start
  PROVE  Loop(body, start, 0) = start
BY LoopTurns

(* One more turn takes what the turns before it have left; loops with the  *)
(* same turns leave the same. *)
LEMMA LoopNext ==
  ASSUME NEW n \in Nat, NEW body, NEW other, NEW start,
         \A k \in 1 .. n : other[k] = body[k]
  PROVE  Loop(body, start, n + 1) = body[n + 1][Loop(other, start, n)]
<1>1. PICK f : /\ f[0] = start
               /\ \A k \in 1 .. n + 1 : f[k] = body[k][f[k - 1]]
               /\ Loop(body, start, n + 1) = f[n + 1]
  BY LoopTurns
<1>2. PICK g : /\ g[0] = start
               /\ \A k \in 1 .. n : g[k] = other[k][g[k - 1]]
               /\ Loop(other, start, n) = g[n]
  BY LoopTurns
<1> DEFINE P == {k \in 0 .. n : f[k] = g[k]}
<1>3. 0 \in P
  BY <1>1, <1>2
<1>4. \A k \in 0 .. n - 1 : k \in P => k + 1 \in P
  BY <1>1, <1>2
<1>5. n \in P
  <2> HIDE DEF P
  <2> QED
    BY <1>3, <1>4, UpTo
<1>6. f[n] = g[n] /\ n + 1 \in 1 .. n + 1 /\ n + 1 - 1 = n
  BY <1>5
<1> QED
  BY <1>1, <1>2, <1>6

-----------------------------------------------------------------------------
(* Powers *)

(* The 0th power is 1. *)
LEMMA PowerZero ==
  ASSUME NEW b \in Nat
  PROVE  Power(b, 0) = 1
BY LoopStart, Zenon DEF Power

(* The next power is b times as large. *)
LEMMA PowerNext ==
  ASSUME NEW b \in Nat \ {0}, NEW n \in Nat
  PROVE  Power(b, n) \in Nat \ {0} /\ Power(b, n + 1) = Power(b, n) * b
<1>1. \A m \in Nat : Power(b, m) = Loop(Times(b, m), 1, m)
  BY DEF Power
<1>2. \A m \in Nat : \A k \in 1 .. m : \A v \in Nat : Times(b, m)[k][v] = v * b
  BY DEF Times
<1>3. \A k \in 1 .. n : Times(b, n)[k] = Times(b, n + 1)[k]
  BY DEF Times
<1>4. \A k \in 1 .. n : \A v \in Nat \ {0} : Times(b, n)[k][v] \in Nat \ {0}
  <2>1. \A v \in Nat \ {0} : v * b \in Nat \ {0}
    OBVIOUS
  <2> QED
    BY <1>2, <2>1
<1>5. 1 \in Nat \ {0}
  OBVIOUS
<1>6. Loop(Times(b, n), 1, n) \in Nat \ {0}
  BY <1>4, <1>5, LoopType
<1>7. Loop(Times(b, n + 1), 1, n + 1) = Times(b, n + 1)[n + 1][Loop(Times(b, n), 1, n)]
  BY <1>3, LoopNext
<1> QED
  BY <1>1, <1>2, <1>6, <1>7

(* A higher power is a larger one. *)
LEMMA PowerGrows ==
  ASSUME NEW b \in Nat, b > 1, NEW m \in Nat, NEW n \in Nat, m < n
  PROVE  Power(b, m) < Power(b, n)
<1> DEFINE P == {k \in 0 .. n - m - 1 : Power(b, m) < Power(b, m + 1 + k)}
<1>1. \A k \in Nat : Power(b, k) \in Nat \ {0} /\ Power(b, k + 1) > Power(b, k)
  <2> SUFFICES ASSUME NEW k \in Nat
               PROVE  Power(b, k) \in Nat \ {0} /\ Power(b, k + 1) > Power(b, k)
    OBVIOUS
  <2>1. PICK v \in Nat \ {0} : v = Power(b, k) /\ Power(b, k + 1) = v * b
    BY b \in Nat \ {0}, PowerNext
  <2>2. v * b > v
    BY <2>1
  <2> QED
    BY <2>1, <2>2
<1>2. 0 \in P
  BY <1>1
<1>3. \A k \in 0 .. n - m - 2 : k \in P => k + 1 \in P
  <2> SUFFICES ASSUME NEW k \in 0 .. n - m - 2, k \in P PROVE k + 1 \in P
    OBVIOUS
  <2>1. m + 1 + k \in Nat /\ m \in Nat /\ (m + 1 + k) + 1 = m + 1 + (k + 1) /\ k + 1 \in 0 .. n - m - 1
    OBVIOUS
  <2>2. /\ Power(b, m + 1 + (k + 1)) > Power(b, m + 1 + k)
        /\ Power(b, m + 1 + (k + 1)) \in Nat /\ Power(b, m + 1 + k) \in Nat /\ Power(b, m) \in Nat
    BY <1>1, <2>1
  <2>3. Power(b, m) < Power(b, m + 1 + k)
    OBVIOUS
  <2>4. Power(b, m) < Power(b, m + 1 + (k + 1))
    BY <2>2, <2>3
  <2> QED
    BY <2>1, <2>4
<1>4. n - m - 1 \in P
  <2> HIDE DEF P
  <2>1. n - m - 1 \in Nat /\ n - m - 1 - 1 = n - m - 2
    OBVIOUS
  <2> QED
    BY <1>2, <1>3, <2>1, UpTo
<1>5. m + 1 + (n - m - 1) = n
  OBVIOUS
<1> QED
  BY <1>4, <1>5

(* Powers multiply by adding their exponents. *)
LEMMA PowerSum ==
  ASSUME NEW b \in Nat \ {0}, NEW m \in Nat, NEW n \in Nat
  PROVE  Power(b, m + n) = Power(b, m) * Power(b, n)
<1> DEFINE P == {k \in 0 .. n : Power(b, m + k) = Power(b, m) * Power(b, k)}
<1>1. 0 \in P
  BY PowerZero, PowerNext
<1>2. \A k \in 0 .. n - 1 : k \in P => k + 1 \in P
  <2> SUFFICES ASSUME NEW k \in 0 .. n - 1, k \in P PROVE k + 1 \in P
    OBVIOUS
  <2>1. PICK p \in Nat : p = Power(b, m)
    BY PowerNext
  <2>2. PICK q \in Nat : q = Power(b, k) /\ Power(b, k + 1) = q * b
    BY PowerNext
  <2>3. Power(b, m + k) = p * q
    BY <2>1, <2>2
  <2>4. m + (k + 1) = (m + k) + 1 /\ m + k \in Nat
    OBVIOUS
  <2>5. Power(b, m + (k + 1)) = (p * q) * b
    BY <2>3, <2>4, PowerNext
  <2>6. (p * q) * b = p * (q * b)
    OBVIOUS
  <2> QED
    BY <2>1, <2>2, <2>5, <2>6
<1>3. n \in P
  <2> HIDE DEF P
  <2> QED
    BY <1>1, <1>2, UpTo
<1> QED
  BY <1>3

(* Powers of powers multiply exponents. *)
LEMMA PowerProduct ==
  ASSUME NEW b \in Nat \ {0}, NEW m \in Nat, NEW n \in Nat
  PROVE  Power(Power(b, m), n) = Power(b, m * n)
<1> DEFINE P == {k \in 0 .. n : Power(Power(b, m), k) = Power(b, m * k)}
<1>0. PICK c \in Nat \ {0} : c = Power(b, m)
  BY PowerNext
<1>1. 0 \in P
  <2>1. m * 0 = 0 /\ 0 \in 0 .. n
    OBVIOUS
  <2>2. Power(c, 0) = 1 /\ Power(b, 0) = 1
    BY PowerZero
  <2> QED
    BY <1>0, <2>1, <2>2
<1>2. \A k \in 0 .. n - 1 : k \in P => k + 1 \in P
  <2> SUFFICES ASSUME NEW k \in 0 .. n - 1, k \in P PROVE k + 1 \in P
    OBVIOUS
  <2>1. m * (k + 1) = m * k + m /\ m * k \in Nat
    OBVIOUS
  <2>2. Power(b, m * k + m) = Power(b, m * k) * c
    BY <1>0, <2>1, PowerSum
  <2>3. Power(c, k + 1) = Power(c, k) * c
    BY PowerNext
  <2>4. Power(c, k) = Power(b, m * k)
    BY <1>0
  <2>5. Power(c, k + 1) = Power(b, m * (k + 1))
    BY <2>1, <2>2, <2>3, <2>4
  <2> QED
    BY <1>0, <2>5
<1>3. n \in P
  <2> HIDE DEF P
  <2> QED
    BY <1>1, <1>2, UpTo
<1> QED
  BY <1>3
=============================================================================
