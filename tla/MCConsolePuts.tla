--------------------------- MODULE MCConsolePuts ---------------------------
(***************************************************************************)
(* Strings for TLC: up to four characters of one, two and four octets and  *)
(* of malformed ones, so that every fill of the small buffer meets every   *)
(* character, and all strings of the octets at the edges of the UTF-8      *)
(* ranges; numbers of 16 bits.                                             *)
(***************************************************************************)
EXTENDS ConsolePuts

Characters ==
  { <<97>>, <<10>>, <<195, 169>>, <<226, 130, 172>>, <<240, 159, 152, 128>>,
    <<226>>, <<128>> }

Pairs == { c \o d : c, d \in Characters }
Fours == { p \o q : p, q \in Pairs }

Edges == {65, 127, 128, 143, 144, 159, 160, 191, 193, 194, 224, 237, 240, 244}

Sequences4 == { <<lead, a, b, c>> : lead \in {240, 244, 245, 255}, a \in Edges, b \in {128, 191}, c \in {127, 191} }

Lead3 == { <<lead, a, b>> : lead \in {194, 224, 225, 237, 239}, a \in Edges, b \in Edges }

(* U+1D800, a character of Sutton SignWriting. *)
SignWriting == <<240, 157, 160, 128>>

SomeStrings ==
  {<<>>} \cup Pairs \cup Fours \cup Sequences4 \cup Lead3
    \cup {SignWriting}

(* The edges of every base and of the sizes, and zero. *)
SomeNumbers ==
  {0, 1, 9, 10, 15, 16, 35, 36, 64, 99, 100, 255, 256, 512, 999, 1000, 1296, 4095, 4096, 4104,
   6656, 9999, 10000, 32768, 36864, 65528, 65535}

NoNumbers == {}

SignWritingStrings == {SignWriting} \cup Lead3
=============================================================================
