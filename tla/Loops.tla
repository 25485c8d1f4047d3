------------------------------- MODULE Loops -------------------------------
(***************************************************************************)
(* Counted loops of the code, as functions: a body says for every turn what*)
(* it makes of what the turn before has left.                              *)
(***************************************************************************)
EXTENDS Integers

(* What is left after n turns. *)
Loop(body, start, n) ==
  LET after[k \in 0 .. n] == IF k = 0 THEN start ELSE body[k][after[k - 1]]
  IN after[n]

(* Every turn multiplies by b: its powers. *)
Times(b, n) == [k \in 1 .. n |-> [v \in Nat |-> v * b]]

Power(b, n) == Loop(Times(b, n), 1, n)
=============================================================================
