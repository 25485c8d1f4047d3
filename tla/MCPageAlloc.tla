---------------------------- MODULE MCPageAlloc ----------------------------
(* Memory and limits for TLC: a hole in memory, and page 0 left out as on  *)
(* a PC; limits inside, at the edge of and beyond memory.                  *)
EXTENDS PageAlloc

SmallMemory == {1, 2, 4, 5, 6}

(* Limits a caller that names a page above the first one can pass. *)
PageLimits == {4, 9, 12, 19, 24, 28, 30, 31}

AllLimits == Addresses
=============================================================================
