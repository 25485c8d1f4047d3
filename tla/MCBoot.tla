------------------------------- MODULE MCBoot -------------------------------
(***************************************************************************)
(* System tables, text consoles and adapters for TLC: revision 2.70 of the *)
(* specification, a table without its signature and one without a console; *)
(* modes larger but narrower, before and after wider ones, and more modes  *)
(* than are searched.                                                      *)
(***************************************************************************)
EXTENDS Boot

ATable(valid, conin) ==
  [valid |-> valid, conin |-> conin, revision |-> 2 * 65536 + 70, fw_revision |-> 65536 + 3]

SomeTables == {ATable(TRUE, TRUE), ATable(TRUE, FALSE), ATable(FALSE, TRUE)}

ASize(columns, rows) == [columns |-> columns, rows |-> rows]

SomeConsoles ==
  { <<ASize(80, 25)>>,
    <<ASize(80, 25), ASize(80, 50), ASize(100, 31), ASize(128, 40)>>,
    <<ASize(80, 25), ASize(40, 100), ASize(160, 30), ASize(100, 60), ASize(160, 30), ASize(200, 80)>> }

NoMask == [blue |-> {}, red |-> {}, green |-> {}, reserved |-> {}]
Grbx32 == [blue |-> 0 .. 7, red |-> 8 .. 15, green |-> 16 .. 23, reserved |-> 24 .. 31]

AMode(w, h, ppsl, format, masks) ==
  [width |-> w, height |-> h, ppsl |-> ppsl, format |-> format, masks |-> masks]

Low  == AMode(2, 2, 2, "rgb", NoMask)
Wide == AMode(4, 2, 5, "bgr", NoMask)
Tall == AMode(2, 4, 3, "mask", Grbx32)
Blt  == AMode(4, 4, 4, "blt", NoMask)

SomeAdapters ==
  { [current |-> 0, console |-> FALSE, modes |-> <<Low, Wide, Tall>>],
    [current |-> 1, console |-> TRUE,  modes |-> <<Blt, Wide>>],
    [current |-> 0, console |-> TRUE,  modes |-> <<Blt, Low>>] }

ASSUME FramesFit
=============================================================================
