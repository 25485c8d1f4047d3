----------------------------- MODULE MCGopSetup -----------------------------
(***************************************************************************)
(* Adapters for TLC: modes that tie on area and differ in depth, a scan    *)
(* line longer than the screen is wide, 32-bit and 16-bit bit-mask modes,  *)
(* a scan line that does not fit its field (LINE = 32), modes without a    *)
(* frame buffer, first or current, and a mode whose area wraps to 0        *)
(* (AREA = 1024) and that has no depth.                                    *)
(***************************************************************************)
EXTENDS GopSetup

NoMask == [c \in Colours |-> {}]
Rgb565 == [blue |-> 0 .. 4, green |-> 5 .. 10, red |-> 11 .. 15, reserved |-> {}]
Grbx32 == [blue |-> 0 .. 7, red |-> 8 .. 15, green |-> 16 .. 23, reserved |-> 24 .. 31]

AMode(w, h, ppsl, format, masks) ==
  [width |-> w, height |-> h, ppsl |-> ppsl, format |-> format, masks |-> masks]

Low    == AMode(2, 2, 2, "rgb", NoMask)
Wide   == AMode(4, 2, 5, "bgr", NoMask)
Tall   == AMode(2, 4, 3, "mask", Grbx32)
Packed == AMode(4, 2, 4, "mask", Rgb565)
Deep   == AMode(3, 2, 9, "rgb", NoMask)
Blt    == AMode(4, 4, 4, "blt", NoMask)
Blind  == AMode(2, 2, 2, "mask", NoMask)

Void   == AMode(32, 32, 32, "mask", NoMask)

Adapter(current, console, modes) ==
  [current |-> current, console |-> console, modes |-> modes]

SomeAdapters ==
  { Adapter(0, FALSE, <<Low, Wide, Tall>>),
    Adapter(2, TRUE,  <<Blt, Packed, Low, Wide>>),
    Adapter(0, TRUE,  <<Deep, Blt>>),
    Adapter(0, TRUE,  <<Blt, Low>>),
    Adapter(1, FALSE, <<Blind, Tall, Wide, Low>>),
    Adapter(1, TRUE,  <<Blt, Void>>) }

ASSUME FirmwareContract
=============================================================================
