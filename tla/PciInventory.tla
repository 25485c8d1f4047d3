---------------------------- MODULE PciInventory ----------------------------
(***************************************************************************)
(* What probing the bus promises: handle after handle, and base address    *)
(* register after register, one true line for every BAR firmware has       *)
(* assigned, none for anything else, in order and without repetition.      *)
(* How a BAR is sized, and everything the devices go through meanwhile, is *)
(* left to the implementation (PciProbe).                                  *)
(***************************************************************************)
EXTENDS PciDevice, Sequences

VARIABLES
  devs,     (* the device behind each handle                         *)
  refused,  (* handles whose protocol or header could not be read    *)
  h,        (* handle being listed                                   *)
  i,        (* register of it to be listed next                      *)
  report    (* lines printed so far                                  *)

ivars == <<devs, refused, h, i, report>>

(* A BAR whose register holds zero was not assigned (or does not exist).   *)
Assigned(s) == s.kind \in {"io", "mem32", "mem64"} /\ Reset(s) # 0

(* The line of register b of device d behind handle k.  Sizing cannot tell *)
(* a hard-wired address bit from a decoded one: an I/O BAR that ignores    *)
(* the bits from lim up appears larger by WORD - lim.                      *)
Line(k, b, d) ==
  LET s  == d.slots[b]
      up == d.slots[b + 1]
      is64 == s.kind = "mem64"
  IN [handle       |-> k,
      bar          |-> b,
      memory       |-> s.kind # "io",
      is_64bit     |-> is64,
      prefetchable |-> s.flags \in {8, 10, 12},
      addr         |-> s.addr + IF is64 THEN WORD * up.addr ELSE 0,
      size         |-> IF is64 THEN s.gran * up.gran ELSE s.gran + (WORD - s.lim)]

IInit ==
  /\ devs \in Machines
  /\ refused = {}
  /\ h = 0
  /\ i = 0
  /\ report = <<>>

Refuse ==
  /\ h \in Handles /\ i = 0
  /\ refused' = refused \cup {h}
  /\ h' = h + 1
  /\ UNCHANGED <<devs, i, report>>

Pass ==
  /\ h \in Handles
  /\ i \in Bars => i = 0 /\ ~devs[h].normal
  /\ h' = h + 1
  /\ i' = 0
  /\ UNCHANGED <<devs, refused, report>>

SkipBar ==
  /\ h \in Handles /\ i \in Bars
  /\ devs[h].normal
  /\ ~Assigned(devs[h].slots[i])
  /\ i' = i + 1
  /\ UNCHANGED <<devs, refused, h, report>>

ListBar ==
  /\ h \in Handles /\ i \in Bars
  /\ devs[h].normal
  /\ Assigned(devs[h].slots[i])
  /\ report' = Append(report, Line(h, i, devs[h]))
  /\ i' = i + IF devs[h].slots[i].kind = "mem64" THEN 2 ELSE 1
  /\ UNCHANGED <<devs, refused, h>>

INext == Refuse \/ Pass \/ SkipBar \/ ListBar

ISpec == IInit /\ [][INext]_ivars
=============================================================================
