----------------------------- MODULE MemoryMap -----------------------------
(***************************************************************************)
(* src/uefistub/memory.c: efi_load_memory_map asks the firmware how large  *)
(* the memory map is, allocates a buffer with some slack, and asks again.  *)
(* The map may change between any two calls (an event notification of the  *)
(* firmware allocates, and allocating the buffer itself splits ranges), so *)
(* the function races against it.  Sizes are counted in descriptors.       *)
(***************************************************************************)
EXTENDS Integers

CONSTANTS
  MaxDescs,    (* bound on the descriptors of the firmware's map            *)
  MaxChanges,  (* bound on how often the map changes                        *)
  Slack,       (* descriptors of slack in the buffer, 32 in the code        *)
  None         (* no buffer, no data                                        *)

ASSUME BoundsAssumption == MaxDescs \in Nat \ {0} /\ MaxChanges \in Nat
ASSUME SlackAssumption == Slack \in Nat
ASSUME NoneAssumption == None \notin [size : Nat, key : Nat]

VARIABLES
  descs,     (* firmware: descriptors in the memory map                    *)
  key,       (* firmware: key of the map, a new one after each change      *)
  live,      (* firmware: pool buffers allocated and not freed             *)
  pc,        (* next call of efi_load_memory_map, "idle" outside it        *)
  want,      (* is map_ptr given?                                          *)
  tmp,       (* local: map_size and map_key                                *)
  room,      (* local: length of the buffer behind ptr                     *)
  map_ptr,   (* the caller's map: what was copied into it, or None         *)
  map_data,  (* the caller's map_data, or None while untouched             *)
  status     (* what the last call returned                                *)

firmware == <<descs, key, live>>
vars == <<descs, key, live, pc, want, tmp, room, map_ptr, map_data, status>>

Snapshot == [size |-> descs, key |-> key]

Init ==
  /\ descs \in 1 .. MaxDescs /\ key = 0 /\ live = 0
  /\ pc = "idle" /\ want = FALSE
  /\ tmp = [size |-> 0, key |-> 0] /\ room = 0
  /\ map_ptr = None /\ map_data = None
  /\ status = "none"

-----------------------------------------------------------------------------
(* Firmware *)

(* The map gets new descriptors or loses some, behind the caller's back.   *)
MapChanges ==
  /\ key < MaxChanges
  /\ descs' \in 1 .. MaxDescs
  /\ key' = key + 1
  /\ UNCHANGED <<live, pc, want, tmp, room, map_ptr, map_data, status>>

(* A pool allocation may split a range in up to three. *)
PoolChangesMap ==
  \/ UNCHANGED <<descs, key>>
  \/ /\ key < MaxChanges /\ key' = key + 1
     /\ descs' \in descs .. descs + 2
     /\ descs' <= MaxDescs

-----------------------------------------------------------------------------
(* efi_load_memory_map *)

Return(s) == pc' = "idle" /\ status' = s

(* A caller that still holds a map frees it first. *)
Call ==
  /\ pc = "idle" /\ map_ptr = None
  /\ want' \in BOOLEAN
  /\ tmp' = [size |-> 0, key |-> 0] /\ room' = 0
  /\ map_data' = None
  /\ pc' = "size"
  /\ UNCHANGED <<firmware, map_ptr, status>>

(* The first get_memory_map: no buffer, so anything but "too small" is an  *)
(* error.  Without map_ptr that answer is also what is returned.           *)
GetSize ==
  /\ pc = "size"
  /\ \/ /\ Return("load_error")
        /\ UNCHANGED <<tmp, map_data>>
     \/ /\ tmp' = Snapshot
        /\ IF want
           THEN pc' = "allocate" /\ UNCHANGED <<map_data, status>>
           ELSE map_data' = Snapshot /\ Return("too_small")
  /\ UNCHANGED <<firmware, want, room, map_ptr>>

(* The memory type asked for is one the firmware accepts; the pool may be  *)
(* exhausted all the same, which yields NULL.                              *)
efi_allocate_buffer(size) ==
  /\ room' = size
  /\ live' = live + 1
  /\ PoolChangesMap

Allocate ==
  /\ pc = "allocate"
  /\ \/ /\ Return("out_of_resources")
        /\ UNCHANGED <<firmware, room>>
     \/ /\ efi_allocate_buffer(tmp.size + Slack)
        /\ pc' = "map"
        /\ UNCHANGED status
  /\ UNCHANGED <<want, tmp, map_ptr, map_data>>

(* Mutants of GetMap: the buffer leaks when the map does not fit; is freed *)
(* on success too; the data of the first call is returned; the data is     *)
(* returned before the status is checked; the call is repeated until the   *)
(* map fits.                                                               *)
Fits == descs <= tmp.size

Deliver(data) ==
  /\ tmp' = Snapshot /\ map_ptr' = Snapshot /\ map_data' = data
  /\ Return("success")

Fail(s) == tmp' = [tmp EXCEPT !.size = descs] /\ Return(s) /\ UNCHANGED map_ptr

Kept == UNCHANGED <<descs, key, want, room>>

GetMapLeaks ==
  /\ pc = "map" /\ Kept /\ UNCHANGED live
  /\ (Fits /\ Deliver(Snapshot)) \/ (~Fits /\ Fail("too_small") /\ UNCHANGED map_data)

GetMapFreesAlways ==
  /\ pc = "map" /\ Kept /\ live' = live - 1
  /\ (Fits /\ Deliver(Snapshot)) \/ (~Fits /\ Fail("too_small") /\ UNCHANGED map_data)

GetMapStaleData ==
  /\ pc = "map" /\ Kept /\ live' = IF Fits THEN live ELSE live - 1
  /\ (Fits /\ Deliver(tmp)) \/ (~Fits /\ Fail("too_small") /\ UNCHANGED map_data)

GetMapEarlyData ==
  /\ pc = "map" /\ Kept /\ live' = IF Fits THEN live ELSE live - 1
  /\ (Fits /\ Deliver(Snapshot)) \/ (~Fits /\ Fail("too_small") /\ map_data' = tmp')

GetMapSpins ==
  /\ pc = "map" /\ Kept /\ UNCHANGED live
  /\ Fits /\ Deliver(Snapshot)

(* The second get_memory_map is told the size the first one returned, not  *)
(* the length of the buffer; any failure frees the buffer.                 *)
GetMap ==
  /\ pc = "map"
  /\ \/ /\ descs <= tmp.size
        /\ tmp' = Snapshot
        /\ map_ptr' = Snapshot /\ map_data' = Snapshot
        /\ Return("success")
        /\ UNCHANGED live
     \/ /\ descs > tmp.size
        /\ tmp' = [tmp EXCEPT !.size = descs]
        /\ live' = live - 1
        /\ Return("too_small")
        /\ UNCHANGED <<map_ptr, map_data>>
     \/ /\ live' = live - 1
        /\ Return("invalid_parameter")
        /\ UNCHANGED <<tmp, map_ptr, map_data>>
  /\ UNCHANGED <<descs, key, want, room>>

(* efi_free_buffer, by the caller; None stands for NULL, which it ignores.  *)
FreeMap ==
  /\ pc = "idle" /\ map_ptr # None
  /\ live' = live - 1
  /\ map_ptr' = None
  /\ UNCHANGED <<descs, key, pc, want, tmp, room, map_data, status>>

Next == MapChanges \/ Call \/ GetSize \/ Allocate \/ GetMap \/ FreeMap

Spec == Init /\ [][Next]_vars

(* The firmware answers every call. *)
FairSpec == Spec /\ WF_vars(GetSize) /\ WF_vars(Allocate) /\ WF_vars(GetMap)

-----------------------------------------------------------------------------
(* Properties *)

Data == [size : 1 .. MaxDescs, key : 0 .. MaxChanges]

(* Every variable has its type; at most one buffer is ever live. *)
TypeOK ==
  /\ descs \in 1 .. MaxDescs /\ key \in 0 .. MaxChanges /\ live \in 0 .. 1
  /\ pc \in {"idle", "size", "allocate", "map"}
  /\ want \in BOOLEAN
  /\ tmp \in [size : 0 .. MaxDescs, key : 0 .. MaxChanges]
  /\ room \in 0 .. MaxDescs + Slack
  /\ map_ptr \in Data \cup {None} /\ map_data \in Data \cup {None}
  /\ status \in {"none", "success", "load_error", "out_of_resources", "too_small",
                 "invalid_parameter"}

(* Between calls the pool holds a buffer exactly when the caller holds the *)
(* map: every failing path frees it, no path frees it twice.               *)
(* (memory.c:44-47)                                                        *)
NoBufferLost == pc = "idle" => live = IF map_ptr = None THEN 0 ELSE 1

(* The firmware never copies more descriptors than the buffer has room     *)
(* for, and the size and key returned are those of the copy: with that key *)
(* ExitBootServices accepts the map only if it is complete.                *)
(* (memory.c:42-52)                                                        *)
MapMatchesData ==
  map_ptr # None =>
    /\ map_data = map_ptr
    /\ map_ptr.size <= room
    /\ map_data.key = key => map_ptr.size = descs

(* The caller's map_data is written exactly when the call delivers: with   *)
(* map_ptr, on success; without it, on the "too small" that carries the    *)
(* size.  After any other status both outputs are untouched.               *)
(* (memory.c:24-27, 38-54)                                                 *)
OutputsOnlyOnDelivery ==
  pc = "idle" /\ status # "none" =>
    /\ map_data # None <=> status = IF want THEN "success" ELSE "too_small"
    /\ map_ptr # None => want /\ status = "success"

(* A call returns, however often the map changes under it. *)
CallReturns == pc # "idle" ~> pc = "idle"

(* memory.c:31-35: the buffer is larger than the size the first call       *)
(* returned because the map may grow in between.  So the second call lacks *)
(* room only if the map outgrew the buffer.                                *)
SlackAbsorbsGrowth ==
  pc = "idle" /\ want /\ status = "too_small" => tmp.size > room

-----------------------------------------------------------------------------
(* The inductive invariant behind the safety properties (MemoryMapProofs): *)
(* where a call holds the buffer and what it has not yet told its caller.  *)
CallInv ==
  /\ pc # "idle" => map_ptr = None /\ map_data = None
  /\ pc \in {"size", "allocate"} => live = 0
  /\ pc = "map" => live = 1 /\ room = tmp.size + Slack
  /\ pc \in {"allocate", "map"} => want
  /\ map_ptr # None => map_ptr.key <= key
  /\ status = "none" => map_ptr = None

IInv == TypeOK /\ CallInv /\ NoBufferLost /\ MapMatchesData /\ OutputsOnlyOnDelivery
=============================================================================
