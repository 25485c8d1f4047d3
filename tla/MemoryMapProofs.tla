-------------------------- MODULE MemoryMapProofs --------------------------
(***************************************************************************)
(* The safety properties of efi_load_memory_map (MemoryMap), however large *)
(* the map, whatever the slack and however often the map changes.          *)
(***************************************************************************)
EXTENDS MemoryMap, TLAPS

(* The invariant holds before the first call. *)
LEMMA InitIInv == Init => IInv
<1>1. SUFFICES ASSUME Init PROVE IInv
  OBVIOUS
<1>2. TypeOK
  <2>1. tmp \in [size : 0 .. MaxDescs, key : 0 .. MaxChanges]
    BY <1>1, BoundsAssumption DEF Init
  <2>2. map_ptr \in Data \cup {None} /\ map_data \in Data \cup {None}
    BY <1>1 DEF Init
  <2>3. /\ descs \in 1 .. MaxDescs /\ key \in 0 .. MaxChanges /\ live \in 0 .. 1
        /\ room \in 0 .. MaxDescs + Slack
    BY <1>1, BoundsAssumption, SlackAssumption DEF Init
  <2>4. want \in BOOLEAN
    BY <1>1 DEF Init
  <2> QED
    BY <1>1, <2>1, <2>2, <2>3, <2>4 DEF Init, TypeOK
<1>3. CallInv /\ NoBufferLost /\ MapMatchesData /\ OutputsOnlyOnDelivery
  BY <1>1 DEF Init, CallInv, NoBufferLost, MapMatchesData, OutputsOnlyOnDelivery
<1> QED
  BY <1>2, <1>3 DEF IInv

(* What the firmware answers is data a caller can hold, and is not None. *)
LEMMA SnapshotType == TypeOK => Snapshot \in Data /\ Snapshot # None
<1>1. SUFFICES ASSUME TypeOK PROVE Snapshot \in Data /\ Snapshot # None
  OBVIOUS
<1>2. Snapshot \in Data
  BY <1>1 DEF TypeOK, Snapshot, Data
<1>3. Data \subseteq [size : Nat, key : Nat]
  BY BoundsAssumption DEF Data
<1> QED
  BY <1>2, <1>3, NoneAssumption

(* Every step keeps the types; the buffer count stays 0 or 1. *)
LEMMA TypeStep == IInv /\ [Next]_vars => TypeOK'
<1>1. SUFFICES ASSUME IInv, [Next]_vars PROVE TypeOK'
  OBVIOUS
<1> USE BoundsAssumption, SlackAssumption
<1>2. TypeOK
  BY <1>1 DEF IInv
<1>3. Snapshot \in Data
  BY <1>2, SnapshotType
<1>4. CASE MapChanges
  BY <1>2, <1>4 DEF TypeOK, MapChanges
<1>5. CASE Call
  BY <1>2, <1>5 DEF TypeOK, Call, firmware
<1>6. CASE GetSize
  BY <1>2, <1>3, <1>6 DEF TypeOK, GetSize, Return, firmware, Data
<1>7. CASE Allocate
  BY <1>1, <1>2, <1>7 DEF TypeOK, IInv, CallInv, Allocate, efi_allocate_buffer, PoolChangesMap, Return, firmware
<1>8. CASE GetMap
  <2>1. live = 1 /\ live - 1 = 0 /\ tmp.size \in Nat
    BY <1>1, <1>2, <1>8 DEF IInv, CallInv, GetMap, TypeOK
  <2> QED
    BY <1>2, <1>3, <1>8, <2>1 DEF TypeOK, GetMap, Return, Data
<1>9. CASE FreeMap
  <2>1. live = 1
    BY <1>1, <1>9 DEF IInv, NoBufferLost, FreeMap
  <2> QED
    BY <1>2, <1>9, <2>1 DEF TypeOK, FreeMap
<1>10. CASE UNCHANGED vars
  BY <1>2, <1>10 DEF TypeOK, vars, Data
<1> QED
  BY <1>1, <1>4, <1>5, <1>6, <1>7, <1>8, <1>9, <1>10 DEF Next

(* Every step keeps what is known inside a call and on its return. *)
LEMMA CallStep ==
  IInv /\ [Next]_vars => CallInv' /\ NoBufferLost' /\ OutputsOnlyOnDelivery'
<1>1. SUFFICES ASSUME IInv, [Next]_vars
               PROVE  CallInv' /\ NoBufferLost' /\ OutputsOnlyOnDelivery'
  OBVIOUS
<1> USE DEF CallInv, NoBufferLost, OutputsOnlyOnDelivery
<1>2. TypeOK /\ CallInv /\ NoBufferLost /\ OutputsOnlyOnDelivery
  BY <1>1 DEF IInv
<1>3. Snapshot \in Data /\ Snapshot # None
  BY <1>2, SnapshotType
<1>4. key \in Nat /\ descs \in Nat /\ (map_ptr # None => map_ptr.key \in Nat)
  BY <1>2, BoundsAssumption DEF TypeOK, Data
<1>5. CASE MapChanges
  BY <1>2, <1>4, <1>5 DEF MapChanges
<1>6. CASE Call
  BY <1>2, <1>6 DEF Call, firmware
<1>7. CASE GetSize
  BY <1>2, <1>3, <1>7 DEF GetSize, Return, firmware
<1>8. CASE Allocate
  BY <1>2, <1>4, <1>8 DEF Allocate, efi_allocate_buffer, PoolChangesMap, Return, firmware
<1>9. CASE GetMap
  BY <1>2, <1>3, <1>4, <1>9 DEF GetMap, Return, Snapshot
<1>10. CASE FreeMap
  BY <1>2, <1>10 DEF FreeMap
<1>11. CASE UNCHANGED vars
  BY <1>2, <1>11 DEF vars
<1> QED
  BY <1>1, <1>5, <1>6, <1>7, <1>8, <1>9, <1>10, <1>11 DEF Next

(* Every step keeps the copy of the map consistent with its data: only     *)
(* GetMap fills it in, and only what fits; a later map has a later key.    *)
LEMMA DataStep == IInv /\ [Next]_vars => MapMatchesData'
<1>1. SUFFICES ASSUME IInv, [Next]_vars PROVE MapMatchesData'
  OBVIOUS
<1> USE DEF MapMatchesData
<1>2. TypeOK /\ CallInv /\ MapMatchesData
  BY <1>1 DEF IInv
<1>3. key \in Nat /\ descs \in Nat /\ tmp.size \in Nat
  BY <1>2, BoundsAssumption DEF TypeOK
<1>4. map_ptr # None => map_ptr.key \in Nat
  BY <1>2, BoundsAssumption DEF TypeOK, Data
<1>5. CASE MapChanges
  BY <1>2, <1>3, <1>4, <1>5 DEF MapChanges, CallInv
<1>6. CASE Call
  BY <1>6 DEF Call
<1>7. CASE GetSize
  BY <1>2, <1>7 DEF GetSize, CallInv
<1>8. CASE Allocate
  BY <1>2, <1>8 DEF Allocate, efi_allocate_buffer, CallInv
<1>9. CASE GetMap
  BY <1>2, <1>3, <1>9, SlackAssumption DEF GetMap, CallInv, Snapshot
<1>10. CASE FreeMap
  BY <1>10 DEF FreeMap
<1>11. CASE UNCHANGED vars
  BY <1>2, <1>11 DEF vars
<1> QED
  BY <1>1, <1>5, <1>6, <1>7, <1>8, <1>9, <1>10, <1>11 DEF Next

-----------------------------------------------------------------------------
(* Theorems *)

(* The inductive invariant holds in every reachable state. *)
THEOREM Invariance == Spec => []IInv
<1>1. Init => IInv
  BY InitIInv
<1>2. IInv /\ [Next]_vars => IInv'
  BY TypeStep, CallStep, DataStep DEF IInv
<1> QED
  BY <1>1, <1>2, PTL DEF Spec

(* Every variable has its type: there is never more than one buffer. *)
THEOREM TypeCorrect == Spec => []TypeOK
<1>1. IInv => TypeOK
  BY DEF IInv
<1> QED
  BY <1>1, Invariance, PTL

(* Every failing path frees the buffer once, and the successful one leaves *)
(* it to the caller (memory.c:44-49). *)
THEOREM BuffersAccounted == Spec => []NoBufferLost
<1>1. IInv => NoBufferLost
  BY DEF IInv
<1> QED
  BY <1>1, Invariance, PTL

(* The map delivered fits its buffer, and its key vouches for it           *)
(* (memory.c:42-52). *)
THEOREM MapConsistent == Spec => []MapMatchesData
<1>1. IInv => MapMatchesData
  BY DEF IInv
<1> QED
  BY <1>1, Invariance, PTL

(* A call that does not deliver leaves its outputs alone                   *)
(* (memory.c:24-27, 38-54). *)
THEOREM OutputsGuarded == Spec => []OutputsOnlyOnDelivery
<1>1. IInv => OutputsOnlyOnDelivery
  BY DEF IInv
<1> QED
  BY <1>1, Invariance, PTL
=============================================================================
