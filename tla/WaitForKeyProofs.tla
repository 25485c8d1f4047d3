-------------------------- MODULE WaitForKeyProofs --------------------------
(***************************************************************************)
(* The safety properties of efi_wait_for_key (WaitForKey) for any number   *)
(* of keys and calls.                                                      *)
(***************************************************************************)
EXTENDS WaitForKey, TLAPS

(* The invariant holds before the first call. *)
LEMMA InitIInv == Init => IInv
<1>1. SUFFICES ASSUME Init PROVE IInv
  OBVIOUS
<1>2. TypeOK
  <2>1. waiting \in BOOLEAN
    BY <1>1 DEF Init
  <2> QED
    BY <1>1, <2>1, BoundsAssumption DEF Init, TypeOK
<1>3. NoKeyLost /\ EventsClosed /\ CallsInv
  BY <1>1 DEF Init, NoKeyLost, EventsClosed, CallsInv
<1>4. TimeoutInv /\ TimeoutHonest
  BY <1>1 DEF Init, TimeoutInv, TimeoutHonest
<1> QED
  BY <1>2, <1>3, <1>4 DEF IInv

(* Every step of the function or the firmware keeps the count of the keys. *)
LEMMA KeysStep == IInv /\ [Next]_vars => NoKeyLost'
<1>1. SUFFICES ASSUME TypeOK, NoKeyLost, [Next]_vars PROVE NoKeyLost'
  BY DEF IInv
<1> USE DEF NoKeyLost
<1>2. keys \in Nat /\ pressed \in Nat /\ taken \in Nat /\ given \in Nat
  BY <1>1, BoundsAssumption DEF TypeOK
<1>3. CASE UNCHANGED <<keys, pressed, taken, given>>
  BY <1>1, <1>3
<1>4. CASE PressKey
  BY <1>1, <1>2, <1>4 DEF PressKey, history
<1>5. CASE OtherReader
  BY <1>1, <1>2, <1>5 DEF OtherReader, history
<1>6. CASE ReadKeystroke
  BY <1>1, <1>2, <1>6 DEF ReadKeystroke
<1>7. CASE TimerExpires \/ Call \/ WaitFails \/ CreateEvent \/ SetTimer \/ Wait
           \/ TimedOut \/ CloseEvent \/ UNCHANGED vars
  BY <1>3, <1>7 DEF TimerExpires, Call, WaitFails, CreateEvent, SetTimer, Wait,
       TimedOut, CloseEvent, vars, keyboard, history
<1> QED
  BY <1>1, <1>4, <1>5, <1>6, <1>7 DEF Next, Step

(* Every step keeps the count of the timer events, and the number of calls *)
(* above it. *)
LEMMA EventsStep == IInv /\ [Next]_vars => EventsClosed' /\ CallsInv'
<1>1. SUFFICES ASSUME TypeOK, EventsClosed, CallsInv, [Next]_vars
               PROVE  EventsClosed' /\ CallsInv'
  BY DEF IInv
<1> USE DEF EventsClosed, CallsInv
<1>2. open \in Nat /\ unarmed \in Nat /\ calls \in Nat
  BY <1>1, BoundsAssumption DEF TypeOK
<1>3. CASE UNCHANGED <<pc, calls, open, unarmed>>
  BY <1>1, <1>3
<1>4. CASE Call
  BY <1>1, <1>2, <1>4 DEF Call
<1>5. CASE CreateEvent
  BY <1>1, <1>2, <1>5 DEF CreateEvent
<1>6. CASE SetTimer
  BY <1>1, <1>2, <1>6 DEF SetTimer
<1>7. CASE CloseEvent
  BY <1>1, <1>2, <1>7 DEF CloseEvent
<1>8. CASE Wait \/ WaitFails \/ TimedOut
  BY <1>1, <1>2, <1>8 DEF Wait, WaitFails, TimedOut, history
<1>9. CASE ReadKeystroke
  BY <1>1, <1>2, <1>9 DEF ReadKeystroke
<1>10. CASE PressKey \/ OtherReader \/ TimerExpires \/ UNCHANGED vars
  BY <1>3, <1>10 DEF PressKey, OtherReader, TimerExpires, vars, history
<1> QED
  BY <1>1, <1>4, <1>5, <1>6, <1>7, <1>8, <1>9, <1>10 DEF Next, Step

(* Every step keeps what a timeout stands for. *)
LEMMA TimeoutStep == IInv /\ [Next]_vars => TimeoutInv' /\ TimeoutHonest'
<1>1. SUFFICES ASSUME TypeOK, TimeoutInv, TimeoutHonest, [Next]_vars
               PROVE  TimeoutInv' /\ TimeoutHonest'
  BY DEF IInv
<1> USE DEF TimeoutInv, TimeoutHonest
<1>2. CASE UNCHANGED <<pc, timer, event_idx, status, waiting>>
  BY <1>1, <1>2
<1>3. CASE Wait
  <2>1. pc' = "timeout" => keys = 0 /\ timer' = "expired" /\ event_idx' = 1
    BY <1>3 DEF Wait
  <2>2. keys = 0 => ~(keys > 0)
    OBVIOUS
  <2>3. (keys = 0 => ~waiting') /\ status' = "success" /\ pc' # "close"
    BY <1>3, <2>2 DEF Wait
  <2> QED
    BY <2>1, <2>3
<1>4. CASE TimedOut \/ WaitFails
  BY <1>1, <1>4 DEF TimedOut, WaitFails
<1>5. CASE ReadKeystroke \/ CloseEvent
  BY <1>1, <1>5 DEF ReadKeystroke, CloseEvent
<1>6. CASE Call \/ CreateEvent \/ SetTimer
  BY <1>1, <1>6 DEF Call, CreateEvent, SetTimer
<1>7. CASE TimerExpires
  BY <1>1, <1>7 DEF TimerExpires
<1>8. CASE PressKey \/ OtherReader \/ UNCHANGED vars
  BY <1>2, <1>8 DEF PressKey, OtherReader, vars
<1> QED
  BY <1>1, <1>3, <1>4, <1>5, <1>6, <1>7, <1>8 DEF Next, Step

(* The parts of a bounded sum are bounded. *)
LEMMA PartsBelowSum ==
  ASSUME NEW bound \in Nat, NEW a \in Nat, NEW b \in Nat, NEW c \in Nat,
         a + b + c \in 0 .. bound
  PROVE  a \in 0 .. bound /\ b \in 0 .. bound /\ c \in 0 .. bound
OBVIOUS

(* What is at most the number of calls is at most their bound. *)
LEMMA CallsBoundEvents ==
  ASSUME NEW bound \in Nat, NEW n \in 0 .. bound, NEW u \in Nat,
         NEW d \in 0 .. 1, NEW e \in 0 .. 1, d <= e, u + e <= n
  PROVE  u + d \in 0 .. bound /\ u \in 0 .. bound
OBVIOUS

(* The control state stays within its values. *)
LEMMA ControlStep ==
  ASSUME TypeOK, [Next]_vars
  PROVE  /\ timer' \in {"none", "created", "armed", "expired"}
         /\ pc' \in {"idle", "create", "arm", "wait", "read", "timeout", "close"}
         /\ event_idx' \in {0, 1, 3}
         /\ status' \in {"none", "unsupported", "out_of_resources", "invalid_parameter",
                         "wait_failed", "success", "not_ready", "timeout"}
         /\ waiting' \in BOOLEAN
<1> USE DEF TypeOK
<1>1. CASE PressKey \/ OtherReader \/ TimerExpires
  BY <1>1 DEF PressKey, OtherReader, TimerExpires
<1>2. CASE Call \/ CreateEvent \/ SetTimer
  BY <1>2 DEF Call, CreateEvent, SetTimer
<1>3. CASE Wait
  <2>1. (keys > 0) \in BOOLEAN
    OBVIOUS
  <2>2. waiting' \in BOOLEAN
    BY <1>3, <2>1 DEF Wait
  <2>3. timer' = timer /\ pc' \in {"read", "timeout"} /\ event_idx' \in {0, 1}
        /\ status' = "success"
    BY <1>3 DEF Wait
  <2> QED
    BY <2>2, <2>3
<1>4. CASE WaitFails \/ ReadKeystroke \/ TimedOut \/ CloseEvent
  BY <1>4 DEF WaitFails, ReadKeystroke, TimedOut, CloseEvent
<1>5. CASE UNCHANGED vars
  BY <1>5 DEF vars
<1> QED
  BY <1>1, <1>2, <1>3, <1>4, <1>5 DEF Next, Step

(* The counters stay natural numbers, and those with a guard below it. *)
LEMMA CountersStep ==
  ASSUME TypeOK, [Next]_vars
  PROVE  /\ keys' \in Nat /\ taken' \in Nat /\ given' \in Nat
         /\ pressed' \in 0 .. MaxKeys
         /\ calls' \in 0 .. MaxCalls /\ unarmed' \in Nat
<1> USE BoundsAssumption DEF TypeOK, history, keyboard
<1>1. CASE PressKey
  BY <1>1 DEF PressKey
<1>2. CASE OtherReader
  BY <1>2 DEF OtherReader
<1>3. CASE TimerExpires
  BY <1>3 DEF TimerExpires
<1>4. CASE Call
  BY <1>4 DEF Call
<1>5. CASE CreateEvent
  BY <1>5 DEF CreateEvent
<1>6. CASE SetTimer
  BY <1>6 DEF SetTimer
<1>7. CASE Wait
  <2>1. UNCHANGED <<keyboard, history>>
    BY <1>7 DEF Wait
  <2> QED
    BY <2>1
<1>8. CASE WaitFails \/ TimedOut
  BY <1>8 DEF WaitFails, TimedOut
<1>9. CASE ReadKeystroke
  BY <1>9 DEF ReadKeystroke
<1>10. CASE CloseEvent
  BY <1>10 DEF CloseEvent
<1>11. CASE UNCHANGED vars
  BY <1>11 DEF vars
<1> QED
  BY <1>1, <1>2, <1>3, <1>4, <1>5, <1>6, <1>7, <1>8, <1>9, <1>10, <1>11 DEF Next, Step

(* Every step keeps the types: the bounds on keys and events follow from   *)
(* what is known of their sums after the step. *)
LEMMA TypeStep ==
  IInv /\ [Next]_vars /\ NoKeyLost' /\ EventsClosed' /\ CallsInv' => TypeOK'
<1>1. SUFFICES ASSUME IInv, [Next]_vars, NoKeyLost', EventsClosed', CallsInv'
               PROVE  TypeOK'
  OBVIOUS
<1> USE BoundsAssumption
<1>2. TypeOK
  BY <1>1 DEF IInv
<1>3. /\ timer' \in {"none", "created", "armed", "expired"}
      /\ pc' \in {"idle", "create", "arm", "wait", "read", "timeout", "close"}
      /\ event_idx' \in {0, 1, 3}
      /\ status' \in {"none", "unsupported", "out_of_resources", "invalid_parameter",
                      "wait_failed", "success", "not_ready", "timeout"}
      /\ waiting' \in BOOLEAN
  BY <1>1, <1>2, ControlStep
<1>4. keys' \in Nat /\ pressed' \in 0 .. MaxKeys /\ taken' \in Nat /\ given' \in Nat
  BY <1>1, <1>2, CountersStep
<1>5. calls' \in 0 .. MaxCalls /\ unarmed' \in Nat
  BY <1>1, <1>2, CountersStep
<1>6. keys' \in 0 .. MaxKeys /\ taken' \in 0 .. MaxKeys /\ given' \in 0 .. MaxKeys
  <2>1. pressed' = keys' + taken' + given'
    BY <1>1 DEF NoKeyLost
  <2> QED
    BY <1>4, <2>1, PartsBelowSum
<1>7. open' \in 0 .. MaxCalls /\ unarmed' \in 0 .. MaxCalls
  <2> DEFINE mine == IF pc' \in {"arm", "wait", "read", "timeout", "close"} THEN 1 ELSE 0
             running == IF pc' = "idle" THEN 0 ELSE 1
  <2>1. open' = unarmed' + mine
    BY <1>1 DEF EventsClosed
  <2>2. unarmed' + running <= calls'
    BY <1>1 DEF CallsInv
  <2>3. mine \in 0 .. 1 /\ running \in 0 .. 1 /\ mine <= running
    OBVIOUS
  <2> HIDE DEF mine, running
  <2> QED
    BY <1>5, <2>1, <2>2, <2>3, CallsBoundEvents
<1> QED
  BY <1>3, <1>4, <1>5, <1>6, <1>7 DEF TypeOK

-----------------------------------------------------------------------------
(* Theorems *)

(* The inductive invariant holds in every reachable state. *)
THEOREM Invariance == Spec => []IInv
<1>1. Init => IInv
  BY InitIInv
<1>2. IInv /\ [Next]_vars => IInv'
  BY KeysStep, EventsStep, TimeoutStep, TypeStep DEF IInv
<1> QED
  BY <1>1, <1>2, PTL DEF Spec

(* Every variable has its type, so no counter of keys or events is ever    *)
(* negative or beyond its bound. *)
THEOREM TypeCorrect == Spec => []TypeOK
<1>1. IInv => TypeOK
  BY DEF IInv
<1> QED
  BY <1>1, Invariance, PTL

(* However keys, other readers and the timer race, no key disappears       *)
(* (console.c:232-239). *)
THEOREM KeysAccounted == Spec => []NoKeyLost
<1>1. IInv => NoKeyLost
  BY DEF IInv
<1> QED
  BY <1>1, Invariance, PTL

(* The open timer events are exactly those of the calls that could not set *)
(* their timer, and that of the running call (console.c:221-241). *)
THEOREM EventsAccounted == Spec => []EventsClosed
<1>1. IInv => EventsClosed
  BY DEF IInv
<1> QED
  BY <1>1, Invariance, PTL

(* A timeout means the timer expired and no key was waiting                *)
(* (console.c:219-238). *)
THEOREM TimeoutMeansTimeout == Spec => []TimeoutHonest
<1>1. IInv => TimeoutHonest
  BY DEF IInv
<1> QED
  BY <1>1, Invariance, PTL
=============================================================================
