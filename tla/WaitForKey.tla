----------------------------- MODULE WaitForKey -----------------------------
(***************************************************************************)
(* src/uefistub/console.c: efi_wait_for_key waits for a key or a timer,    *)
(* whichever comes first.  Keys arrive, the timer expires and other        *)
(* readers of the keyboard take keys at any moment between its calls.      *)
(***************************************************************************)
EXTENDS Integers

CONSTANTS
  MaxKeys,   (* bound on the keys pressed                                   *)
  MaxCalls   (* bound on the calls of efi_wait_for_key                      *)

ASSUME BoundsAssumption == MaxKeys \in Nat /\ MaxCalls \in Nat

VARIABLES
  keys,      (* keys in the firmware's buffer; its event is set while > 0   *)
  timer,     (* the timer event of this call                                *)
  pc,        (* next step of efi_wait_for_key, "idle" outside it            *)
  event_idx, (* which event the wait reported, 3 before it                  *)
  status,    (* status of the last firmware call, and of the function       *)
  calls,     (* history: calls of the function                              *)
  open,      (* history: timer events created and not closed                *)
  unarmed,   (* history: calls that ended because the timer was not set     *)
  pressed,   (* history: keys pressed                                       *)
  taken,     (* history: keys other readers took                            *)
  given,     (* history: keys handed to callers                             *)
  waiting    (* history: was a key waiting when the wait ended?             *)

keyboard == <<keys, pressed, taken>>
history == <<calls, open, unarmed, given>>
vars == <<keys, timer, pc, event_idx, status, calls, open, unarmed, pressed,
          taken, given, waiting>>

Init ==
  /\ keys = 0 /\ timer = "none"
  /\ pc = "idle" /\ event_idx = 3 /\ status = "none"
  /\ calls = 0 /\ open = 0 /\ unarmed = 0
  /\ pressed = 0 /\ taken = 0 /\ given = 0
  /\ waiting = FALSE

-----------------------------------------------------------------------------
(* Firmware *)

PressKey ==
  /\ pressed < MaxKeys
  /\ keys' = keys + 1 /\ pressed' = pressed + 1
  /\ UNCHANGED <<timer, pc, event_idx, status, history, taken, waiting>>

(* A notification function (a hot key, say) consumes a key. *)
OtherReader ==
  /\ keys > 0
  /\ keys' = keys - 1 /\ taken' = taken + 1
  /\ UNCHANGED <<timer, pc, event_idx, status, history, pressed, waiting>>

TimerExpires ==
  /\ timer = "armed"
  /\ timer' = "expired"
  /\ UNCHANGED <<keyboard, pc, event_idx, status, history, waiting>>

-----------------------------------------------------------------------------
(* efi_wait_for_key *)

(* A console without input has nothing to wait for. *)
Call ==
  /\ pc = "idle" /\ calls < MaxCalls
  /\ calls' = calls + 1
  /\ event_idx' = 3 /\ timer' = "none" /\ waiting' = FALSE
  /\ \/ pc' = "create" /\ status' = "none"
     \/ pc' = "idle" /\ status' = "unsupported"
  /\ UNCHANGED <<keyboard, open, unarmed, given>>

CreateEvent ==
  /\ pc = "create"
  /\ \/ /\ pc' = "arm" /\ timer' = "created" /\ open' = open + 1
        /\ UNCHANGED status
     \/ /\ pc' = "idle" /\ status' = "out_of_resources"
        /\ UNCHANGED <<timer, open>>
  /\ UNCHANGED <<keyboard, event_idx, calls, unarmed, given, waiting>>

(* Mutant: the timer is cancelled instead of started. *)
SetTimerCancelled ==
  /\ pc = "arm"
  /\ pc' = "wait"
  /\ UNCHANGED <<keyboard, timer, event_idx, status, history, waiting>>

(* When the timer cannot be set the function returns at once: the event it *)
(* has created stays behind.                                               *)
SetTimer ==
  /\ pc = "arm"
  /\ \/ /\ pc' = "wait" /\ timer' = "armed"
        /\ UNCHANGED <<status, unarmed>>
     \/ /\ pc' = "idle" /\ status' = "invalid_parameter" /\ unarmed' = unarmed + 1
        /\ UNCHANGED timer
  /\ UNCHANGED <<keyboard, event_idx, calls, open, given, waiting>>

(* Mutant: the timer is the first event of the array. *)
WaitTimerFirst ==
  /\ pc = "wait"
  /\ keys > 0 \/ timer = "expired"
  /\ event_idx' = IF timer = "expired" THEN 1 ELSE 0
  /\ status' = "success" /\ waiting' = (keys > 0)
  /\ pc' = IF timer = "expired" THEN "timeout" ELSE "read"
  /\ UNCHANGED <<keyboard, timer, history>>

(* The firmware reports the first event of the array that is signalled:    *)
(* the key comes before the timer.                                         *)
Wait ==
  /\ pc = "wait"
  /\ \/ /\ keys > 0
        /\ event_idx' = 0 /\ status' = "success" /\ pc' = "read"
     \/ /\ keys = 0 /\ timer = "expired"
        /\ event_idx' = 1 /\ status' = "success" /\ pc' = "timeout"
  /\ waiting' = (keys > 0)
  /\ UNCHANGED <<keyboard, timer, history>>

WaitFails ==
  /\ pc = "wait"
  /\ status' = "wait_failed" /\ pc' = "close"
  /\ UNCHANGED <<keyboard, timer, event_idx, history, waiting>>

(* Mutant: what the wait saw is still true. *)
ReadBlindly ==
  /\ pc = "read"
  /\ keys' = keys - 1 /\ given' = given + 1 /\ status' = "success"
  /\ pc' = "close"
  /\ UNCHANGED <<pressed, taken, timer, event_idx, calls, open, unarmed, waiting>>

(* The key may be gone by now. *)
ReadKeystroke ==
  /\ pc = "read"
  /\ IF keys > 0
     THEN keys' = keys - 1 /\ given' = given + 1 /\ status' = "success"
     ELSE status' = "not_ready" /\ UNCHANGED <<keys, given>>
  /\ pc' = "close"
  /\ UNCHANGED <<pressed, taken, timer, event_idx, calls, open, unarmed, waiting>>

(* Mutant: the keyboard is read whatever the wait reported. *)
TimeoutReads ==
  /\ pc = "timeout"
  /\ status' = "timeout" /\ pc' = "close"
  /\ keys' = IF keys > 0 THEN keys - 1 ELSE 0
  /\ UNCHANGED <<pressed, taken, timer, event_idx, history, waiting>>

TimedOut ==
  /\ pc = "timeout"
  /\ status' = "timeout" /\ pc' = "close"
  /\ UNCHANGED <<keyboard, timer, event_idx, history, waiting>>

(* Mutant: only a wait that succeeded closes the event. *)
CloseOnSuccess ==
  /\ pc = "close"
  /\ open' = IF status = "wait_failed" THEN open ELSE open - 1
  /\ timer' = "none" /\ pc' = "idle"
  /\ UNCHANGED <<keyboard, event_idx, status, calls, unarmed, given, waiting>>

CloseEvent ==
  /\ pc = "close"
  /\ open' = open - 1 /\ timer' = "none" /\ pc' = "idle"
  /\ UNCHANGED <<keyboard, event_idx, status, calls, unarmed, given, waiting>>

Step == CreateEvent \/ SetTimer \/ Wait \/ ReadKeystroke \/ TimedOut \/ CloseEvent

Next == PressKey \/ OtherReader \/ TimerExpires \/ Call \/ WaitFails \/ Step

Spec == Init /\ [][Next]_vars

(* The function runs, the wait ends once an event is signalled, and an     *)
(* armed timer expires; keys need never come and waits need never fail.    *)
FairSpec == Spec /\ WF_vars(Step) /\ WF_vars(TimerExpires)

-----------------------------------------------------------------------------
(* Properties *)

(* Every variable has its type; in particular no counter goes negative.    *)
TypeOK ==
  /\ keys \in 0 .. MaxKeys /\ pressed \in 0 .. MaxKeys
  /\ taken \in 0 .. MaxKeys /\ given \in 0 .. MaxKeys
  /\ timer \in {"none", "created", "armed", "expired"}
  /\ pc \in {"idle", "create", "arm", "wait", "read", "timeout", "close"}
  /\ event_idx \in {0, 1, 3}
  /\ status \in {"none", "unsupported", "out_of_resources", "invalid_parameter",
                 "wait_failed", "success", "not_ready", "timeout"}
  /\ calls \in 0 .. MaxCalls /\ open \in 0 .. MaxCalls /\ unarmed \in 0 .. MaxCalls
  /\ waiting \in BOOLEAN

(* Every key pressed is still in the buffer, was taken by another reader,  *)
(* or reached a caller: a timeout that races with a key loses none.        *)
(* (console.c:232-239)                                                     *)
NoKeyLost == pressed = keys + taken + given

(* The function closes the timer event it created on every path but one:   *)
(* the events left open are those of the calls that could not set it.      *)
(* (console.c:221-230, 241)                                                *)
EventsClosed ==
  open = unarmed + IF pc \in {"arm", "wait", "read", "timeout", "close"} THEN 1 ELSE 0

(* A timeout is returned only when the timer of this very call expired and *)
(* no key was waiting when it was seen.  (console.c:219-238)               *)
TimeoutHonest ==
  /\ status = "timeout" => ~waiting
  /\ pc = "close" /\ status = "timeout" => timer = "expired" /\ event_idx = 1

(* A call returns even if no key is ever pressed. *)
CallReturns == pc # "idle" ~> pc = "idle"

-----------------------------------------------------------------------------
(* The inductive invariant behind the safety properties (WaitForKeyProofs) *)

(* A call leaves at most one event behind, so calls bound the events.      *)
CallsInv == unarmed + (IF pc = "idle" THEN 0 ELSE 1) <= calls

(* What is known on the way from the wait to the timeout.                  *)
TimeoutInv == pc = "timeout" => timer = "expired" /\ event_idx = 1 /\ ~waiting

IInv == TypeOK /\ NoKeyLost /\ EventsClosed /\ CallsInv /\ TimeoutInv /\ TimeoutHonest
=============================================================================
