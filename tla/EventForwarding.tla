--------------------------- MODULE EventForwarding ---------------------------
(***************************************************************************)
(* The event half of supervisor_task: the FreeRTOS event group that every  *)
(* task sets bits in, and the supervisor's loop that reads the bits, clears *)
(* the bits it read and forwards them to the adapters one after the other. *)
(*                                                                         *)
(* Reading and clearing are two calls, so another task can set a bit       *)
(* between them, and set bits again while the adapters' handlers run.  All *)
(* registered adapters get the bits, the ones not initialised as well.     *)
(***************************************************************************)
EXTENDS Naturals

CONSTANTS
  Event,         \* the event bits
  CmndCompleted, \* SUPERVISOR_EVENT_CMND_COMPLETED
  Initialized,   \* SUPERVISOR_EVENT_PLATFORM_INITIALIZED
  AdapterCount   \* adapter_count

ASSUME EventAssumption ==
  /\ CmndCompleted \in Event /\ Initialized \in Event
  /\ AdapterCount \in Nat

Adapters == 1..AdapterCount

VARIABLES
  bits,    \* supervisor_event_group
  at,      \* where the supervisor task is in its loop
  batch,   \* the local variable "bits" of the loop
  next,    \* the adapter the batch goes to next
  unseen   \* history: events set since adapter a was last handed them

vars == <<bits, at, batch, next, unseen>>

TypeOK ==
  /\ bits \subseteq Event
  /\ at \in {"receive", "get", "clear", "forward"}
  /\ batch \subseteq Event
  /\ next \in 1..(AdapterCount + 1)
  /\ unseen \in [Adapters -> SUBSET Event]

(* supervisor_platform_init starts the task and sets the event that reports *)
(* the adapters initialised; the task has not run yet.                      *)
Init ==
  /\ bits = {Initialized}
  /\ at = "receive"
  /\ batch = {}
  /\ next = 1
  /\ unseen = [a \in Adapters |-> {Initialized}]

SetBits(e) ==
  /\ bits' = bits \cup {e}
  /\ unseen' = [a \in Adapters |-> unseen[a] \cup {e}]

(* supervisor_notify_event from a driver callback, a service task or the    *)
(* on_event handler the supervisor is calling.                              *)
Notify(e) ==
  /\ SetBits(e)
  /\ UNCHANGED <<at, batch, next>>

(* xQueueReceive: a job was run and is reported complete, or 100 ms passed. *)
Receive ==
  /\ at = "receive"
  /\ at' = "get"
  /\ \/ SetBits(CmndCompleted)
     \/ UNCHANGED <<bits, unseen>>
  /\ UNCHANGED <<batch, next>>

(* xEventGroupGetBits, and the test whether there are any.                  *)
GetBits ==
  /\ at = "get"
  /\ batch' = bits
  /\ at' = IF bits = {} THEN "receive" ELSE "clear"
  /\ UNCHANGED <<bits, next, unseen>>

(* xEventGroupClearBits with the bits read before.                          *)
ClearBits_All ==
  /\ at = "clear"
  /\ bits' = {}
  /\ at' = "forward"
  /\ next' = 1
  /\ UNCHANGED <<batch, unseen>>
ClearBits ==
  /\ at = "clear"
  /\ bits' = bits \ batch
  /\ at' = "forward"
  /\ next' = 1
  /\ UNCHANGED <<batch, unseen>>

(* on_event of one adapter; behind the last one the loop starts again.      *)
ForwardBits_ClearsLate ==
  /\ at = "forward"
  /\ IF next <= AdapterCount
       THEN /\ unseen' = [unseen EXCEPT ![next] = @ \ batch]
            /\ next' = next + 1
            /\ UNCHANGED <<at, bits>>
       ELSE /\ at' = "receive"
            /\ bits' = bits \ batch
            /\ UNCHANGED <<unseen, next>>
  /\ UNCHANGED batch
ForwardBits_SkipsLast ==
  /\ at = "forward"
  /\ IF next < AdapterCount
       THEN /\ unseen' = [unseen EXCEPT ![next] = @ \ batch]
            /\ next' = next + 1
            /\ UNCHANGED at
       ELSE /\ at' = "receive"
            /\ UNCHANGED <<unseen, next>>
  /\ UNCHANGED <<bits, batch>>
ForwardBits ==
  /\ at = "forward"
  /\ IF next <= AdapterCount
       THEN /\ unseen' = [unseen EXCEPT ![next] = @ \ batch]
            /\ next' = next + 1
            /\ UNCHANGED at
       ELSE /\ at' = "receive"
            /\ UNCHANGED <<unseen, next>>
  /\ UNCHANGED <<bits, batch>>

Loop == Receive \/ GetBits \/ ClearBits \/ ForwardBits

Next == \/ \E e \in Event : Notify(e)
        \/ Receive \/ GetBits \/ ClearBits \/ ForwardBits

Spec == Init /\ [][Next]_vars

(* The supervisor task never ends and blocks on the queue for 100 ms only.  *)
FairSpec == Spec /\ WF_vars(Loop)

-----------------------------------------------------------------------------

(* The events an adapter has still to be handed are in the event group, or  *)
(* in the batch being forwarded with the adapter's turn still to come: no   *)
(* event is lost between xEventGroupGetBits and xEventGroupClearBits or     *)
(* while the handlers of the adapters before it run.                        *)
OnItsWay(a) ==
  bits \cup (IF at = "clear" \/ (at = "forward" /\ next <= a) THEN batch ELSE {})
NoEventLost == \A a \in Adapters : unseen[a] \subseteq OnItsWay(a)

(* Every event set is handed to every adapter, however often others are set *)
(* meanwhile.                                                               *)
EventsReachAdapters ==
  \A a \in Adapters : \A e \in Event : e \in unseen[a] ~> e \notin unseen[a]

(* The loop implements the promise of EventDelivery, with the events on     *)
(* their way to an adapter as the events due to it: reading and clearing    *)
(* the bits are invisible, and each on_event call serves one adapter.       *)
Delivery == INSTANCE EventDelivery WITH due <- [a \in Adapters |-> OnItsWay(a)]
ImplementsDelivery == Delivery!Spec

=============================================================================
