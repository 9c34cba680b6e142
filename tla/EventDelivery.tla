---------------------------- MODULE EventDelivery ----------------------------
(***************************************************************************)
(* What supervisor_notify_event promises the adapters: an event that was   *)
(* set stays due to an adapter until that adapter is handed it, each       *)
(* adapter at its own time.  Events are bits, so several sets of one event *)
(* may be handed over as one.                                              *)
(***************************************************************************)
EXTENDS Naturals

CONSTANTS Event, AdapterCount

Adapters == 1..AdapterCount

VARIABLE due   \* due[a]: events set and still to be handed to adapter a

TypeOK == due \in [Adapters -> SUBSET Event]

Init == \E S \in SUBSET Event : due = [a \in Adapters |-> S]

(* An event is set.                                                         *)
Set(e) == due' = [a \in Adapters |-> due[a] \cup {e}]

(* Some of its events are handed to an adapter.                             *)
Deliver(a) == \E some \in SUBSET due[a] :
                /\ some # {}
                /\ due' = [due EXCEPT ![a] = @ \ some]

Next == \/ \E e \in Event : Set(e)
        \/ \E a \in Adapters : Deliver(a)

Spec == Init /\ [][Next]_due
=============================================================================
