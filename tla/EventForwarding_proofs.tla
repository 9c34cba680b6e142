------------------------ MODULE EventForwarding_proofs ------------------------
(***************************************************************************)
(* Proofs about EventForwarding: no event is lost, and the loop implements *)
(* EventDelivery, for any number of adapters and any set of events.        *)
(***************************************************************************)
EXTENDS EventForwarding, TLAPS

(* Every state the supervisor's loop and the notifying tasks can reach is   *)
(* well typed: in particular the loop index stays within the adapters.      *)
THEOREM TypeCorrect == Spec => []TypeOK
<1>1. Init => TypeOK
  BY EventAssumption DEF Init, TypeOK, Adapters
<1>2. TypeOK /\ [Next]_vars => TypeOK'
  <2> SUFFICES ASSUME TypeOK, [Next]_vars PROVE TypeOK'
    OBVIOUS
  <2> USE EventAssumption DEF TypeOK, Adapters
  <2>1. CASE \E e \in Event : Notify(e)
    BY <2>1 DEF Notify, SetBits
  <2>2. CASE Receive
    BY <2>2 DEF Receive, SetBits
  <2>3. CASE GetBits
    BY <2>3 DEF GetBits
  <2>4. CASE ClearBits
    BY <2>4 DEF ClearBits
  <2>5. CASE ForwardBits
    BY <2>5 DEF ForwardBits
  <2>6. CASE UNCHANGED vars
    BY <2>6 DEF vars
  <2>7. QED
    BY <2>1, <2>2, <2>3, <2>4, <2>5, <2>6 DEF Next
<1>3. QED
  BY <1>1, <1>2, PTL DEF Spec

(* No event set by any task is lost on its way to an adapter: not between   *)
(* xEventGroupGetBits and xEventGroupClearBits, not during the handlers.    *)
THEOREM NothingLost == Spec => []NoEventLost
<1>1. Init => NoEventLost
  BY DEF Init, NoEventLost, OnItsWay
<1>2. TypeOK /\ NoEventLost /\ [Next]_vars => NoEventLost'
  <2> SUFFICES ASSUME TypeOK, NoEventLost, [Next]_vars,
                      NEW a \in Adapters
               PROVE  unseen'[a] \subseteq OnItsWay(a)'
    BY DEF NoEventLost
  <2> USE EventAssumption DEF TypeOK, NoEventLost, OnItsWay, Adapters
  <2>1. CASE \E e \in Event : Notify(e)
    BY <2>1 DEF Notify, SetBits
  <2>2. CASE Receive
    BY <2>2 DEF Receive, SetBits
  <2>3. CASE GetBits
    BY <2>3 DEF GetBits
  <2>4. CASE ClearBits
    BY <2>4 DEF ClearBits
  <2>5. CASE ForwardBits
    <3>1. CASE next = a
      BY <2>5, <3>1 DEF ForwardBits
    <3>2. CASE next # a
      BY <2>5, <3>2 DEF ForwardBits
    <3>3. QED
      BY <3>1, <3>2
  <2>6. CASE UNCHANGED vars
    BY <2>6 DEF vars
  <2>7. QED
    BY <2>1, <2>2, <2>3, <2>4, <2>5, <2>6 DEF Next
<1>3. QED
  BY <1>1, <1>2, TypeCorrect, PTL DEF Spec

(* The supervisor's event loop implements EventDelivery: an event on its    *)
(* way to an adapter stays so until that adapter's on_event is called.      *)
THEOREM LoopImplementsDelivery == Spec => ImplementsDelivery
<1> DEFINE way == [a \in Adapters |-> OnItsWay(a)]
<1>1. Init => Delivery!Init
  <2> SUFFICES ASSUME Init PROVE Delivery!Init
    OBVIOUS
  <2>1. way = [a \in Adapters |-> {Initialized}]
    BY DEF Init, OnItsWay
  <2>2. {Initialized} \in SUBSET Event
    BY EventAssumption
  <2>3. QED
    BY <2>1, <2>2 DEF Delivery!Init, Delivery!Adapters, Adapters
<1>2. TypeOK /\ [Next]_vars => [Delivery!Next]_way
  <2> SUFFICES ASSUME TypeOK, [Next]_vars
               PROVE  Delivery!Next \/ way' = way
    OBVIOUS
  <2> USE EventAssumption
  <2>1. ASSUME NEW e \in Event, SetBits(e), UNCHANGED <<batch, next>>,
               UNCHANGED at \/ (at = "receive" /\ at' = "get")
        PROVE  Delivery!Set(e)
    <3>1. \A a \in Adapters : OnItsWay(a)' = OnItsWay(a) \cup {e}
      BY <2>1 DEF SetBits, OnItsWay
    <3>2. QED
      BY <3>1 DEF Delivery!Set, Delivery!Adapters, Adapters
  <2>2. ASSUME NEW e \in Event, Notify(e) PROVE Delivery!Next
    BY <2>1, <2>2 DEF Notify, Delivery!Next
  <2>3. CASE Receive
    <3>1. CASE SetBits(CmndCompleted)
      BY <2>1, <2>3, <3>1 DEF Receive, Delivery!Next
    <3>2. CASE UNCHANGED <<bits, unseen>>
      BY <2>3, <3>2 DEF Receive, OnItsWay
    <3>3. QED
      BY <2>3, <3>1, <3>2 DEF Receive
  <2>4. CASE GetBits
    BY <2>4 DEF GetBits, OnItsWay
  <2>5. CASE ClearBits
    <3>1. \A a \in Adapters : OnItsWay(a)' = OnItsWay(a)
      BY <2>5 DEF ClearBits, OnItsWay, Adapters
    <3>2. QED
      BY <3>1
  <2>6. CASE ForwardBits
    <3>1. CASE next <= AdapterCount
      <4>1. next \in Adapters
        BY <3>1 DEF TypeOK, Adapters
      <4>2. \A a \in Adapters : a # next => OnItsWay(a)' = OnItsWay(a)
        BY <2>6, <3>1 DEF ForwardBits, OnItsWay, TypeOK, Adapters
      <4>3. OnItsWay(next) = bits \cup batch
        BY <2>6 DEF ForwardBits, OnItsWay, TypeOK
      <4>4. way'[next] = bits
        BY <2>6, <3>1, <4>1 DEF ForwardBits, OnItsWay, TypeOK, Adapters
      <4>5. CASE bits = bits \cup batch
        <5>1. \A a \in Adapters : way'[a] = way[a]
          BY <4>1, <4>2, <4>3, <4>4, <4>5
        <5>2. QED
          BY <5>1
      <4>6. CASE bits # bits \cup batch
        <5> DEFINE some == way[next] \ bits
        <5>1. some \in SUBSET way[next] /\ some # {} /\ way[next] \ some = bits
          BY <4>1, <4>3, <4>6
        <5>2. \A a \in Adapters :
                way'[a] = IF a = next THEN way[a] \ some ELSE way[a]
          BY <4>1, <4>2, <4>4, <5>1
        <5>3. way' = [way EXCEPT ![next] = @ \ some]
          BY <5>2
        <5>4. Delivery!Deliver(next)
          BY <5>1, <5>3 DEF Delivery!Deliver
        <5>5. QED
          BY <4>1, <5>4 DEF Delivery!Next, Delivery!Adapters, Adapters
      <4>7. QED
        BY <4>5, <4>6
    <3>2. CASE next > AdapterCount
      <4>1. \A a \in Adapters : OnItsWay(a)' = OnItsWay(a)
        BY <2>6, <3>2 DEF ForwardBits, OnItsWay, TypeOK, Adapters
      <4>2. QED
        BY <4>1
    <3>3. QED
      BY <3>1, <3>2 DEF TypeOK
  <2>7. CASE UNCHANGED vars
    BY <2>7 DEF vars, OnItsWay
  <2>8. QED
    BY <2>2, <2>3, <2>4, <2>5, <2>6, <2>7 DEF Next
<1>3. QED
  BY <1>1, <1>2, TypeCorrect, PTL DEF Spec, ImplementsDelivery, Delivery!Spec
=============================================================================
