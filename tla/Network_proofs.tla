---------------------------- MODULE Network_proofs ----------------------------
(***************************************************************************)
(* Proofs about the network side but for Wi-Fi: Ethernet, the log monitor, *)
(* the ESP-NOW radio and the Internet adapter, whose calls are lists of    *)
(* steps between which the world may do anything; of all but the last, any *)
(* step may fail.  At the end they are put together with Wi-Fi as in       *)
(* MCNetwork.                                                              *)
(***************************************************************************)
EXTENDS MCNetwork, Wifi_proofs, SequenceTheorems, TLAPS

(***************************************************************************)
(* Lists of steps                                                          *)
(***************************************************************************)
(* The empty list is neutral.                                                *)
LEMMA Nil ==
  ASSUME NEW S, NEW s \in Seq(S)
  PROVE  <<>> \in Seq(S) /\ <<>> \o s = s /\ s \o <<>> = s
  BY ConcatEmptySeq

(* A list that is not empty stays in front of what is appended to it.        *)
LEMMA Joined ==
  ASSUME NEW S, NEW s \in Seq(S), NEW t \in Seq(S), s # <<>>
  PROVE  /\ s \o t \in Seq(S) /\ s \o t # <<>>
         /\ Head(s \o t) = Head(s) /\ Tail(s \o t) = Tail(s) \o t
<1>1. /\ s \o t \in Seq(S) /\ s \o t # <<>> /\ Head(s \o t) = Head(s) /\ Tail(s) \in Seq(S)
      /\ Len(s \o t) = Len(s) + Len(t) /\ Len(Tail(s)) = Len(s) - 1
      /\ Len(s) \in Nat /\ Len(t) \in Nat
  OBVIOUS
<1> DEFINE u == Tail(s \o t)
           v == Tail(s) \o t
<1>2. u \in Seq(S) /\ v \in Seq(S) /\ Len(u) = Len(v) /\ Len(u) = Len(s) + Len(t) - 1
  BY <1>1
<1>3. \A i \in 1..Len(u) : u[i] = v[i]
  BY <1>1
<1>4. u = v
  BY <1>2, <1>3, SeqEqual
<1> QED BY <1>1, <1>4

(* The list todo begins with step, and what is left then is rest.           *)
Starts(todo, step, rest) == todo # <<>> /\ Head(todo) = step /\ Tail(todo) = rest

(* A list of one step.                                                       *)
LEMMA One ==
  ASSUME NEW S, NEW a \in S
  PROVE  <<a>> \in Seq(S) /\ Starts(<<a>>, a, <<>>)
  BY DEF Starts

(* A list of two steps.                                                      *)
LEMMA Two ==
  ASSUME NEW S, NEW a \in S, NEW b \in S
  PROVE  <<a, b>> \in Seq(S) /\ Starts(<<a, b>>, a, <<b>>)
  BY DEF Starts

(* What is appended to a list does not change its first step,                *)
LEMMA StartsJoined ==
  ASSUME NEW S, NEW s \in Seq(S), NEW t \in Seq(S), NEW a, NEW r, Starts(s, a, r)
  PROVE  s \o t \in Seq(S) /\ Starts(s \o t, a, r \o t)
  BY Joined DEF Starts

(* and neither does what is appended to that.                                *)
LEMMA StartsJoinedTwice ==
  ASSUME NEW S, NEW s \in Seq(S), NEW t \in Seq(S), NEW u \in Seq(S), NEW a, NEW r,
         Starts(s, a, r)
  PROVE  Starts((s \o t) \o u, a, (r \o t) \o u)
<1>1. s \o t \in Seq(S) /\ Starts(s \o t, a, r \o t)
  BY StartsJoined
<1> QED BY <1>1, StartsJoined

-----------------------------------------------------------------------------
(* Ethernet: the lists of an initialisation, a rollback and a shutdown      *)

On == <<"handlers", TRUE>>
Off == <<"handlers", FALSE>>
EtSteps == {On, Off, <<"services">>, <<"attach">>, <<"start">>, <<"stop">>, <<"uninstall">>,
            <<"up">>, <<"down">>} \cup {<<k, p>> : k \in {"get", "put"}, p \in Parts}

FromUp     == << <<"up">> >>
FromStart  == << <<"start">>, <<"up">> >>
FromAttach == << <<"attach">>, <<"start">>, <<"up">> >>
FromGlue   == << <<"get", "glue">>, <<"attach">>, <<"start">>, <<"up">> >>
FromNetif  == << <<"get", "netif">>, <<"get", "glue">>, <<"attach">>, <<"start">>, <<"up">> >>
FromDriver == << <<"get", "driver">>, <<"get", "netif">>, <<"get", "glue">>, <<"attach">>,
                 <<"start">>, <<"up">> >>
FromPhy    == << <<"get", "phy">>, <<"get", "driver">>, <<"get", "netif">>, <<"get", "glue">>,
                 <<"attach">>, <<"start">>, <<"up">> >>
FromMac    == << <<"get", "mac">>, <<"get", "phy">>, <<"get", "driver">>, <<"get", "netif">>,
                 <<"get", "glue">>, <<"attach">>, <<"start">>, <<"up">> >>
FromBus    == << <<"get", "bus">> >> \o FromMac

BackOff   == << Off >>
BackMac   == << <<"put", "mac">> >> \o BackOff
BackPhy   == << <<"put", "phy">>, <<"put", "mac">> >> \o BackOff
BackAll   == BackendSteps \o BackOff
BackNetif == (<< <<"put", "netif">> >> \o BackendSteps) \o BackOff
BackGlue  == (<< <<"put", "glue">>, <<"put", "netif">> >> \o BackendSteps) \o BackOff

DownLast     == << <<"down">> >>
DownAll      == BackendSteps \o DownLast
DownNetif    == (<< <<"put", "netif">> >> \o BackendSteps) \o DownLast
DownGlue     == (<< <<"put", "glue">>, <<"put", "netif">> >> \o BackendSteps) \o DownLast
DownStop     == (<< <<"stop">>, <<"put", "glue">>, <<"put", "netif">> >> \o BackendSteps) \o DownLast
DownServices == (<< <<"services">>, <<"stop">>, <<"put", "glue">>, <<"put", "netif">> >>
                   \o BackendSteps) \o DownLast

(* The calls of the Ethernet adapter, step by step.                          *)
LEMMA EtLists ==
  /\ Starts(InitSteps, On, IF etBackend = "w5500" THEN FromBus ELSE FromMac)
  /\ Starts(FromBus, <<"get", "bus">>, FromMac)
  /\ Starts(FromMac, <<"get", "mac">>, FromPhy)
  /\ Starts(FromPhy, <<"get", "phy">>, FromDriver)
  /\ Starts(FromDriver, <<"get", "driver">>, FromNetif)
  /\ Starts(FromNetif, <<"get", "netif">>, FromGlue)
  /\ Starts(FromGlue, <<"get", "glue">>, FromAttach)
  /\ Starts(FromAttach, <<"attach">>, FromStart)
  /\ Starts(FromStart, <<"start">>, FromUp)
  /\ Starts(FromUp, <<"up">>, <<>>)
  /\ Starts(BackGlue, <<"put", "glue">>, BackNetif)
  /\ Starts(BackNetif, <<"put", "netif">>, BackAll)
  /\ Starts(BackAll, <<"uninstall">>, BackOff)
  /\ Starts(BackPhy, <<"put", "phy">>, BackMac)
  /\ Starts(BackMac, <<"put", "mac">>, BackOff)
  /\ Starts(BackOff, Off, <<>>)
  /\ Starts(ShutdownSteps, Off, DownServices)
  /\ Starts(DownServices, <<"services">>, DownStop)
  /\ Starts(DownStop, <<"stop">>, DownGlue)
  /\ Starts(DownGlue, <<"put", "glue">>, DownNetif)
  /\ Starts(DownNetif, <<"put", "netif">>, DownAll)
  /\ Starts(DownAll, <<"uninstall">>, DownLast)
  /\ Starts(DownLast, <<"down">>, <<>>)
<1> DEFINE S == EtSteps
           glue == <<"put", "glue">>   netif == <<"put", "netif">>   bus == <<"get", "bus">>
<1>1. /\ {On, Off, <<"services">>, <<"stop">>, <<"uninstall">>, <<"down">>} \subseteq S
      /\ glue \in S /\ netif \in S /\ bus \in S
      /\ <<"put", "mac">> \in S /\ <<"put", "phy">> \in S /\ FromMac \in Seq(S)
  BY DEF EtSteps, Parts, FromMac
<1> HIDE DEF S
<1>2. BackendSteps \in Seq(S) /\ Starts(BackendSteps, <<"uninstall">>, <<>>)
  BY <1>1, One DEF BackendSteps
<1>3. /\ BackOff \in Seq(S) /\ Starts(BackOff, Off, <<>>)
      /\ DownLast \in Seq(S) /\ Starts(DownLast, <<"down">>, <<>>)
  BY <1>1, One DEF BackOff, DownLast
<1>4. /\ Starts(FromBus, bus, FromMac)
      /\ Starts(InitSteps, On, IF etBackend = "w5500" THEN FromBus ELSE FromMac)
  <2>1. <<bus>> \in Seq(S) /\ Starts(<<bus>>, bus, <<>>) /\ <<On>> \in Seq(S) /\ Starts(<<On>>, On, <<>>)
    BY <1>1, One
  <2>2. Starts(<<bus>> \o FromMac, bus, <<>> \o FromMac)
    BY <2>1, <1>1, StartsJoined
  <2> DEFINE first == IF etBackend = "w5500" THEN <<bus>> ELSE <<>>
  <2>3. first \in Seq(S)
    BY <2>1
  <2>4. Starts((<<On>> \o first) \o FromMac, On, (<<>> \o first) \o FromMac)
    BY <1>1, <2>1, <2>3, StartsJoinedTwice
  <2>5. <<>> \o FromMac = FromMac /\ <<>> \o first = first
    BY <1>1, <2>3, Nil
  <2>6. first \o FromMac = IF etBackend = "w5500" THEN FromBus ELSE FromMac
    BY <2>5 DEF FromBus
  <2>7. InitSteps = (<<On>> \o first) \o FromMac
    BY DEF InitSteps, On, FromMac
  <2> QED BY <2>2, <2>4, <2>5, <2>6, <2>7 DEF FromBus
<1>5. /\ Starts(FromMac, <<"get", "mac">>, FromPhy)
      /\ Starts(FromPhy, <<"get", "phy">>, FromDriver)
      /\ Starts(FromDriver, <<"get", "driver">>, FromNetif)
      /\ Starts(FromNetif, <<"get", "netif">>, FromGlue)
      /\ Starts(FromGlue, <<"get", "glue">>, FromAttach)
      /\ Starts(FromAttach, <<"attach">>, FromStart)
      /\ Starts(FromStart, <<"start">>, FromUp)
      /\ Starts(FromUp, <<"up">>, <<>>)
  BY DEF Starts, FromMac, FromPhy, FromDriver, FromNetif, FromGlue, FromAttach, FromStart, FromUp
<1>6. <<>> \o BackendSteps = BackendSteps /\ <<>> \o BackOff = BackOff /\ <<>> \o DownLast = DownLast
  BY <1>2, <1>3, Nil
<1>7. Starts(BackAll, <<"uninstall">>, BackOff) /\ Starts(DownAll, <<"uninstall">>, DownLast)
  <2>1. Starts(BackAll, <<"uninstall">>, <<>> \o BackOff)
    BY <1>2, <1>3, StartsJoined DEF BackAll
  <2>2. Starts(DownAll, <<"uninstall">>, <<>> \o DownLast)
    BY <1>2, <1>3, StartsJoined DEF DownAll
  <2> QED BY <2>1, <2>2, <1>6
<1>8. <<netif>> \in Seq(S) /\ Starts(<<netif>>, netif, <<>>)
  BY <1>1, One
<1>9. <<glue, netif>> \in Seq(S) /\ Starts(<<glue, netif>>, glue, <<netif>>)
  BY <1>1, Two
<1>10. Starts(BackNetif, netif, BackAll) /\ Starts(DownNetif, netif, DownAll)
  <2>1. Starts((<<netif>> \o BackendSteps) \o BackOff, netif, (<<>> \o BackendSteps) \o BackOff)
    BY <1>2, <1>3, <1>8, StartsJoinedTwice
  <2>2. Starts((<<netif>> \o BackendSteps) \o DownLast, netif, (<<>> \o BackendSteps) \o DownLast)
    BY <1>2, <1>3, <1>8, StartsJoinedTwice
  <2> QED BY <2>1, <2>2, <1>6 DEF BackNetif, BackAll, DownNetif, DownAll
<1>11. Starts(BackGlue, glue, BackNetif) /\ Starts(DownGlue, glue, DownNetif)
  BY <1>2, <1>3, <1>9, StartsJoinedTwice DEF BackGlue, BackNetif, DownGlue, DownNetif
<1>12. /\ Starts(BackMac, <<"put", "mac">>, BackOff)
       /\ Starts(BackPhy, <<"put", "phy">>, BackMac)
  <2>1. << <<"put", "mac">> >> \in Seq(S) /\ Starts(<< <<"put", "mac">> >>, <<"put", "mac">>, <<>>)
    BY <1>1, One
  <2>2. /\ << <<"put", "phy">>, <<"put", "mac">> >> \in Seq(S)
        /\ Starts(<< <<"put", "phy">>, <<"put", "mac">> >>, <<"put", "phy">>, << <<"put", "mac">> >>)
    BY <1>1, Two
  <2>3. Starts(BackMac, <<"put", "mac">>, <<>> \o BackOff)
    BY <2>1, <1>3, StartsJoined DEF BackMac
  <2>4. Starts(BackPhy, <<"put", "phy">>, BackMac)
    BY <2>2, <1>3, StartsJoined DEF BackPhy, BackMac
  <2> QED BY <2>3, <2>4, <1>6
<1>13. /\ Starts(DownStop, <<"stop">>, DownGlue)
       /\ Starts(DownServices, <<"services">>, DownStop)
       /\ Starts(ShutdownSteps, Off, DownServices)
  <2> DEFINE s3 == << <<"stop">>, glue, netif>>
             s4 == << <<"services">>, <<"stop">>, glue, netif>>
             s5 == <<Off, <<"services">>, <<"stop">>, glue, netif>>
  <2>1. /\ s3 \in Seq(S) /\ Starts(s3, <<"stop">>, <<glue, netif>>)
        /\ s4 \in Seq(S) /\ Starts(s4, <<"services">>, s3)
        /\ s5 \in Seq(S) /\ Starts(s5, Off, s4)
    BY <1>1 DEF Starts
  <2>2. Starts(DownStop, <<"stop">>, DownGlue)
    BY <1>2, <1>3, <2>1, StartsJoinedTwice DEF DownStop, DownGlue
  <2>3. Starts(DownServices, <<"services">>, DownStop)
    BY <1>2, <1>3, <2>1, StartsJoinedTwice DEF DownStop, DownServices
  <2>4. ShutdownSteps = (s5 \o BackendSteps) \o DownLast
    BY DEF ShutdownSteps, Off, DownLast
  <2>5. Starts(ShutdownSteps, Off, DownServices)
    BY <1>2, <1>3, <2>1, <2>4, StartsJoinedTwice DEF DownServices
  <2> QED BY <2>2, <2>3, <2>5
<1> QED BY <1>3, <1>4, <1>5, <1>7, <1>10, <1>11, <1>12, <1>13


(* What exists, bus apart, and what the flags say.                           *)
Has(events, held, handle, runs, up) ==
  /\ etEvents = events /\ etHandle = handle /\ etRunning = runs /\ etUp = up /\ etReady = up
  /\ ~etLeaked => etHeld \ {"bus"} = held

(* An initialisation, a rollback and a shutdown at each of their steps, and  *)
(* the adapter at rest.                                                      *)
Starting ==
  \/ etTodo = InitSteps  /\ Has(FALSE, {}, FALSE, FALSE, FALSE)
  \/ etTodo = FromBus    /\ Has(TRUE, {}, FALSE, FALSE, FALSE)
  \/ etTodo = FromMac    /\ Has(TRUE, {}, FALSE, FALSE, FALSE)
  \/ etTodo = FromPhy    /\ Has(TRUE, {"mac"}, FALSE, FALSE, FALSE)
  \/ etTodo = FromDriver /\ Has(TRUE, {"mac", "phy"}, FALSE, FALSE, FALSE)
  \/ etTodo = FromNetif  /\ Has(TRUE, {"mac", "phy", "driver"}, TRUE, FALSE, FALSE)
  \/ etTodo = FromGlue   /\ Has(TRUE, {"mac", "phy", "driver", "netif"}, TRUE, FALSE, FALSE)
  \/ etTodo = FromAttach /\ Has(TRUE, Parts \ {"bus"}, TRUE, FALSE, FALSE)
  \/ etTodo = FromStart  /\ Has(TRUE, Parts \ {"bus"}, TRUE, FALSE, FALSE)
  \/ etTodo = FromUp     /\ Has(TRUE, Parts \ {"bus"}, TRUE, TRUE, FALSE)
RollingBack ==
  \/ etTodo = BackGlue   /\ Has(TRUE, Parts \ {"bus"}, TRUE, FALSE, FALSE)
  \/ etTodo = BackNetif  /\ Has(TRUE, {"mac", "phy", "driver", "netif"}, TRUE, FALSE, FALSE)
  \/ etTodo = BackAll    /\ Has(TRUE, {"mac", "phy", "driver"}, TRUE, FALSE, FALSE)
  \/ etTodo = BackPhy    /\ Has(TRUE, {"mac", "phy"}, FALSE, FALSE, FALSE)
  \/ etTodo = BackMac    /\ Has(TRUE, {"mac"}, FALSE, FALSE, FALSE)
  \/ etTodo = BackOff    /\ Has(TRUE, {}, FALSE, FALSE, FALSE)
ShuttingDown ==
  \/ etTodo = ShutdownSteps /\ Has(TRUE, Parts \ {"bus"}, TRUE, TRUE, TRUE)
  \/ etTodo = DownServices  /\ Has(FALSE, Parts \ {"bus"}, TRUE, TRUE, TRUE)
  \/ etTodo = DownStop      /\ Has(FALSE, Parts \ {"bus"}, TRUE, TRUE, TRUE) /\ ~etServing
  \/ etTodo = DownGlue      /\ Has(FALSE, Parts \ {"bus"}, TRUE, FALSE, TRUE)
  \/ etTodo = DownNetif     /\ Has(FALSE, {"mac", "phy", "driver", "netif"}, TRUE, FALSE, TRUE)
  \/ etTodo = DownAll       /\ Has(FALSE, {"mac", "phy", "driver"}, TRUE, FALSE, TRUE)
  \/ etTodo = DownLast      /\ Has(FALSE, {}, FALSE, FALSE, TRUE)
EtResting ==
  /\ etTodo = <<>>
  /\ \/ Has(FALSE, {}, FALSE, FALSE, FALSE)
     \/ Has(TRUE, Parts \ {"bus"}, TRUE, TRUE, TRUE)
StageInv == Starting \/ RollingBack \/ ShuttingDown \/ EtResting

(* The services are all or none of those of an adapter, and they run as the  *)
(* link says while its changes are reported, one by one.  A driver that is   *)
(* stopped has no link, and the bits it left behind count as mixed.          *)
LinkInv ==
  /\ ~etRunning => etLink = "down"
  /\ etSvc \ {"mqtt", "http"} = IF etServing THEN Stoppable \ {"mqtt"} ELSE {}
  /\ (etEvents \/ ~etRunning) /\ etBits = {} /\ ~etMixed => (etServing <=> etLink = "ip")
EthernetInv == EthernetTypeOK /\ StageInv /\ LinkInv

(* The parts of the type invariant.                                          *)
LEMMA EtTypes ==
  ASSUME EthernetTypeOK
  PROVE  /\ etRunning \in BOOLEAN /\ etHandle \in BOOLEAN /\ etReady \in BOOLEAN
         /\ etUp \in BOOLEAN /\ etEvents \in BOOLEAN /\ etDhcp \in BOOLEAN
         /\ etServing \in BOOLEAN /\ etMixed \in BOOLEAN /\ etLeaked \in BOOLEAN
         /\ etHeld \subseteq Parts /\ etBits \subseteq {"ready", "lost"}
         /\ etLink \in {"down", "up", "ip"} /\ etSvc \subseteq Stoppable \cup {"http"}
  BY DEF EthernetTypeOK

(* What each kind of step does.                                              *)
LEMMA HandlersStep ==
  ASSUME StepDone, NEW b \in BOOLEAN, NEW rest, Starts(etTodo, <<"handlers", b>>, rest)
  PROVE  etTodo' = rest /\ etEvents' = b /\ UNCHANGED <<etDriver, etUp, etServed, etNetwork>>
  BY DEF StepDone, Starts

(* What each kind of step does: a part is acquired,                          *)
LEMMA GetStep ==
  ASSUME StepDone, NEW p \in Parts, NEW rest, Starts(etTodo, <<"get", p>>, rest)
  PROVE  /\ etTodo' = rest /\ etHeld' = etHeld \cup {p} /\ etHandle' = (etHandle \/ p = "driver")
         /\ UNCHANGED <<etRunning, etReady, etLeaked, etAdapter, etServed, etNetwork>>
  BY DEF StepDone, Starts, Get

(* given back,                                                               *)
LEMMA PutStep ==
  ASSUME StepDone, NEW p \in Parts, NEW rest, Starts(etTodo, <<"put", p>>, rest)
  PROVE  /\ etTodo' = rest /\ etHeld' = etHeld \ {p}
         /\ UNCHANGED <<etRunning, etHandle, etReady, etLeaked, etAdapter, etServed, etLink, etBits>>
  BY DEF StepDone, Starts

(* the network interface is attached or detached,                            *)
LEMMA AttachStep ==
  ASSUME StepDone, NEW rest, Starts(etTodo, <<"attach">>, rest)
  PROVE  etTodo' = rest /\ UNCHANGED <<etDriver, etAdapter, etServed, etNetwork>>
  BY DEF StepDone, Starts

(* the driver is started or stopped,                                         *)
LEMMA StartStopStep ==
  ASSUME StepDone, NEW s \in {"start", "stop"}, NEW rest, Starts(etTodo, <<s>>, rest)
  PROVE  /\ etTodo' = rest /\ etRunning' = (s = "start") /\ etLink' = "down"
         /\ UNCHANGED <<etHeld, etHandle, etReady, etLeaked, etAdapter, etServed, etBits>>
  BY DEF StepDone, Starts

(* uninstalled, which may leak it,                                           *)
LEMMA UninstallStep ==
  ASSUME StepDone, NEW rest, Starts(etTodo, <<"uninstall">>, rest)
  PROVE  /\ etTodo' = rest /\ etHandle' = FALSE
         /\ \/ etHeld' = etHeld \ {"driver", "mac", "phy", "bus"} /\ etLeaked' = etLeaked
            \/ etLeaked' = TRUE
         /\ UNCHANGED <<etRunning, etReady, etAdapter, etServed, etNetwork>>
  BY DEF StepDone, Starts

(* the services are stopped,                                                 *)
LEMMA ServicesStep ==
  ASSUME StepDone, NEW rest, Starts(etTodo, <<"services">>, rest)
  PROVE  etTodo' = rest /\ StopServing /\ UNCHANGED <<etDriver, etAdapter, etMixed, etNetwork>>
  BY DEF StepDone, Starts

(* and the adapter is marked as up or down.                                  *)
LEMMA UpDownStep ==
  ASSUME StepDone, NEW s \in {"up", "down"}, NEW rest, Starts(etTodo, <<s>>, rest)
  PROVE  /\ etTodo' = rest /\ etReady' = (s = "up") /\ etUp' = (s = "up")
         /\ UNCHANGED <<etHeld, etRunning, etHandle, etLeaked, etEvents, etServed, etNetwork>>
<1>1. etTodo' = rest /\ Head(etTodo) = <<s>> /\ <<s>>[1] = s
  BY DEF StepDone, Starts
<1> QED BY <1>1 DEF StepDone

(* A set-up that has acquired what its steps so far acquire goes on so,      *)
LEMMA StartingGoesOn ==
  ASSUME EthernetInv, Starting, StepDone
  PROVE  StageInv' /\ LinkInv'
<1> USE EtTypes DEF EthernetInv, Has, Parts, etDriver, etAdapter, etServed, etNetwork, LinkInv,
                    StageInv, Starting, EtResting
<1>1. CASE etTodo = InitSteps /\ Has(FALSE, {}, FALSE, FALSE, FALSE)
  BY <1>1, EtLists, HandlersStep DEF On, Off
<1>2. CASE etTodo = FromBus /\ Has(TRUE, {}, FALSE, FALSE, FALSE)
  BY <1>2, EtLists, GetStep
<1>3. CASE etTodo = FromMac /\ Has(TRUE, {}, FALSE, FALSE, FALSE)
  BY <1>3, EtLists, GetStep
<1>4. CASE etTodo = FromPhy /\ Has(TRUE, {"mac"}, FALSE, FALSE, FALSE)
  BY <1>4, EtLists, GetStep
<1>5. CASE etTodo = FromDriver /\ Has(TRUE, {"mac", "phy"}, FALSE, FALSE, FALSE)
  BY <1>5, EtLists, GetStep
<1>6. CASE etTodo = FromNetif /\ Has(TRUE, {"mac", "phy", "driver"}, TRUE, FALSE, FALSE)
  BY <1>6, EtLists, GetStep
<1>7. CASE etTodo = FromGlue /\ Has(TRUE, {"mac", "phy", "driver", "netif"}, TRUE, FALSE, FALSE)
  BY <1>7, EtLists, GetStep
<1>8. CASE etTodo = FromAttach /\ Has(TRUE, Parts \ {"bus"}, TRUE, FALSE, FALSE)
  BY <1>8, EtLists, AttachStep
<1>9. CASE etTodo = FromStart /\ Has(TRUE, Parts \ {"bus"}, TRUE, FALSE, FALSE)
  BY <1>9, EtLists, StartStopStep
<1>10. CASE etTodo = FromUp /\ Has(TRUE, Parts \ {"bus"}, TRUE, TRUE, FALSE)
  BY <1>10, EtLists, UpDownStep
<1> QED BY <1>1, <1>2, <1>3, <1>4, <1>5, <1>6, <1>7, <1>8, <1>9, <1>10

(* a roll-back has given back what its steps so far give back,               *)
LEMMA RollingBackGoesOn ==
  ASSUME EthernetInv, RollingBack, StepDone
  PROVE  StageInv' /\ LinkInv'
<1> USE EtTypes DEF EthernetInv, Has, Parts, etDriver, etAdapter, etServed, etNetwork, LinkInv,
                    StageInv, RollingBack, EtResting
<1>1. CASE etTodo = BackGlue /\ Has(TRUE, Parts \ {"bus"}, TRUE, FALSE, FALSE)
  BY <1>1, EtLists, PutStep
<1>2. CASE etTodo = BackNetif /\ Has(TRUE, {"mac", "phy", "driver", "netif"}, TRUE, FALSE, FALSE)
  BY <1>2, EtLists, PutStep
<1>3. CASE etTodo = BackAll /\ Has(TRUE, {"mac", "phy", "driver"}, TRUE, FALSE, FALSE)
  BY <1>3, EtLists, UninstallStep
<1>4. CASE etTodo = BackPhy /\ Has(TRUE, {"mac", "phy"}, FALSE, FALSE, FALSE)
  BY <1>4, EtLists, PutStep
<1>5. CASE etTodo = BackMac /\ Has(TRUE, {"mac"}, FALSE, FALSE, FALSE)
  BY <1>5, EtLists, PutStep
<1>6. CASE etTodo = BackOff /\ Has(TRUE, {}, FALSE, FALSE, FALSE)
  BY <1>6, EtLists, HandlersStep DEF On, Off
<1> QED BY <1>1, <1>2, <1>3, <1>4, <1>5, <1>6

(* and so has a shutdown.                                                    *)
LEMMA ShuttingDownGoesOn ==
  ASSUME EthernetInv, ShuttingDown, StepDone
  PROVE  StageInv' /\ LinkInv'
<1> USE EtTypes DEF EthernetInv, Has, Parts, etDriver, etAdapter, etServed, etNetwork, LinkInv,
                    StageInv, ShuttingDown, EtResting
<1>1. CASE etTodo = ShutdownSteps /\ Has(TRUE, Parts \ {"bus"}, TRUE, TRUE, TRUE)
  BY <1>1, EtLists, HandlersStep DEF On, Off
<1>2. CASE etTodo = DownServices /\ Has(FALSE, Parts \ {"bus"}, TRUE, TRUE, TRUE)
  BY <1>2, EtLists, ServicesStep DEF StopServing
<1>3. CASE etTodo = DownStop /\ Has(FALSE, Parts \ {"bus"}, TRUE, TRUE, TRUE) /\ ~etServing
  BY <1>3, EtLists, StartStopStep
<1>4. CASE etTodo = DownGlue /\ Has(FALSE, Parts \ {"bus"}, TRUE, FALSE, TRUE)
  BY <1>4, EtLists, PutStep
<1>5. CASE etTodo = DownNetif /\ Has(FALSE, {"mac", "phy", "driver", "netif"}, TRUE, FALSE, TRUE)
  BY <1>5, EtLists, PutStep
<1>6. CASE etTodo = DownAll /\ Has(FALSE, {"mac", "phy", "driver"}, TRUE, FALSE, TRUE)
  BY <1>6, EtLists, UninstallStep
<1>7. CASE etTodo = DownLast /\ Has(FALSE, {}, FALSE, FALSE, TRUE)
  BY <1>7, EtLists, UpDownStep
<1> QED BY <1>1, <1>2, <1>3, <1>4, <1>5, <1>6, <1>7

(* What the failing steps give back, with the handlers at the end.           *)
LEMMA RollbackLists ==
  /\ Rollback(<<"get", "bus">>) \o BackOff = BackOff
  /\ Rollback(<<"get", "mac">>) \o BackOff = BackOff
  /\ Rollback(<<"get", "phy">>) \o BackOff = BackMac
  /\ Rollback(<<"get", "driver">>) \o BackOff = BackPhy
  /\ Rollback(<<"get", "netif">>) \o BackOff = BackAll
  /\ Rollback(<<"get", "glue">>) \o BackOff = BackNetif
  /\ Rollback(<<"attach">>) \o BackOff = BackGlue
  /\ Rollback(<<"start">>) \o BackOff = BackGlue
<1>1. <<>> \o BackOff = BackOff
  BY Nil, One DEF BackOff
<1>2. Rollback(<<"get", "bus">>) = <<>> /\ Rollback(<<"get", "mac">>) = <<>>
  BY DEF Rollback
<1>3. Rollback(<<"get", "phy">>) = << <<"put", "mac">> >>
  BY DEF Rollback
<1>4. Rollback(<<"get", "driver">>) = << <<"put", "phy">>, <<"put", "mac">> >>
  BY DEF Rollback
<1>5. /\ Rollback(<<"get", "netif">>) = BackendSteps
      /\ Rollback(<<"get", "glue">>) = << <<"put", "netif">> >> \o BackendSteps
  BY DEF Rollback
<1>6. \A s \in {<<"attach">>, <<"start">>} :
        Rollback(s) = << <<"put", "glue">>, <<"put", "netif">> >> \o BackendSteps
  BY DEF Rollback
<1> QED
  BY <1>1, <1>2, <1>3, <1>4, <1>5, <1>6 DEF BackMac, BackPhy, BackAll, BackNetif, BackGlue

(* A step that fails leads to the rollback that gives back what is held.     *)
LEMMA FailureRollsBack ==
  ASSUME EthernetInv, StepFails
  PROVE  StageInv' /\ LinkInv'
<1>1. LinkInv'
  BY DEF EthernetInv, LinkInv, StepFails, etDriver, etAdapter, etServed, etNetwork
<1>2. /\ etTodo' = Rollback(Head(etTodo)) \o BackOff
      /\ etTodo # <<>> /\ Head(etTodo)[1] \in {"get", "attach", "start"}
  BY DEF StepFails, BackOff, Off
<1>3. \A events, held, handle, runs, up :
        Has(events, held, handle, runs, up) => Has(events, held, handle, runs, up)'
  BY DEF Has, StepFails, etDriver, etAdapter
<1>4. CASE Starting
  <2>1. Head(InitSteps)[1] = "handlers" /\ Head(FromUp)[1] = "up"
    <3>1. Head(InitSteps) = On /\ Head(FromUp) = <<"up">>
      BY EtLists DEF Starts
    <3> QED BY <3>1 DEF On
  <2>2. /\ Head(FromBus) = <<"get", "bus">> /\ Head(FromMac) = <<"get", "mac">>
        /\ Head(FromPhy) = <<"get", "phy">> /\ Head(FromDriver) = <<"get", "driver">>
        /\ Head(FromNetif) = <<"get", "netif">> /\ Head(FromGlue) = <<"get", "glue">>
        /\ Head(FromAttach) = <<"attach">> /\ Head(FromStart) = <<"start">>
    BY EtLists DEF Starts
  <2> SUFFICES RollingBack'
    BY <1>1 DEF StageInv
  <2>3. etTodo # InitSteps /\ etTodo # FromUp
    BY <1>2, <2>1
  <2>4. CASE etTodo \in {FromBus, FromMac} /\ Has(TRUE, {}, FALSE, FALSE, FALSE)
    <3>1. etTodo' = BackOff
      BY <1>2, <2>2, <2>4, RollbackLists
    <3>2. Has(TRUE, {}, FALSE, FALSE, FALSE)'
      BY <1>3, <2>4
    <3> QED BY <3>1, <3>2 DEF RollingBack
  <2>5. CASE etTodo = FromPhy /\ Has(TRUE, {"mac"}, FALSE, FALSE, FALSE)
    <3>1. etTodo' = BackMac
      BY <1>2, <2>2, <2>5, RollbackLists
    <3>2. Has(TRUE, {"mac"}, FALSE, FALSE, FALSE)'
      BY <1>3, <2>5
    <3> QED BY <3>1, <3>2 DEF RollingBack
  <2>6. CASE etTodo = FromDriver /\ Has(TRUE, {"mac", "phy"}, FALSE, FALSE, FALSE)
    <3>1. etTodo' = BackPhy
      BY <1>2, <2>2, <2>6, RollbackLists
    <3>2. Has(TRUE, {"mac", "phy"}, FALSE, FALSE, FALSE)'
      BY <1>3, <2>6
    <3> QED BY <3>1, <3>2 DEF RollingBack
  <2>7. CASE etTodo = FromNetif /\ Has(TRUE, {"mac", "phy", "driver"}, TRUE, FALSE, FALSE)
    <3>1. etTodo' = BackAll
      BY <1>2, <2>2, <2>7, RollbackLists
    <3>2. Has(TRUE, {"mac", "phy", "driver"}, TRUE, FALSE, FALSE)'
      BY <1>3, <2>7
    <3> QED BY <3>1, <3>2 DEF RollingBack
  <2>8. CASE etTodo = FromGlue /\ Has(TRUE, {"mac", "phy", "driver", "netif"}, TRUE, FALSE, FALSE)
    <3>1. etTodo' = BackNetif
      BY <1>2, <2>2, <2>8, RollbackLists
    <3>2. Has(TRUE, {"mac", "phy", "driver", "netif"}, TRUE, FALSE, FALSE)'
      BY <1>3, <2>8
    <3> QED BY <3>1, <3>2 DEF RollingBack
  <2>9. CASE etTodo \in {FromAttach, FromStart} /\ Has(TRUE, Parts \ {"bus"}, TRUE, FALSE, FALSE)
    <3>1. etTodo' = BackGlue
      BY <1>2, <2>2, <2>9, RollbackLists
    <3>2. Has(TRUE, Parts \ {"bus"}, TRUE, FALSE, FALSE)'
      BY <1>3, <2>9
    <3> QED BY <3>1, <3>2 DEF RollingBack
  <2> QED BY <1>4, <2>3, <2>4, <2>5, <2>6, <2>7, <2>8, <2>9 DEF Starting
<1>5. CASE RollingBack \/ ShuttingDown \/ EtResting
  <2>1. /\ Head(BackGlue) = <<"put", "glue">> /\ Head(BackNetif) = <<"put", "netif">>
        /\ Head(BackAll) = <<"uninstall">> /\ Head(BackPhy) = <<"put", "phy">>
        /\ Head(BackMac) = <<"put", "mac">> /\ Head(BackOff) = Off
    BY EtLists DEF Starts
  <2>2. /\ Head(ShutdownSteps) = Off /\ Head(DownServices) = <<"services">>
        /\ Head(DownStop) = <<"stop">> /\ Head(DownGlue) = <<"put", "glue">>
        /\ Head(DownNetif) = <<"put", "netif">> /\ Head(DownAll) = <<"uninstall">>
        /\ Head(DownLast) = <<"down">>
    BY EtLists DEF Starts
  <2>3. Head(etTodo) \in {<<"put", "glue">>, <<"put", "netif">>, <<"put", "phy">>,
                          <<"put", "mac">>, <<"uninstall">>, <<"services">>, <<"stop">>,
                          <<"down">>, Off}
    <3>1. CASE RollingBack
      BY <2>1, <3>1 DEF RollingBack
    <3>2. CASE ShuttingDown
      BY <2>2, <3>2 DEF ShuttingDown
    <3> QED BY <1>2, <1>5, <3>1, <3>2 DEF EtResting
  <2>4. Off[1] = "handlers"
    BY DEF Off
  <2> QED BY <1>2, <2>3, <2>4
<1> QED BY <1>4, <1>5 DEF EthernetInv, StageInv

(* A step leaves every variable in its type.                                 *)
LEMMA EtTyped ==
  ASSUME EthernetInv, [EthernetNext]_ethernetVars
  PROVE  EthernetTypeOK'
<1>0. EthernetTypeOK
  BY DEF EthernetInv
<1> USE EtTypes, <1>0 DEF EthernetTypeOK, etDriver, etAdapter, etNetwork, etServed
<1>1. CASE StepDone
  <2>0. etBackend' = etBackend
    BY <1>1 DEF StepDone
  <2>1. PICK step, rest : Starts(etTodo, step, rest) /\ step \in EtSteps
    <3>1. etTodo # <<>> /\ StageInv
      BY <1>1 DEF StepDone, EthernetInv
    <3>2. /\ {On, Off, <<"services">>, <<"attach">>, <<"start">>, <<"stop">>, <<"uninstall">>,
              <<"up">>, <<"down">>} \subseteq EtSteps
          /\ {<<"get", "bus">>, <<"get", "mac">>, <<"get", "phy">>, <<"get", "driver">>,
              <<"get", "netif">>, <<"get", "glue">>} \subseteq EtSteps
          /\ {<<"put", "mac">>, <<"put", "phy">>, <<"put", "netif">>, <<"put", "glue">>}
               \subseteq EtSteps
      BY DEF EtSteps, Parts
    <3>3. CASE Starting
      BY <3>2, <3>3, EtLists DEF Starting
    <3>4. CASE RollingBack
      BY <3>2, <3>4, EtLists DEF RollingBack
    <3>5. CASE ShuttingDown
      BY <3>2, <3>5, EtLists DEF ShuttingDown
    <3> QED BY <3>1, <3>3, <3>4, <3>5 DEF StageInv, EtResting
  <2>2. ASSUME NEW b \in BOOLEAN, step = <<"handlers", b>> PROVE EthernetTypeOK'
    <3>1. /\ etEvents' = b
          /\ UNCHANGED <<etRunning, etHandle, etReady, etHeld, etLeaked, etUp, etDhcp, etServing,
                         etMixed, etSvc, etLink, etBits>>
      BY <1>1, <2>1, <2>2, HandlersStep
    <3>2. etEvents' \in BOOLEAN
      BY <2>2, <3>1
    <3> QED BY <2>0, <3>1, <3>2
  <2>3. ASSUME NEW p \in Parts, step = <<"get", p>> PROVE EthernetTypeOK'
    <3>1. etDhcp' = etDhcp
      BY <1>1, <2>1, <2>3, GetStep
    <3>2. /\ etHeld' = etHeld \cup {p} /\ etHandle' = (etHandle \/ p = "driver")
          /\ UNCHANGED <<etRunning, etReady, etLeaked, etUp, etEvents, etServing, etMixed, etSvc,
                         etLink, etBits>>
      BY <1>1, <2>1, <2>3, GetStep
    <3>3. etHandle' \in BOOLEAN /\ etHeld' \subseteq Parts
      BY <2>3, <3>2
    <3> QED BY <2>0, <3>1, <3>2, <3>3
  <2>4. ASSUME NEW p \in Parts, step = <<"put", p>> PROVE EthernetTypeOK'
    <3>1. etDhcp' \in BOOLEAN
      BY <1>1, <2>1, <2>4 DEF StepDone, Starts
    <3>2. /\ etHeld' \subseteq etHeld
          /\ UNCHANGED <<etRunning, etHandle, etReady, etLeaked, etUp, etEvents, etServing, etMixed,
                         etSvc, etLink, etBits>>
      BY <1>1, <2>1, <2>4, PutStep
    <3> QED BY <2>0, <3>1, <3>2
  <2>5. CASE step = <<"attach">>
    <3>1. UNCHANGED <<etRunning, etHandle, etReady, etHeld, etLeaked, etUp, etEvents, etDhcp,
                      etServing, etMixed, etSvc, etLink, etBits>>
      BY <1>1, <2>1, <2>5, AttachStep
    <3> QED BY <2>0, <3>1
  <2>6. ASSUME NEW s \in {"start", "stop"}, step = <<s>> PROVE EthernetTypeOK'
    <3>1. etDhcp' = etDhcp
      BY <1>1, <2>1, <2>6 DEF StepDone, Starts
    <3>2. /\ etRunning' = (s = "start") /\ etLink' = "down"
          /\ UNCHANGED <<etHandle, etReady, etHeld, etLeaked, etUp, etEvents, etServing, etMixed,
                         etSvc, etBits>>
      BY <1>1, <2>1, <2>6, StartStopStep
    <3>3. etRunning' \in BOOLEAN
      BY <3>2
    <3> QED BY <2>0, <3>1, <3>2, <3>3
  <2>7. CASE step = <<"uninstall">>
    <3>1. etHeld' \subseteq etHeld
      BY <1>1, <2>1, <2>7 DEF StepDone, Starts
    <3>2. /\ etHandle' = FALSE /\ etLeaked' \in {etLeaked, TRUE}
          /\ UNCHANGED <<etRunning, etReady, etUp, etEvents, etDhcp, etServing, etMixed, etSvc,
                         etLink, etBits>>
      BY <1>1, <2>1, <2>7, UninstallStep
    <3>3. etHandle' \in BOOLEAN /\ etLeaked' \in BOOLEAN
      BY <3>2
    <3> QED BY <2>0, <3>1, <3>2, <3>3
  <2>8. CASE step = <<"services">>
    <3>1. /\ etSvc' \subseteq etSvc /\ etServing' = FALSE
          /\ UNCHANGED <<etRunning, etHandle, etReady, etHeld, etLeaked, etUp, etEvents, etDhcp,
                         etMixed, etLink, etBits>>
      BY <1>1, <2>1, <2>8, ServicesStep DEF StopServing
    <3>2. etServing' \in BOOLEAN
      BY <3>1
    <3> QED BY <2>0, <3>1, <3>2
  <2>9. ASSUME NEW s \in {"up", "down"}, step = <<s>> PROVE EthernetTypeOK'
    <3>1. /\ etReady' = (s = "up") /\ etUp' = (s = "up")
          /\ UNCHANGED <<etRunning, etHandle, etHeld, etLeaked, etEvents, etDhcp, etServing, etMixed,
                         etSvc, etLink, etBits>>
      BY <1>1, <2>1, <2>9, UpDownStep
    <3>2. etReady' \in BOOLEAN /\ etUp' \in BOOLEAN
      BY <3>1
    <3> QED BY <2>0, <3>1, <3>2
  <2>10. CASE step = On \/ step = Off
    BY <2>2, <2>10 DEF On, Off
  <2>11. CASE step \in {<<k, p>> : k \in {"get", "put"}, p \in Parts}
    <3>1. PICK k \in {"get", "put"}, p \in Parts : step = <<k, p>>
      BY <2>11
    <3> QED BY <2>3, <2>4, <3>1
  <2>12. CASE step \in {<<"services">>, <<"attach">>, <<"start">>, <<"stop">>, <<"uninstall">>,
                        <<"up">>, <<"down">>}
    BY <2>5, <2>6, <2>7, <2>8, <2>9, <2>12
  <2> QED BY <2>1, <2>10, <2>11, <2>12 DEF EtSteps
<1>2. CASE StepFails \/ SwitchAdapter
  <2>1. UNCHANGED <<etBackend, etDriver, etAdapter, etNetwork, etServed>>
    BY <1>2 DEF StepFails, SwitchAdapter
  <2> QED BY <2>1
<1>3. CASE TakeEthBits
  <2>1. /\ etBits' = {}
        /\ UNCHANGED <<etBackend, etRunning, etHandle, etReady, etHeld, etLeaked, etUp, etEvents,
                       etLink, etDhcp>>
    BY <1>3 DEF TakeEthBits
  <2>2. etMixed' \in BOOLEAN
    BY <1>3 DEF TakeEthBits
  <2>3. etServing' \in BOOLEAN
    BY <1>3 DEF TakeEthBits, StopServing
  <2>4. etSvc' \subseteq Stoppable \cup {"http"}
    BY <1>3 DEF TakeEthBits, StopServing, Stoppable
  <2> QED BY <2>1, <2>2, <2>3, <2>4
<1>4. CASE Mqtt
  BY <1>4 DEF Mqtt, Stoppable
<1>5. CASE LinkUp \/ GotIp \/ LinkDown
  <2>1. UNCHANGED <<etBackend, etRunning, etHandle, etReady, etHeld, etLeaked, etUp, etEvents,
                    etServing, etMixed, etSvc>>
    BY <1>5 DEF LinkUp, GotIp, LinkDown
  <2>2. etLink' \in {"down", "up", "ip"}
    BY <1>5 DEF LinkUp, GotIp, LinkDown
  <2>3. etBits' \subseteq {"ready", "lost"}
    BY <1>5 DEF LinkUp, GotIp, LinkDown, Posts
  <2>4. etDhcp' \in BOOLEAN
    BY <1>5 DEF LinkUp, GotIp, LinkDown
  <2> QED BY <2>1, <2>2, <2>3, <2>4
<1>6. CASE UNCHANGED ethernetVars
  BY <1>6 DEF ethernetVars
<1> QED BY <1>1, <1>2, <1>3, <1>4, <1>5, <1>6 DEF EthernetNext

(* What does not concern the driver and the adapter leaves the stage.        *)
LEMMA SameStage ==
  ASSUME StageInv, UNCHANGED <<etBackend, etDriver, etAdapter, etTodo>>,
         etServing' => etServing \/ etTodo = <<>>
  PROVE  StageInv'
<1>1. \A events, held, handle, runs, up :
        Has(events, held, handle, runs, up)' <=> Has(events, held, handle, runs, up)
  BY DEF Has, etDriver, etAdapter
<1>2. InitSteps' = InitSteps
  BY DEF InitSteps
<1>3. Starting => Starting'
  BY <1>1, <1>2 DEF Starting
<1>4. RollingBack => RollingBack'
  BY <1>1 DEF RollingBack
<1>5. DownStop # <<>>
  BY EtLists DEF Starts
<1>6. ShuttingDown => ShuttingDown'
  BY <1>1, <1>5 DEF ShuttingDown
<1>7. EtResting => EtResting'
  BY <1>1 DEF EtResting
<1> QED BY <1>3, <1>4, <1>6, <1>7 DEF StageInv

(* A call begins at rest.                                                    *)
LEMMA SwitchKeeps ==
  ASSUME EthernetInv, SwitchAdapter
  PROVE  StageInv' /\ LinkInv'
<1>1. LinkInv'
  BY DEF EthernetInv, LinkInv, SwitchAdapter, etDriver, etAdapter, etServed, etNetwork
<1>2. \A events, held, handle, runs, up :
        Has(events, held, handle, runs, up) => Has(events, held, handle, runs, up)'
  BY DEF Has, SwitchAdapter, etDriver, etAdapter
<1>3. EtResting
  BY EtLists DEF SwitchAdapter, EthernetInv, StageInv, Starting, RollingBack, ShuttingDown, Starts
<1>4. etTodo' = IF etUp THEN ShutdownSteps ELSE InitSteps'
  BY DEF SwitchAdapter, InitSteps
<1> QED
  BY <1>1, <1>2, <1>3, <1>4 DEF EtResting, StageInv, Starting, ShuttingDown, Has

(* A batch of bits tells the last change of the link, or is mixed.           *)
LEMMA TakeBitsKeeps ==
  ASSUME EthernetInv, TakeEthBits
  PROVE  StageInv' /\ LinkInv'
<1>1. EtResting
  BY EtLists DEF TakeEthBits, EthernetInv, StageInv, Starting, RollingBack, ShuttingDown, Starts
<1>2. StageInv'
  BY <1>1, SameStage DEF TakeEthBits, EtResting, EthernetInv
<1>3. UNCHANGED <<etRunning, etLink>>
  BY DEF TakeEthBits, etDriver
<1>4. /\ etServing \in BOOLEAN /\ etSvc \subseteq Stoppable \cup {"http"}
      /\ etSvc \ {"mqtt", "http"} = IF etServing THEN Stoppable \ {"mqtt"} ELSE {}
  BY EtTypes DEF EthernetInv, LinkInv
<1>5. \/ "ready" \in etBits /\ etServing /\ etSvc' = etSvc \cup {"mqtt"} /\ etServing' = etServing
      \/ /\ "ready" \in etBits /\ "lost" \in etBits /\ ~etServing
         /\ etServing' = FALSE /\ etSvc' = {"http"}
      \/ /\ "ready" \in etBits /\ "lost" \notin etBits /\ ~etServing
         /\ etServing' = TRUE /\ etSvc' = Stoppable \cup {"http"}
      \/ "ready" \notin etBits /\ StopServing
  BY DEF TakeEthBits
<1>6. etSvc' \ {"mqtt", "http"} = IF etServing' THEN Stoppable \ {"mqtt"} ELSE {}
  BY <1>4, <1>5 DEF StopServing, Stoppable
<1>7. ~etMixed' => (etServing' <=> etLink' = "ip")
  <2> SUFFICES ASSUME ~etMixed' PROVE etServing' <=> etLink = "ip"
    BY <1>3
  <2>1. etBits = {IF etLink = "ip" THEN "ready" ELSE "lost"}
    BY DEF TakeEthBits
  <2>2. CASE etLink = "ip"
    BY <1>5, <2>1, <2>2
  <2>3. CASE etLink # "ip"
    BY <1>5, <2>1, <2>3 DEF StopServing
  <2> QED BY <2>2, <2>3
<1> QED BY <1>2, <1>3, <1>6, <1>7 DEF EthernetInv, LinkInv

(* The link changes, the interval restarts MQTT.                             *)
LEMMA WorldKeeps ==
  ASSUME EthernetInv, Mqtt \/ LinkUp \/ GotIp \/ LinkDown
  PROVE  StageInv' /\ LinkInv'
<1> USE DEF EthernetInv, etServed, etNetwork
<1>1. StageInv'
  BY SameStage DEF Mqtt, LinkUp, GotIp, LinkDown
<1>2. CASE Mqtt
  BY <1>1, <1>2, EtTypes DEF Mqtt, LinkInv, Stoppable, etDriver, etAdapter
<1>3. CASE LinkUp
  BY <1>1, <1>3, EtTypes DEF LinkUp, LinkInv, etDriver, etAdapter
<1>4. CASE GotIp
  BY <1>1, <1>4, EtTypes DEF GotIp, Posts, LinkInv, etDriver, etAdapter
<1>5. CASE LinkDown
  BY <1>1, <1>5, EtTypes DEF LinkDown, Posts, LinkInv, etDriver, etAdapter
<1> QED BY <1>2, <1>3, <1>4, <1>5

(* Whatever step of however many calls fails and whenever the link changes,  *)
(* what exists is what the step the adapter has reached says.                *)
THEOREM EthernetInvariant == EthernetSpec => []EthernetInv
<1>1. EthernetInit => EthernetInv
  BY DEF EthernetInit, EthernetInv, EthernetTypeOK, StageInv, EtResting, Has, LinkInv, Stoppable
<1>2. EthernetInv /\ [EthernetNext]_ethernetVars => EthernetInv'
  <2> SUFFICES ASSUME EthernetInv, [EthernetNext]_ethernetVars PROVE EthernetInv'
    OBVIOUS
  <2>1. EthernetTypeOK'
    BY EtTyped
  <2>2. CASE StepDone
    <3>1. ~EtResting
      BY <2>2 DEF StepDone, EtResting
    <3> QED BY <2>1, <2>2, <3>1, StartingGoesOn, RollingBackGoesOn, ShuttingDownGoesOn
            DEF EthernetInv, StageInv
  <2>3. CASE UNCHANGED ethernetVars
    <3>1. StageInv'
      BY <2>3, SameStage DEF ethernetVars, EthernetInv, etServed
    <3> QED BY <2>1, <2>3, <3>1 DEF ethernetVars, EthernetInv, LinkInv, etDriver, etAdapter,
                                  etServed, etNetwork
  <2> QED
    BY <2>1, <2>2, <2>3, FailureRollsBack, SwitchKeeps, TakeBitsKeeps, WorldKeeps
    DEF EthernetNext, EthernetInv
<1> QED BY <1>1, <1>2, PTL DEF EthernetSpec

(* At rest the adapter has everything or, apart from the bus, nothing.       *)
THEOREM EthernetAllOrNothing == EthernetSpec => []AllOrNothing
<1>1. EthernetInv => AllOrNothing
  <2> SUFFICES ASSUME EthernetInv, etTodo = <<>>
               PROVE  /\ \A b \in {etReady, etEvents, etHandle, etRunning} : etUp <=> b
                      /\ ~etLeaked =>
                           etHeld \cap (Parts \ {"bus"}) = IF etUp THEN Parts \ {"bus"} ELSE {}
    BY DEF AllOrNothing
  <2>1. EtResting
    BY EtLists DEF EthernetInv, StageInv, Starting, RollingBack, ShuttingDown, Starts
  <2>2. etHeld \cap (Parts \ {"bus"}) = etHeld \ {"bus"}
    BY EtTypes DEF EthernetInv
  <2> QED BY <2>1, <2>2, EtTypes DEF EtResting, Has, EthernetInv
<1> QED BY <1>1, EthernetInvariant, PTL

(* Once the changes of the link are told one by one, the services follow it. *)
THEOREM EthernetServices == EthernetSpec => []ServicesFollowLink
<1>1. EthernetInv => ServicesFollowLink
  <2>1. EthernetInv /\ etTodo = <<>> => etEvents \/ ~etRunning
    BY EtLists DEF EthernetInv, StageInv, Starting, RollingBack, ShuttingDown, Starts,
                   EtResting, Has
  <2>2. EthernetInv => etSvc \ {"mqtt", "http"} = IF etServing THEN Stoppable \ {"mqtt"} ELSE {}
    BY DEF EthernetInv, LinkInv
  <2> QED BY <2>1, <2>2 DEF EthernetInv, LinkInv, ServicesFollowLink
<1> QED BY <1>1, EthernetInvariant, PTL

-----------------------------------------------------------------------------
(* The log monitor                                                           *)

(* Some task is at one of these places of a tcp_monitor_shutdown.           *)
Stopping(places) == \E c \in Stopper : tmStop[c] \in places

(* As long as nothing overlapped or failed, one stop goes on at most, and   *)
(* the place it has reached says what the log, the buffer, the request and  *)
(* the task are.                                                            *)
OneStop == \A c, d \in Stopper : tmStop[c] # "idle" /\ tmStop[d] # "idle" => c = d
LogInv ==
  /\ Stopping({"unhook"}) => tmVprintf = "hook" /\ tmOriginal = "uart"
  /\ Stopping({"forget"}) => tmVprintf = "uart" /\ tmOriginal = "uart"
  /\ Stopping({"request", "close", "wait", "delete"}) => tmVprintf = "uart" /\ tmOriginal = "null"
  /\ (\A c \in Stopper : tmStop[c] = "idle") =>
       IF tmHandle THEN tmVprintf = "hook" /\ tmOriginal = "uart"
                   ELSE tmVprintf = "uart" /\ tmOriginal = "null"
TaskInv ==
  /\ tmHandle <=> tmAt # "none"
  /\ tmHandle \/ Stopping({"close", "wait", "delete"}) => tmBuffer
  /\ Stopping({"unhook", "forget", "request"}) => tmHandle
  /\ tmAt \in {"leave", "clear"} => tmQuit
  /\ tmQuit => Stopping({"close", "wait"}) /\ tmAt \notin {"gone", "none"}
  /\ Stopping({"close", "wait"}) => tmQuit \/ tmAt \in {"gone", "none"}
  /\ tmAt = "gone" => Stopping({"close", "wait"})
  /\ Stopping({"delete"}) => tmAt = "none"
  /\ tmSocket # "closed" /\ ~tmMisuse
MonitorInv == tmExcuse = "none" => OneStop /\ LogInv /\ TaskInv

(* What a step of a stop does to the places of the two.                      *)
LEMMA MonitorStopMoves ==
  ASSUME MonitorTypeOK, NEW c \in Stopper, NEW from, NEW to, StopAt(c, from, to),
         to \in {"idle", "unhook", "forget", "request", "close", "wait", "delete"}
  PROVE  /\ tmStop[c] = from /\ tmStop'[c] = to
         /\ \A d \in Stopper \ {c} : tmStop'[d] = tmStop[d]
         /\ tmStop' \in [Stopper -> {"idle", "unhook", "forget", "request", "close", "wait",
                                     "delete"}]
  BY DEF StopAt, MonitorTypeOK

(* A step leaves every variable in its type.                                 *)
LEMMA MonitorTyped ==
  ASSUME MonitorTypeOK, [MonitorNext]_monitorVars
  PROVE  MonitorTypeOK'
<1> USE DEF MonitorTypeOK, tmLog, tmHistory, Fails
<1>1. CASE MonitorStart
  BY <1>1 DEF MonitorStart
<1>2. ASSUME NEW c \in Stopper,
             MonitorStop(c) \/ Unhook(c) \/ Forget(c) \/ Request(c) \/ CloseSocket(c)
               \/ WaitForFinish(c) \/ DeleteBuffer(c)
      PROVE  MonitorTypeOK'
  BY <1>2, MonitorStopMoves DEF MonitorStop, Unhook, Forget, Request, CloseSocket, WaitForFinish,
                         DeleteBuffer
<1>3. CASE OpenMonitor \/ Bind
  BY <1>3 DEF OpenMonitor, Bind, TaskAt
<1>4. CASE ServeLoop \/ AcceptClient \/ Receive \/ Send
  BY <1>4 DEF ServeLoop, AcceptClient, Receive, Send, TaskAt
<1>5. CASE LeaveMonitor \/ ForgetRequest \/ EndMonitor
  BY <1>5 DEF LeaveMonitor, ForgetRequest, EndMonitor, TaskAt
<1>6. CASE UNCHANGED monitorVars
  BY <1>6 DEF monitorVars
<1> QED BY <1>1, <1>2, <1>3, <1>4, <1>5, <1>6 DEF MonitorNext

(* The steps of a stop, on either task.                                      *)
LEMMA MonitorStopKeeps ==
  ASSUME MonitorTypeOK, MonitorInv, NEW c \in Stopper,
         MonitorStop(c) \/ Unhook(c) \/ Forget(c) \/ Request(c) \/ CloseSocket(c)
           \/ WaitForFinish(c) \/ DeleteBuffer(c)
  PROVE  MonitorInv'
<1> SUFFICES ASSUME tmExcuse' = "none" PROVE (OneStop /\ LogInv /\ TaskInv)'
  BY DEF MonitorInv
<1> USE DEF OneStop, LogInv, TaskInv, Stopping, tmLog, tmHistory
<1>0. OneStop /\ LogInv /\ TaskInv /\ tmExcuse = "none"
  BY DEF MonitorInv, MonitorStop, Unhook, Forget, Request, CloseSocket, WaitForFinish,
         DeleteBuffer, Fails
<1>1. CASE MonitorStop(c)
  <2>1. \A d \in Stopper : tmStop[d] = "idle"
    BY <1>0, <1>1 DEF MonitorStop, Others, StopAt
  <2>2. tmHandle /\ tmOriginal = "uart"
    BY <1>0, <1>1, <2>1 DEF MonitorStop
  <2>3. StopAt(c, "idle", "unhook")
    BY <1>1, <2>2 DEF MonitorStop
  <2> QED BY <1>0, <1>1, <2>1, <2>2, <2>3, MonitorStopMoves DEF MonitorStop
<1>2. CASE Unhook(c)
  BY <1>0, <1>2, MonitorStopMoves DEF Unhook
<1>3. CASE Forget(c)
  BY <1>0, <1>3, MonitorStopMoves DEF Forget
<1>4. CASE Request(c)
  BY <1>0, <1>4, MonitorStopMoves DEF Request
<1>5. CASE CloseSocket(c)
  <2>1. ~tmMisuse'
    BY <1>0, <1>5 DEF CloseSocket
  <2> QED BY <1>0, <1>5, <2>1, MonitorStopMoves DEF CloseSocket
<1>6. CASE WaitForFinish(c)
  BY <1>0, <1>6, MonitorStopMoves DEF WaitForFinish, Fails
<1>7. CASE DeleteBuffer(c)
  BY <1>0, <1>7, MonitorStopMoves DEF DeleteBuffer
<1> QED BY <1>1, <1>2, <1>3, <1>4, <1>5, <1>6, <1>7

(* A start.                                                                  *)
LEMMA MonitorStartKeeps ==
  ASSUME MonitorTypeOK, MonitorInv, MonitorStart
  PROVE  MonitorInv'
<1> SUFFICES ASSUME tmExcuse' = "none" PROVE (OneStop /\ LogInv /\ TaskInv)'
  BY DEF MonitorInv
<1>1. OneStop /\ LogInv /\ TaskInv /\ tmStop' = tmStop /\ \A d \in Stopper : tmStop[d] = "idle"
  BY DEF MonitorInv, MonitorStart, Others
<1> QED BY <1>1 DEF MonitorStart, OneStop, LogInv, TaskInv, Stopping

(* The steps of the task of the monitor.                                     *)
LEMMA MonitorTaskKeeps ==
  ASSUME MonitorTypeOK, MonitorInv,
         \/ OpenMonitor \/ Bind \/ ServeLoop \/ AcceptClient \/ Receive \/ Send
         \/ LeaveMonitor \/ ForgetRequest \/ EndMonitor
  PROVE  MonitorInv'
<1> SUFFICES ASSUME tmExcuse' = "none" PROVE (OneStop /\ LogInv /\ TaskInv)'
  BY DEF MonitorInv
<1> USE DEF TaskAt, Fails, tmHistory
<1>1. OneStop /\ LogInv /\ TaskInv /\ tmExcuse = "none"
  BY DEF MonitorInv, OpenMonitor, Bind, ServeLoop, AcceptClient, Receive, Send,
         LeaveMonitor, ForgetRequest, EndMonitor
<1>2. tmStop' = tmStop /\ tmVprintf' = tmVprintf /\ tmOriginal' = tmOriginal /\ tmBuffer' = tmBuffer
  BY DEF OpenMonitor, Bind, ServeLoop, AcceptClient, Receive, Send,
         LeaveMonitor, ForgetRequest, EndMonitor, tmLog
<1>3. \A places : Stopping(places)' <=> Stopping(places)
  BY <1>2 DEF Stopping
<1>4. OneStop'
  BY <1>1, <1>2 DEF OneStop
<1>5. tmHandle' = tmHandle \/ Stopping({"close", "wait"})
  BY <1>1 DEF OpenMonitor, Bind, ServeLoop, AcceptClient, Receive, Send,
         LeaveMonitor, ForgetRequest, EndMonitor, TaskInv
<1>6. LogInv'
  BY <1>1, <1>2, <1>3, <1>5 DEF LogInv, Stopping
<1> USE <1>1, <1>2, <1>3, <1>4, <1>6 DEF TaskInv
<1>7. CASE OpenMonitor
  BY <1>7 DEF OpenMonitor
<1>8. CASE Bind
  BY <1>8 DEF Bind
<1>9. CASE ServeLoop \/ AcceptClient \/ Receive \/ Send
  <2>1. ~tmMisuse'
    BY <1>9, Zenon DEF ServeLoop, AcceptClient, Receive, Send
  <2> QED BY <1>9, <2>1 DEF ServeLoop, AcceptClient, Receive, Send
<1>10. CASE LeaveMonitor
  BY <1>10 DEF LeaveMonitor
<1>11. CASE ForgetRequest
  BY <1>11 DEF ForgetRequest
<1>12. CASE EndMonitor
  <2>1. ~Stopping({"unhook", "forget", "request"})
    BY <1>12 DEF EndMonitor, OneStop, Stopping
  <2> QED BY <1>12, <2>1 DEF EndMonitor
<1> QED BY <1>7, <1>8, <1>9, <1>10, <1>11, <1>12

(* Whoever starts and stops the monitor, and wherever its task is: as long   *)
(* as nothing excuses it, hook, buffer, task and handle belong together.     *)
THEOREM MonitorInvariant == MonitorSpec => [](MonitorTypeOK /\ MonitorInv)
<1>1. MonitorInit => MonitorTypeOK /\ MonitorInv
  BY DEF MonitorInit, MonitorTypeOK, MonitorInv, OneStop, LogInv, TaskInv, Stopping, Stopper
<1>2. MonitorTypeOK /\ MonitorInv /\ [MonitorNext]_monitorVars => MonitorTypeOK' /\ MonitorInv'
  <2> SUFFICES ASSUME MonitorTypeOK, MonitorInv, [MonitorNext]_monitorVars
               PROVE  MonitorInv'
    BY MonitorTyped
  <2>1. CASE UNCHANGED monitorVars
    BY <2>1 DEF monitorVars, tmLog, tmHistory, MonitorInv, OneStop, LogInv, TaskInv, Stopping
  <2> QED
    BY <2>1, MonitorStartKeeps, MonitorStopKeeps, MonitorTaskKeeps DEF MonitorNext
<1> QED BY <1>1, <1>2, PTL DEF MonitorSpec

(* So the log always has somewhere to go, a hook has its buffer, the task    *)
(* never uses a deleted one, and a monitor that was stopped can be started.  *)
THEOREM MonitorIsSafe == MonitorSpec => []MonitorSafe
<1>1. MonitorTypeOK /\ MonitorInv => MonitorSafe
  BY DEF MonitorTypeOK, MonitorInv, OneStop, LogInv, TaskInv, Stopping, Stopper, MonitorSafe
<1> QED BY <1>1, MonitorInvariant, PTL

-----------------------------------------------------------------------------
(* The ESP-NOW radio: the lists of a start, of what gives a failed one back, *)
(* and of a stop                                                             *)

RxSteps == {"count", "wifi", "stack", "callbacks", "handler", "ready", "listen", "unlisten",
            "uncount", "uncallbacks", "unhandle", "deinit", "unready", "down"}

RxWifi      == <<"wifi", "stack", "callbacks", "handler", "ready", "listen">>
RxStack     == <<"stack", "callbacks", "handler", "ready", "listen">>
RxCallbacks == <<"callbacks", "handler", "ready", "listen">>
RxHandler   == <<"handler", "ready", "listen">>
RxReady     == <<"ready", "listen">>
RxListen    == <<"listen">>

GiveCallbacks == <<"uncallbacks", "unhandle", "deinit", "unready">>
GiveHandler   == <<"unhandle", "deinit", "unready">>
GiveStack     == <<"deinit", "unready">>
GiveReady     == <<"unready">>

StopLast      == <<"down">>
StopCount     == ShutdownRadio \o StopLast
StopCallbacks == GiveCallbacks \o StopLast
StopHandler   == GiveHandler \o StopLast
StopStack     == GiveStack \o StopLast
StopReady     == GiveReady \o StopLast

(* The calls of the receiver adapter, step by step.                          *)
LEMMA RxLists ==
  /\ Starts(StartRx, "count", RxWifi)
  /\ Starts(RxWifi, "wifi", RxStack)
  /\ Starts(RxStack, "stack", RxCallbacks)
  /\ Starts(RxCallbacks, "callbacks", RxHandler)
  /\ Starts(RxHandler, "handler", RxReady)
  /\ Starts(RxReady, "ready", RxListen)
  /\ Starts(RxListen, "listen", <<>>)
  /\ Starts(ShutdownRadio, "uncount", GiveCallbacks)
  /\ Starts(GiveCallbacks, "uncallbacks", GiveHandler)
  /\ Starts(GiveHandler, "unhandle", GiveStack)
  /\ Starts(GiveStack, "deinit", GiveReady)
  /\ Starts(GiveReady, "unready", <<>>)
  /\ Starts(StopRx, "unlisten", StopCount)
  /\ Starts(StopCount, "uncount", StopCallbacks)
  /\ Starts(StopCallbacks, "uncallbacks", StopHandler)
  /\ Starts(StopHandler, "unhandle", StopStack)
  /\ Starts(StopStack, "deinit", StopReady)
  /\ Starts(StopReady, "unready", StopLast)
  /\ Starts(StopLast, "down", <<>>)
<1>1. /\ Starts(StartRx, "count", RxWifi)
      /\ Starts(RxWifi, "wifi", RxStack)
      /\ Starts(RxStack, "stack", RxCallbacks)
      /\ Starts(RxCallbacks, "callbacks", RxHandler)
      /\ Starts(RxHandler, "handler", RxReady)
      /\ Starts(RxReady, "ready", RxListen)
      /\ Starts(RxListen, "listen", <<>>)
  BY DEF Starts, StartRx, RxWifi, RxStack, RxCallbacks, RxHandler, RxReady, RxListen
<1>2. /\ Starts(ShutdownRadio, "uncount", GiveCallbacks)
      /\ Starts(GiveCallbacks, "uncallbacks", GiveHandler)
      /\ Starts(GiveHandler, "unhandle", GiveStack)
      /\ Starts(GiveStack, "deinit", GiveReady)
      /\ Starts(GiveReady, "unready", <<>>)
      /\ Starts(StopLast, "down", <<>>)
  BY DEF Starts, ShutdownRadio, GiveCallbacks, GiveHandler, GiveStack, GiveReady, StopLast
<1> DEFINE S == RxSteps
<1>3. /\ ShutdownRadio \in Seq(S) /\ GiveCallbacks \in Seq(S) /\ GiveHandler \in Seq(S)
      /\ GiveStack \in Seq(S) /\ GiveReady \in Seq(S) /\ StopLast \in Seq(S)
      /\ "unlisten" \in S
  BY DEF RxSteps, ShutdownRadio, GiveCallbacks, GiveHandler, GiveStack, GiveReady, StopLast
<1> HIDE DEF S
<1>4. <<>> \o ShutdownRadio = ShutdownRadio /\ <<>> \o StopLast = StopLast
  BY <1>3, Nil
<1>5. Starts(StopRx, "unlisten", StopCount)
  <2>1. <<"unlisten">> \in Seq(S) /\ Starts(<<"unlisten">>, "unlisten", <<>>)
    BY <1>3, One
  <2>2. Starts((<<"unlisten">> \o ShutdownRadio) \o StopLast, "unlisten",
               (<<>> \o ShutdownRadio) \o StopLast)
    BY <1>3, <2>1, StartsJoinedTwice
  <2> QED BY <1>4, <2>2 DEF StopRx, StopCount, StopLast
<1>6. /\ Starts(StopCount, "uncount", StopCallbacks)
      /\ Starts(StopCallbacks, "uncallbacks", StopHandler)
      /\ Starts(StopHandler, "unhandle", StopStack)
      /\ Starts(StopStack, "deinit", StopReady)
  BY <1>2, <1>3, StartsJoined DEF StopCount, StopCallbacks, StopHandler, StopStack, StopReady
<1>7. Starts(StopReady, "unready", <<>> \o StopLast)
  BY <1>2, <1>3, StartsJoined DEF StopReady
<1> QED BY <1>1, <1>2, <1>4, <1>5, <1>6, <1>7


NoHandler == enHandlers = 0 /\ ~enInstance /\ enAt = "idle"
OneHandler == enHandlers = 1 /\ enInstance
RadioOff == ~enReady /\ ~enStack /\ ~enCalls /\ NoHandler
RadioOn ==
  /\ NoHandler \/ OneHandler
  /\ enStack = (enAt # "init") /\ enCalls = (enAt = "idle")
Whole == RadioOff \/ (RadioOn /\ enReady)

(* The adapter's count and flags, and the radio as long as the handler has   *)
(* not failed.                                                               *)
Rx(ref, up, listens, radio) ==
  enRef = ref /\ enUp = up /\ enListens = listens /\ (enFailed \/ radio)
RxStarting ==
  /\ enHandlers < HandlerMax
  /\ \/ enTodo = StartRx     /\ Rx(0, FALSE, FALSE, RadioOff)
     \/ enTodo = RxWifi      /\ Rx(1, FALSE, FALSE, RadioOff)
     \/ enTodo = RxStack     /\ Rx(1, FALSE, FALSE, RadioOff)
     \/ enTodo = RxCallbacks /\ Rx(1, FALSE, FALSE, ~enReady /\ enStack /\ ~enCalls /\ NoHandler)
     \/ enTodo = RxHandler   /\ Rx(1, FALSE, FALSE, ~enReady /\ RadioOn /\ NoHandler)
RxListening ==
  \/ enTodo = RxReady  /\ Rx(1, FALSE, FALSE, ~enReady /\ RadioOn)
  \/ enTodo = RxListen /\ Rx(1, FALSE, FALSE, Whole)
RxReturning ==
  \/ enTodo = ShutdownRadio /\ Rx(1, FALSE, FALSE, Whole)
  \/ enTodo = GiveCallbacks /\ Rx(0, FALSE, FALSE, RadioOn /\ enReady)
  \/ enTodo = GiveHandler   /\ Rx(0, FALSE, FALSE, enReady /\ (NoHandler \/ OneHandler))
  \/ enTodo = GiveStack     /\ Rx(0, FALSE, FALSE, enReady /\ NoHandler)
  \/ enTodo = GiveReady     /\ Rx(0, FALSE, FALSE, NoHandler /\ ~enStack /\ ~enCalls)
RxStopping ==
  \/ enTodo = StopRx        /\ Rx(1, TRUE, TRUE, Whole)
  \/ enTodo = StopCount     /\ Rx(1, TRUE, FALSE, Whole)
  \/ enTodo = StopCallbacks /\ Rx(0, TRUE, FALSE, RadioOn /\ enReady)
  \/ enTodo = StopHandler   /\ Rx(0, TRUE, FALSE, enReady /\ (NoHandler \/ OneHandler))
  \/ enTodo = StopStack     /\ Rx(0, TRUE, FALSE, enReady /\ NoHandler)
  \/ enTodo = StopReady     /\ Rx(0, TRUE, FALSE, NoHandler /\ ~enStack /\ ~enCalls)
  \/ enTodo = StopLast      /\ Rx(0, TRUE, FALSE, RadioOff)
RxResting ==
  /\ enTodo = <<>>
  /\ \/ Rx(0, FALSE, FALSE, RadioOff)
     \/ Rx(1, TRUE, TRUE, Whole)
RxStage == RxStarting \/ RxListening \/ RxReturning \/ RxStopping \/ RxResting

EspNowInv == EspNowTypeOK /\ RxStage /\ (enInstance => enHandlers > 0)

(* The parts of the type invariant.                                          *)
LEMMA EnTypes ==
  ASSUME EspNowTypeOK
  PROVE  /\ enWifi \in {"none", "off", "on"} /\ enAt \in {"idle", "init", "register"}
         /\ enEvent \in BOOLEAN /\ enReady \in BOOLEAN /\ enStack \in BOOLEAN
         /\ enCalls \in BOOLEAN /\ enInstance \in BOOLEAN /\ enUp \in BOOLEAN
         /\ enListens \in BOOLEAN /\ enFailed \in BOOLEAN
         /\ enRef \in 0..1 /\ enHandlers \in 0..HandlerMax
  BY DEF EspNowTypeOK

(* What each kind of step does.                                              *)
LEMMA CountStep ==
  ASSUME EspNowInv, RadioStep, NEW rest, Starts(enTodo, "count", rest), enRef = 0
  PROVE  /\ enTodo' = rest /\ enRef' = 1
         /\ UNCHANGED <<enWorld, enReady, enStack, enCalls, enHandling, enAdapter>>
  BY DEF RadioStep, Starts, Count, OnRadio, OnHandler, OnAdapter, MinimalWifi
(* What each kind of step does: the reference is given back,                 *)
LEMMA UncountStep ==
  ASSUME EspNowInv, RadioStep, NEW rest, Starts(enTodo, "uncount", rest), enRef = 1
  PROVE  /\ enTodo' = IF enReady THEN rest ELSE IF enUp THEN StopLast ELSE <<>>
         /\ enRef' = 0
         /\ UNCHANGED <<enWorld, enReady, enStack, enCalls, enHandling, enAdapter>>
  BY DEF RadioStep, Starts, Count, OnRadio, OnHandler, OnAdapter, MinimalWifi, StopLast
(* Wi-Fi is started for the radio alone,                                     *)
LEMMA MinimalWifiStep ==
  ASSUME EspNowInv, RadioStep, NEW rest, Starts(enTodo, "wifi", rest)
  PROVE  /\ enTodo' = rest /\ enWifi' \in {"on", enWifi} /\ enEvent' \in {TRUE, enEvent}
         /\ UNCHANGED <<enRadio, enHandling, enAdapter>>
  BY DEF RadioStep, Starts, Count, OnRadio, OnHandler, OnAdapter, MinimalWifi, enWorld
(* a flag is set                                                             *)
LEMMA SetStep ==
  ASSUME EspNowInv, RadioStep, NEW rest, NEW step \in {"stack", "callbacks", "ready"},
         Starts(enTodo, step, rest)
  PROVE  /\ enTodo' = rest
         /\ enStack' = (enStack \/ step = "stack") /\ enCalls' = (enCalls \/ step = "callbacks")
         /\ enReady' = (enReady \/ step = "ready")
         /\ UNCHANGED <<enWorld, enRef, enHandling, enAdapter>>
  BY EnTypes DEF EspNowInv, RadioStep, Starts, Count, OnRadio, OnHandler, OnAdapter, MinimalWifi
(* or cleared,                                                               *)
LEMMA ClearStep ==
  ASSUME EspNowInv, RadioStep, NEW rest, NEW step \in {"uncallbacks", "deinit", "unready"},
         Starts(enTodo, step, rest)
  PROVE  /\ enTodo' = rest
         /\ enStack' = (enStack /\ step # "deinit") /\ enCalls' = (enCalls /\ step = "unready")
         /\ enReady' = (enReady /\ step # "unready")
         /\ UNCHANGED <<enWorld, enRef, enHandling, enAdapter>>
  BY EnTypes DEF EspNowInv, RadioStep, Starts, Count, OnRadio, OnHandler, OnAdapter, MinimalWifi
(* the handler is registered,                                                *)
LEMMA HandlerStep ==
  ASSUME EspNowInv, RadioStep, NEW rest, Starts(enTodo, "handler", rest)
  PROVE  /\ enTodo' = rest /\ enHandlers' = enHandlers + 1 /\ enInstance' = TRUE
         /\ NoHandler => OneHandler'
         /\ UNCHANGED <<enWorld, enRadio, enAt, enFailed, enAdapter>>
<1>1. /\ enTodo' = rest /\ enHandlers' = enHandlers + 1 /\ enInstance' = TRUE
      /\ UNCHANGED <<enWorld, enRadio, enAt, enFailed, enAdapter>>
  BY DEF RadioStep, Starts, Count, OnRadio, OnHandler, OnAdapter, MinimalWifi
<1> QED BY <1>1 DEF NoHandler, OneHandler
(* unregistered,                                                             *)
LEMMA UnhandleStep ==
  ASSUME EspNowInv, RadioStep, NEW rest, Starts(enTodo, "unhandle", rest)
  PROVE  /\ enTodo' = rest /\ enHandlers' = IF enInstance THEN enHandlers - 1 ELSE enHandlers
         /\ enInstance' = FALSE
         /\ NoHandler \/ OneHandler => NoHandler'
         /\ UNCHANGED <<enWorld, enRadio, enAt, enFailed, enAdapter>>
<1>1. /\ enTodo' = rest /\ enHandlers' = IF enInstance THEN enHandlers - 1 ELSE enHandlers
      /\ enInstance' = FALSE /\ enAt = "idle"
      /\ UNCHANGED <<enWorld, enRadio, enAt, enFailed, enAdapter>>
  BY DEF RadioStep, Starts, Count, OnRadio, OnHandler, OnAdapter, MinimalWifi
<1> QED BY <1>1 DEF NoHandler, OneHandler
(* and the adapter listens, stops listening, or is marked as down.           *)
LEMMA ListenStep ==
  ASSUME EspNowInv, RadioStep, NEW rest, NEW step \in {"listen", "unlisten", "down"},
         Starts(enTodo, step, rest)
  PROVE  /\ enTodo' = rest
         /\ enListens' = (step = "listen" \/ (step = "down" /\ enListens))
         /\ enUp' = (step = "listen" \/ (step = "unlisten" /\ enUp))
         /\ UNCHANGED <<enWorld, enRadio, enHandling>>
  BY EnTypes DEF EspNowInv, RadioStep, Starts, Count, OnRadio, OnHandler, OnAdapter, MinimalWifi

(* A start that has set up what its steps so far set up goes on so,          *)
LEMMA StartRxGoesOn ==
  ASSUME EspNowInv, RxStarting, RadioStep
  PROVE  RxStage'
<1> USE EnTypes, EspNowAssumption
    DEF EspNowInv, RxStage, RxStarting, RxListening, Rx, NoHandler, OneHandler, RadioOff,
        RadioOn, Whole, enWorld, enRadio, enHandling, enAdapter
<1>1. CASE enTodo = StartRx /\ Rx(0, FALSE, FALSE, RadioOff)
              /\ enHandlers < HandlerMax
  BY <1>1, RxLists, CountStep
<1>2. CASE enTodo = RxWifi /\ Rx(1, FALSE, FALSE, RadioOff)
              /\ enHandlers < HandlerMax
  BY <1>2, RxLists, MinimalWifiStep
<1>3. CASE enTodo = RxStack /\ Rx(1, FALSE, FALSE, RadioOff)
              /\ enHandlers < HandlerMax
  BY <1>3, RxLists, SetStep
<1>4. CASE enTodo = RxCallbacks /\ Rx(1, FALSE, FALSE, ~enReady /\ enStack /\ ~enCalls /\ NoHandler)
              /\ enHandlers < HandlerMax
  BY <1>4, RxLists, SetStep
<1>5. CASE enTodo = RxHandler /\ Rx(1, FALSE, FALSE, ~enReady /\ RadioOn /\ NoHandler)
              /\ enHandlers < HandlerMax
  BY <1>5, RxLists, HandlerStep DEF OneHandler
<1> QED BY <1>1, <1>2, <1>3, <1>4, <1>5

(* then it listens,                                                          *)
LEMMA ListeningGoesOn ==
  ASSUME EspNowInv, RxListening, RadioStep
  PROVE  RxStage'
<1> USE EnTypes, EspNowAssumption
    DEF EspNowInv, RxStage, RxListening, RxResting, Rx, NoHandler, OneHandler, RadioOff,
        RadioOn, Whole, enWorld, enRadio, enHandling, enAdapter
<1>1. CASE enTodo = RxReady /\ Rx(1, FALSE, FALSE, ~enReady /\ RadioOn)
  BY <1>1, RxLists, SetStep
<1>2. CASE enTodo = RxListen /\ Rx(1, FALSE, FALSE, Whole)
  BY <1>2, RxLists, ListenStep
<1> QED BY <1>1, <1>2

(* or it cannot, and gives back what it had;                                 *)
LEMMA ReturningGoesOn ==
  ASSUME EspNowInv, RxReturning, RadioStep
  PROVE  RxStage'
<1> USE EnTypes, EspNowAssumption
    DEF EspNowInv, RxStage, RxReturning, RxResting, Rx, NoHandler, OneHandler, RadioOff,
        RadioOn, Whole, enWorld, enRadio, enHandling, enAdapter
<1>1. CASE enTodo = ShutdownRadio /\ Rx(1, FALSE, FALSE, Whole)
  BY <1>1, RxLists, UncountStep
<1>2. CASE enTodo = GiveCallbacks /\ Rx(0, FALSE, FALSE, RadioOn /\ enReady)
  BY <1>2, RxLists, ClearStep
<1>3. CASE enTodo = GiveHandler /\ Rx(0, FALSE, FALSE, enReady /\ (NoHandler \/ OneHandler))
  BY <1>3, RxLists, UnhandleStep
<1>4. CASE enTodo = GiveStack /\ Rx(0, FALSE, FALSE, enReady /\ NoHandler)
  BY <1>4, RxLists, ClearStep
<1>5. CASE enTodo = GiveReady /\ Rx(0, FALSE, FALSE, NoHandler /\ ~enStack /\ ~enCalls)
  BY <1>5, RxLists, ClearStep
<1> QED BY <1>1, <1>2, <1>3, <1>4, <1>5

(* and a stop takes down what its steps so far take down.                    *)
LEMMA StoppingGoesOn ==
  ASSUME EspNowInv, RxStopping, RadioStep
  PROVE  RxStage'
<1> USE EnTypes, EspNowAssumption
    DEF EspNowInv, RxStage, RxStopping, RxResting, Rx, NoHandler, OneHandler, RadioOff,
        RadioOn, Whole, enWorld, enRadio, enHandling, enAdapter
<1>1. CASE enTodo = StopRx /\ Rx(1, TRUE, TRUE, Whole)
  BY <1>1, RxLists, ListenStep
<1>2. CASE enTodo = StopCount /\ Rx(1, TRUE, FALSE, Whole)
  BY <1>2, RxLists, UncountStep
<1>3. CASE enTodo = StopCallbacks /\ Rx(0, TRUE, FALSE, RadioOn /\ enReady)
  BY <1>3, RxLists, ClearStep
<1>4. CASE enTodo = StopHandler /\ Rx(0, TRUE, FALSE, enReady /\ (NoHandler \/ OneHandler))
  BY <1>4, RxLists, UnhandleStep
<1>5. CASE enTodo = StopStack /\ Rx(0, TRUE, FALSE, enReady /\ NoHandler)
  BY <1>5, RxLists, ClearStep
<1>6. CASE enTodo = StopReady /\ Rx(0, TRUE, FALSE, NoHandler /\ ~enStack /\ ~enCalls)
  BY <1>6, RxLists, ClearStep
<1>7. CASE enTodo = StopLast /\ Rx(0, TRUE, FALSE, RadioOff)
  BY <1>7, RxLists, ListenStep
<1> QED BY <1>1, <1>2, <1>3, <1>4, <1>5, <1>6, <1>7

(* Which counts and handlers the steps meet.                                 *)
LEMMA EnTyped ==
  ASSUME enWifi' \in {"none", "off", "on"}, enAt' \in {"idle", "init", "register"},
         enEvent' \in BOOLEAN, enReady' \in BOOLEAN, enStack' \in BOOLEAN,
         enCalls' \in BOOLEAN, enInstance' \in BOOLEAN, enUp' \in BOOLEAN,
         enListens' \in BOOLEAN, enFailed' \in BOOLEAN, enRef' \in 0..1,
         enHandlers' \in 0..HandlerMax
  PROVE  EspNowTypeOK'
  BY DEF EspNowTypeOK

(* The limits that guard some steps do not stop them.                        *)
LEMMA StepsMeet ==
  ASSUME EspNowInv, enTodo # <<>>
  PROVE  /\ Head(enTodo) = "count" => enRef = 0
         /\ Head(enTodo) = "uncount" => enRef = 1
         /\ Head(enTodo) = "handler" => enHandlers < HandlerMax
<1> USE RxLists DEF Starts, Rx
<1>1. CASE RxStarting
  BY <1>1 DEF RxStarting
<1>2. CASE RxListening \/ RxReturning
  BY <1>2 DEF RxListening, RxReturning
<1>3. CASE RxStopping
  BY <1>3 DEF RxStopping
<1> QED BY <1>1, <1>2, <1>3 DEF EspNowInv, RxStage, RxResting

(* A step leaves every variable in its type.                                 *)
LEMMA EspNowTyped ==
  ASSUME EspNowInv, [EspNowNext]_espNowVars
  PROVE  EspNowTypeOK' /\ (enInstance' => enHandlers' > 0)
<1>0. EspNowTypeOK /\ (enInstance => enHandlers > 0)
  BY DEF EspNowInv
<1> USE EnTypes, EnTyped, <1>0, EspNowAssumption DEF enWorld, enRadio, enHandling, enAdapter
<1>1. CASE RadioStep
  <2>1. /\ Head(enTodo) = "count" => enRef = 0
        /\ Head(enTodo) = "uncount" => enRef = 1
        /\ Head(enTodo) = "handler" => enHandlers < HandlerMax
    BY <1>1, StepsMeet DEF RadioStep
  <2>2. CASE Count /\ UNCHANGED <<enWorld, enReady, enStack, enCalls, enHandling, enAdapter>>
    <3>1. enRef' \in 0..1
      BY <2>1, <2>2 DEF Count
    <3>2. UNCHANGED <<enWifi, enAt, enEvent, enReady, enStack, enCalls, enInstance, enUp, enListens,
                      enFailed, enHandlers>>
      BY <2>2
    <3> QED BY <3>1, <3>2
  <2>3. CASE MinimalWifi /\ UNCHANGED <<enRadio, enHandling, enAdapter>>
    <3>1. enWifi' \in {"none", "off", "on"} /\ enEvent' \in BOOLEAN /\ UNCHANGED enAt
      BY <2>3 DEF MinimalWifi
    <3>2. UNCHANGED <<enRef, enReady, enStack, enCalls, enInstance, enUp, enListens, enFailed,
                      enHandlers>>
      BY <2>3
    <3> QED BY <3>1, <3>2
  <2>4. CASE OnRadio(Head(enTodo)) /\ UNCHANGED <<enWorld, enRef, enHandling, enAdapter>>
    <3>1. enReady' \in BOOLEAN /\ enStack' \in BOOLEAN /\ enCalls' \in BOOLEAN
      BY <2>4 DEF OnRadio
    <3>2. UNCHANGED <<enWifi, enAt, enEvent, enRef, enInstance, enUp, enListens, enFailed,
                      enHandlers>>
      BY <2>4
    <3> QED BY <3>1, <3>2
  <2>5. CASE OnHandler(Head(enTodo)) /\ UNCHANGED <<enWorld, enRadio, enAt, enFailed, enAdapter>>
    <3>1. enHandlers' \in 0..HandlerMax /\ (enInstance' => enHandlers' > 0)
      BY <2>1, <2>5 DEF OnHandler
    <3>2. enInstance' \in BOOLEAN /\ UNCHANGED <<enWorld, enRadio, enAt, enFailed, enAdapter>>
      BY <2>5 DEF OnHandler
    <3> QED BY <3>1, <3>2
  <2>6. CASE OnAdapter(Head(enTodo)) /\ UNCHANGED <<enWorld, enRadio, enHandling>>
    <3>1. enListens' \in BOOLEAN /\ enUp' \in BOOLEAN
      BY <2>6 DEF OnAdapter
    <3>2. UNCHANGED <<enWifi, enAt, enEvent, enRef, enReady, enStack, enCalls, enInstance, enFailed,
                      enHandlers>>
      BY <2>6
    <3> QED BY <3>1, <3>2
  <2> QED BY <1>1, <2>2, <2>3, <2>4, <2>5, <2>6 DEF RadioStep
<1>2. CASE RadioFails
  <2>1. /\ enWifi' \in {"none", "off", enWifi} /\ enStack' \in {FALSE, enStack}
        /\ enCalls' \in {FALSE, enCalls}
        /\ UNCHANGED <<enEvent, enRef, enReady, enHandling, enAdapter>>
    BY <1>2 DEF RadioFails
  <2>2. enWifi' \in {"none", "off", "on"} /\ enStack' \in BOOLEAN /\ enCalls' \in BOOLEAN
    BY <2>1
  <2> QED BY <2>1, <2>2
<1>3. CASE SwitchRx
  <2>1. UNCHANGED <<enWorld, enRadio, enHandling, enAdapter>>
    BY <1>3 DEF SwitchRx
  <2> QED BY <2>1
<1>4. CASE WifiStarts
  BY <1>4 DEF WifiStarts
<1>5. CASE Reinit
  BY <1>5 DEF Reinit
<1>6. CASE ReinitStack
  BY <1>6 DEF ReinitStack
<1>7. CASE ReinitCallbacks
  BY <1>7 DEF ReinitCallbacks
<1>8. CASE UNCHANGED espNowVars
  BY <1>8 DEF espNowVars
<1> QED BY <1>1, <1>2, <1>3, <1>4, <1>5, <1>6, <1>7, <1>8 DEF EspNowNext

(* A step that fails leads on to listening, or the failing listen to the     *)
(* return of what was counted.                                               *)
LEMMA FailureGoesOn ==
  ASSUME EspNowInv, RadioFails
  PROVE  RxStage'
<1> USE EnTypes, EspNowAssumption
    DEF EspNowInv, RxStage, Rx, NoHandler, OneHandler, RadioOff, RadioOn, Whole, enWorld,
        enRadio, enHandling, enAdapter
<1>1. /\ Head(enTodo) = "listen" => enTodo' = ShutdownRadio
      /\ Head(enTodo) = "handler" => enTodo' = Tail(enTodo)
      /\ Head(enTodo) \in {"wifi", "stack", "callbacks"} => enTodo' = RxListen
      /\ Head(enTodo) \in {"wifi", "stack", "callbacks", "handler", "listen"} /\ enTodo # <<>>
      /\ UNCHANGED <<enRef, enReady, enHandling, enAdapter>>
      /\ \/ Head(enTodo) \in {"stack", "callbacks"} /\ ~enStack' /\ ~enCalls'
         \/ Head(enTodo) \in {"wifi", "handler", "listen"} /\ UNCHANGED <<enStack, enCalls>>
  BY DEF RadioFails, RxListen
<1>2. CASE RxStarting
  <2>1. CASE enTodo = RxWifi /\ Rx(1, FALSE, FALSE, RadioOff)
    BY <1>1, <2>1, RxLists DEF RxListening, Starts
  <2>2. CASE enTodo = RxStack /\ Rx(1, FALSE, FALSE, RadioOff)
    BY <1>1, <2>2, RxLists DEF RxListening, Starts
  <2>3. CASE /\ enTodo = RxCallbacks
             /\ Rx(1, FALSE, FALSE, ~enReady /\ enStack /\ ~enCalls /\ NoHandler)
    BY <1>1, <2>3, RxLists DEF RxListening, Starts
  <2>4. CASE enTodo = RxHandler /\ Rx(1, FALSE, FALSE, ~enReady /\ RadioOn /\ NoHandler)
    <3>1. enTodo' = RxReady /\ UNCHANGED <<enRadio, enHandling, enAdapter>>
      BY <1>1, <2>4, RxLists DEF Starts
    <3> QED BY <2>4, <3>1 DEF RxListening
  <2>5. enTodo # StartRx
    BY <1>1, RxLists DEF Starts
  <2> QED BY <1>2, <2>1, <2>2, <2>3, <2>4, <2>5 DEF RxStarting
<1>3. CASE RxListening
  <2>1. enTodo = RxListen /\ Rx(1, FALSE, FALSE, Whole)
    BY <1>1, <1>3, RxLists DEF RxListening, Starts
  <2>2. enTodo' = ShutdownRadio /\ UNCHANGED <<enRadio, enHandling, enAdapter>>
    BY <1>1, <2>1, RxLists DEF Starts
  <2> QED BY <2>1, <2>2 DEF RxReturning
<1>4. ~RxReturning /\ ~RxStopping /\ ~RxResting
  BY <1>1, RxLists DEF RxReturning, RxStopping, RxResting, Starts
<1> QED BY <1>2, <1>3, <1>4

(* A call begins at rest.                                                    *)
LEMMA SwitchRxKeeps ==
  ASSUME EspNowInv, SwitchRx
  PROVE  RxStage'
<1>1. RxResting
  BY RxLists DEF SwitchRx, EspNowInv, RxStage, RxStarting, RxListening, RxReturning, RxStopping,
                 Starts
<1>2. /\ \/ ~enUp /\ enHandlers < HandlerMax /\ enTodo' = StartRx
         \/ enUp /\ enTodo' = StopRx
      /\ UNCHANGED <<enWorld, enRadio, enHandling, enAdapter>>
  BY DEF SwitchRx
<1> QED
  BY <1>1, <1>2
  DEF RxResting, RxStage, RxStarting, RxStopping, Rx, NoHandler, OneHandler, RadioOff, RadioOn, Whole,
      enWorld, enRadio, enHandling, enAdapter

(* The handler that sets the radio up anew finds none, or one that is its    *)
(* own; where the stage allows the latter it leaves the stage, or fails.     *)
LEMMA HandlerKeeps ==
  ASSUME EspNowInv, WifiStarts \/ Reinit \/ ReinitStack \/ ReinitCallbacks
  PROVE  RxStage'
<1>1. UNCHANGED <<enTodo, enRef, enUp, enListens, enHandlers, enInstance>> /\ (enFailed => enFailed')
  BY DEF WifiStarts, Reinit, ReinitStack, ReinitCallbacks, enRadio, enHandling, enAdapter
<1>2. NoHandler => UNCHANGED <<enReady, enStack, enCalls, enHandling>>
  BY DEF WifiStarts, Reinit, ReinitStack, ReinitCallbacks, enRadio, enHandling, NoHandler
<1>3. ~enFailed' => enReady' = enReady
  BY DEF WifiStarts, Reinit, ReinitStack, ReinitCallbacks, enRadio, enHandling
<1>4. RadioOn /\ ~enFailed' => RadioOn'
  BY <1>1, <1>2, EnTypes
  DEF EspNowInv, WifiStarts, Reinit, ReinitStack, ReinitCallbacks, RadioOn, NoHandler, OneHandler,
      enRadio, enHandling
<1>5. /\ NoHandler => NoHandler'
      /\ OneHandler => OneHandler'
      /\ RadioOff => RadioOff'
      /\ Whole /\ ~enFailed' => Whole'
  BY <1>1, <1>2, <1>3, <1>4 DEF NoHandler, OneHandler, RadioOff, Whole, enHandling
<1> USE <1>1, <1>2, <1>3, <1>4, <1>5 DEF Rx
<1>6. RxStarting => RxStarting'
  BY DEF RxStarting
<1>7. RxListening => RxListening'
  BY DEF RxListening
<1>8. RxReturning => RxReturning'
  BY DEF RxReturning
<1>9. RxStopping => RxStopping'
  BY DEF RxStopping
<1>10. RxResting => RxResting'
  BY DEF RxResting
<1> QED BY <1>6, <1>7, <1>8, <1>9, <1>10 DEF EspNowInv, RxStage

(* Whichever steps fail and whenever Wi-Fi starts, the count and the flags   *)
(* are what the step the adapter has reached says, and so is the radio as    *)
(* long as its handler has not failed.                                       *)
THEOREM EspNowInvariant == EspNowSpec => []EspNowInv
<1>1. EspNowInit => EspNowInv
  <2> SUFFICES ASSUME EspNowInit PROVE EspNowInv
    OBVIOUS
  <2>1. EspNowTypeOK
    <3>1. enRef \in 0..1 /\ enHandlers \in 0..HandlerMax
      BY EspNowAssumption DEF EspNowInit
    <3> QED BY <3>1 DEF EspNowInit, EspNowTypeOK
  <2>2. RxResting /\ ~enInstance
    BY DEF EspNowInit, RxResting, Rx, RadioOff, NoHandler
  <2> QED BY <2>1, <2>2 DEF EspNowInv, RxStage
<1>2. EspNowInv /\ [EspNowNext]_espNowVars => EspNowInv'
  <2> SUFFICES ASSUME EspNowInv, [EspNowNext]_espNowVars PROVE RxStage'
    BY EspNowTyped DEF EspNowInv
  <2>1. CASE RadioStep
    <3>1. ~RxResting
      BY <2>1 DEF RadioStep, RxResting
    <3> QED BY <2>1, <3>1, StartRxGoesOn, ListeningGoesOn, ReturningGoesOn, StoppingGoesOn
            DEF EspNowInv, RxStage
  <2>2. CASE UNCHANGED espNowVars
    BY <2>2
    DEF espNowVars, enWorld, enRadio, enHandling, enAdapter, EspNowInv, RxStage, RxStarting,
        RxListening, RxReturning, RxStopping, RxResting, Rx, NoHandler, OneHandler, RadioOff,
        RadioOn, Whole
  <2> QED BY <2>1, <2>2, FailureGoesOn, SwitchRxKeeps, HandlerKeeps DEF EspNowNext
<1> QED BY <1>1, <1>2, PTL DEF EspNowSpec

(* At rest the radio is referred to exactly by an adapter that is up; one    *)
(* that is off has left neither the radio nor a handler; and the radio is up *)
(* with its callbacks exactly if it says so, unless the handler failed.      *)
THEOREM RadioFollows == EspNowSpec => []RadioFollowsAdapter
<1>1. EspNowInv => RadioFollowsAdapter
  <2> SUFFICES ASSUME EspNowInv, enTodo = <<>>, enAt = "idle", ~enFailed
               PROVE  /\ enRef = IF enUp THEN 1 ELSE 0
                      /\ enUp <=> enListens
                      /\ ~enUp => ~enReady /\ enHandlers = 0
                      /\ {enStack, enCalls} = {enReady}
    BY DEF RadioFollowsAdapter
  <2>1. RxResting
    BY RxLists DEF EspNowInv, RxStage, RxStarting, RxListening, RxReturning, RxStopping, Starts
  <2> QED BY <2>1, EnTypes
          DEF EspNowInv, RxResting, Rx, Whole, RadioOff, RadioOn, NoHandler
<1> QED BY <1>1, EspNowInvariant, PTL

-----------------------------------------------------------------------------
(* The internet adapter over Wi-Fi: its calls are lists of operations too,   *)
(* which do not fail, and are told apart by the operation that is next.      *)

(* What is left of a list of calls when its i-th is the next.                *)
From(calls, i) == SubSeq(calls, i, Len(calls))

(* The next call is its i-th, and then the rest is left.                    *)
LEMMA FromTheNext ==
  ASSUME NEW S, NEW calls \in Seq(S), NEW i \in 1..Len(calls)
  PROVE  /\ From(calls, i) # <<>> /\ From(calls, i) \in Seq(S)
         /\ Head(From(calls, i)) = calls[i] /\ Tail(From(calls, i)) = From(calls, i + 1)
<1> DEFINE s == From(calls, i)
           r == From(calls, i + 1)
<1>1. s \in Seq(S) /\ Len(s) = Len(calls) - i + 1 /\ \A j \in 1..Len(s) : s[j] = calls[i + j - 1]
  BY DEF From
<1>2. r \in Seq(S) /\ Len(r) = Len(calls) - i /\ \A j \in 1..Len(r) : r[j] = calls[i + j]
  BY DEF From
<1> HIDE DEF s, r
<1>3. s # <<>> /\ Head(s) = s[1] /\ Head(s) = calls[i]
  BY <1>1
<1>4. Tail(s) \in Seq(S) /\ Len(Tail(s)) = Len(r) /\ \A j \in 1..Len(r) : Tail(s)[j] = r[j]
  <2>1. Tail(s) \in Seq(S) /\ Len(Tail(s)) = Len(s) - 1
    BY <1>1, <1>3
  <2>2. Len(s) \in Nat /\ Len(s) - 1 = Len(r)
    BY <1>1, <1>2
  <2>3. ASSUME NEW j \in 1..Len(r) PROVE Tail(s)[j] = r[j]
    <3>1. j + 1 \in 1..Len(s) /\ Tail(s)[j] = s[j + 1] /\ i + (j + 1) - 1 = i + j
      BY <1>1, <1>3, <2>2
    <3> QED BY <1>1, <1>2, <3>1
  <2> QED BY <2>1, <2>2, <2>3
<1>5. Tail(s) = r
  BY <1>2, <1>4, SeqEqual
<1> QED BY <1>1, <1>3, <1>5 DEF s, r

(* A list is left as a whole at first, and nothing after its last call.     *)
LEMMA FromTheEnds ==
  ASSUME NEW S, NEW calls \in Seq(S)
  PROVE  From(calls, 1) = calls /\ From(calls, Len(calls) + 1) = <<>>
<1>1. From(calls, 1) \in Seq(S) /\ Len(From(calls, 1)) = Len(calls)
      /\ \A j \in 1..Len(calls) : From(calls, 1)[j] = calls[j]
  BY DEF From
<1>2. From(calls, Len(calls) + 1) \in Seq(S) /\ Len(From(calls, Len(calls) + 1)) = 0
  BY DEF From
<1>3. From(calls, 1) = calls
  BY <1>1, SeqEqual
<1> QED BY <1>2, <1>3

(* The operations the calls consist of.                                      *)
InetOps ==
  {<<"start", "ota">>, <<"start", "monitor">>, <<"start", "mdns">>, <<"start", "sntp">>,
   <<"stop", "ota">>, <<"stop", "monitor">>, <<"stop", "mdns">>, <<"stop", "sntp">>,
   <<"stop", "mqtt">>, <<"stop_ota">>, <<"stop_http">>, <<"http", "plain">>,
   <<"http", "secure">>, <<"mqtt">>, <<"broker">>, <<"configure">>,
   <<"flag", "none">>, <<"flag", "sta">>, <<"flag", "ap">>,
   <<"wifi", "none">>, <<"wifi", "sta">>, <<"wifi", "ap">>,
   <<"handlers", TRUE>>, <<"handlers", FALSE>>, <<"callback", TRUE>>, <<"callback", FALSE>>,
   <<"up", TRUE>>, <<"up", FALSE>>}

(* The calls of two lists, joined, are those of the one and of the other.   *)
LEMMA JoinedAt ==
  \A s, t \in Seq(InetOps) :
    /\ s \o t \in Seq(InetOps) /\ Len(s \o t) = Len(s) + Len(t)
    /\ \A i \in 1..Len(s) : (s \o t)[i] = s[i]
    /\ \A i \in 1..Len(t) : (s \o t)[Len(s) + i] = t[i]
  OBVIOUS

(* Each of them is one.                                                     *)
LEMMA OpsNamed ==
  /\ <<"start", "ota">> \in InetOps /\ <<"start", "monitor">> \in InetOps
  /\ <<"start", "mdns">> \in InetOps /\ <<"start", "sntp">> \in InetOps
  /\ <<"stop", "monitor">> \in InetOps /\ <<"stop", "mdns">> \in InetOps
  /\ <<"stop", "sntp">> \in InetOps /\ <<"stop", "mqtt">> \in InetOps
  /\ <<"stop_ota">> \in InetOps /\ <<"stop_http">> \in InetOps
  /\ <<"http", "plain">> \in InetOps /\ <<"http", "secure">> \in InetOps
  /\ <<"mqtt">> \in InetOps /\ <<"broker">> \in InetOps /\ <<"configure">> \in InetOps
  /\ <<"flag", "none">> \in InetOps /\ <<"flag", "sta">> \in InetOps
  /\ <<"flag", "ap">> \in InetOps /\ <<"wifi", "none">> \in InetOps
  /\ <<"wifi", "sta">> \in InetOps /\ <<"wifi", "ap">> \in InetOps
  /\ <<"handlers", TRUE>> \in InetOps /\ <<"handlers", FALSE>> \in InetOps
  /\ <<"callback", TRUE>> \in InetOps /\ <<"callback", FALSE>> \in InetOps
  /\ <<"up", TRUE>> \in InetOps /\ <<"up", FALSE>> \in InetOps
  BY Zenon DEF InetOps

(* inet_stop_services, call by call;                                        *)
LEMMA StopServicesList ==
  /\ StopServices \in Seq(InetOps) /\ Len(StopServices) = 6
  /\ StopServices[1] = <<"stop", "monitor">> /\ StopServices[2] = <<"stop", "mqtt">>
  /\ StopServices[3] = <<"stop_http">> /\ StopServices[4] = <<"stop", "sntp">>
  /\ StopServices[5] = <<"stop_ota">> /\ StopServices[6] = <<"flag", "none">>
  BY OpsNamed DEF StopServices

StopThen(m) == StopServices \o << <<"wifi", m>> >>
(* a change of the mode;                                                    *)
LEMMA StopThenList ==
  ASSUME NEW m \in {"sta", "ap"}
  PROVE  /\ StopThen(m) \in Seq(InetOps) /\ Len(StopThen(m)) = 7
         /\ \A i \in 1..6 : StopThen(m)[i] = StopServices[i]
         /\ StopThen(m)[7] = <<"wifi", m>>
<1> DEFINE last == << <<"wifi", m>> >>
<1>1. <<"wifi", m>> \in InetOps
  BY OpsNamed
<1>2. last \in Seq(InetOps) /\ Len(last) = 1 /\ last[1] = <<"wifi", m>>
  BY <1>1
<1>3. StopThen(m) = StopServices \o last
  BY DEF StopThen
<1> HIDE DEF last
<1>4. /\ StopThen(m) \in Seq(InetOps) /\ Len(StopThen(m)) = 7
      /\ \A i \in 1..6 : StopThen(m)[i] = StopServices[i]
      /\ \A i \in 1..1 : StopThen(m)[6 + i] = last[i]
  <2>1. StopServices \in Seq(InetOps) /\ Len(StopServices) = 6
    BY StopServicesList
  <2>2. last \in Seq(InetOps) /\ Len(last) = 1 /\ 6 \in Nat /\ 1 \in Nat
    BY <1>2
  <2>4. /\ StopServices \o last \in Seq(InetOps)
        /\ Len(StopServices \o last) = Len(StopServices) + Len(last)
        /\ \A i \in 1..Len(StopServices) : (StopServices \o last)[i] = StopServices[i]
        /\ \A i \in 1..Len(last) : (StopServices \o last)[Len(StopServices) + i] = last[i]
    BY <2>1, <2>2, JoinedAt, Zenon
  <2>3. /\ StopServices \o last \in Seq(InetOps) /\ Len(StopServices \o last) = 6 + 1
        /\ \A i \in 1..6 : (StopServices \o last)[i] = StopServices[i]
        /\ \A i \in 1..1 : (StopServices \o last)[6 + i] = last[i]
    BY <2>1, <2>2, <2>4, Zenon
  <2>5. 6 + 1 = 7
    OBVIOUS
  <2> QED BY <1>3, <2>3, <2>5, Zenon
<1>5. StopThen(m)[6 + 1] = last[1]
  BY <1>4
<1> QED BY <1>2, <1>4, <1>5

(* inet_adapter_shutdown;                                                   *)
LEMMA StopAdapterList ==
  /\ StopAdapter \in Seq(InetOps) /\ Len(StopAdapter) = 11
  /\ StopAdapter[1] = <<"handlers", FALSE>>
  /\ \A i \in 1..6 : StopAdapter[1 + i] = StopServices[i]
  /\ StopAdapter[8] = <<"stop", "mdns">> /\ StopAdapter[9] = <<"callback", FALSE>>
  /\ StopAdapter[10] = <<"wifi", "none">> /\ StopAdapter[11] = <<"up", FALSE>>
<1> DEFINE a == <<"handlers", FALSE>>
           b == <<"stop", "mdns">>
           c == <<"callback", FALSE>>
           d == <<"wifi", "none">>
           e == <<"up", FALSE>>
           first == <<a>>
           last == <<b, c, d, e>>
<1>0. a \in InetOps /\ b \in InetOps /\ c \in InetOps /\ d \in InetOps /\ e \in InetOps
  BY OpsNamed, Zenon
<1>10. StopAdapter = (first \o StopServices) \o last
  BY Zenon DEF StopAdapter
<1>11. a = <<"handlers", FALSE>> /\ b = <<"stop", "mdns">> /\ c = <<"callback", FALSE>>
       /\ d = <<"wifi", "none">> /\ e = <<"up", FALSE>>
  BY Zenon
<1> HIDE DEF a, b, c, d, e
<1>1. first \in Seq(InetOps) /\ Len(first) = 1 /\ first[1] = a
  BY <1>0
<1>2. last \in Seq(InetOps) /\ Len(last) = 4 /\ last[1] = b /\ last[2] = c /\ last[3] = d
      /\ last[4] = e
  BY <1>0
<1> HIDE DEF first, last
<1> DEFINE front == first \o StopServices
<1>4. /\ front \in Seq(InetOps) /\ Len(front) = 7
      /\ \A i \in 1..1 : front[i] = first[i]
      /\ \A i \in 1..6 : front[1 + i] = StopServices[i]
  <2>1. StopServices \in Seq(InetOps) /\ Len(StopServices) = 6
    BY StopServicesList
  <2>2. first \in Seq(InetOps) /\ Len(first) = 1 /\ 6 \in Nat /\ 1 \in Nat
    BY <1>1
  <2> HIDE DEF first
  <2>4. /\ first \o StopServices \in Seq(InetOps)
        /\ Len(first \o StopServices) = Len(first) + Len(StopServices)
        /\ \A i \in 1..Len(first) : (first \o StopServices)[i] = first[i]
        /\ \A i \in 1..Len(StopServices) : (first \o StopServices)[Len(first) + i] = StopServices[i]
    BY <2>1, <2>2, JoinedAt, Zenon
  <2>3. /\ front \in Seq(InetOps) /\ Len(front) = 1 + 6
        /\ \A i \in 1..1 : front[i] = first[i]
        /\ \A i \in 1..6 : front[1 + i] = StopServices[i]
    BY <2>1, <2>2, <2>4, Zenon
  <2> HIDE DEF front
  <2> QED BY <2>3
<1> HIDE DEF front
<1>5. /\ StopAdapter \in Seq(InetOps) /\ Len(StopAdapter) = 11
      /\ \A i \in 1..7 : StopAdapter[i] = front[i]
      /\ \A i \in 1..4 : StopAdapter[7 + i] = last[i]
  <2>1. front \in Seq(InetOps) /\ Len(front) = 7 /\ StopAdapter = front \o last
    BY <1>10, <1>4 DEF front
  <2>2. last \in Seq(InetOps) /\ Len(last) = 4 /\ 7 \in Nat /\ 4 \in Nat
    BY <1>2
  <2> HIDE DEF last
  <2>5. /\ front \o last \in Seq(InetOps) /\ Len(front \o last) = Len(front) + Len(last)
        /\ \A i \in 1..Len(front) : (front \o last)[i] = front[i]
        /\ \A i \in 1..Len(last) : (front \o last)[Len(front) + i] = last[i]
    BY <2>1, <2>2, JoinedAt, Zenon
  <2>3. /\ front \o last \in Seq(InetOps) /\ Len(front \o last) = 7 + 4
        /\ \A i \in 1..7 : (front \o last)[i] = front[i]
        /\ \A i \in 1..4 : (front \o last)[7 + i] = last[i]
    BY <2>1, <2>2, <2>5, Zenon
  <2>4. /\ StopAdapter \in Seq(InetOps) /\ Len(StopAdapter) = 7 + 4
        /\ \A i \in 1..7 : StopAdapter[i] = front[i]
        /\ \A i \in 1..4 : StopAdapter[7 + i] = last[i]
    BY <2>1, <2>3, Zenon
  <2> QED BY <2>4
<1>6. \A i \in 1..6 : StopAdapter[1 + i] = StopServices[i]
  BY <1>4, <1>5
<1>7. /\ StopAdapter[7 + 1] = last[1] /\ StopAdapter[7 + 2] = last[2]
      /\ StopAdapter[7 + 3] = last[3] /\ StopAdapter[7 + 4] = last[4]
  BY <1>5
<1>8. StopAdapter[1] = first[1]
  BY <1>4, <1>5
<1>9. /\ StopAdapter \in Seq(InetOps) /\ Len(StopAdapter) = 11
      /\ StopAdapter[1] = a /\ StopAdapter[8] = b /\ StopAdapter[9] = c
      /\ StopAdapter[10] = d /\ StopAdapter[11] = e
  BY <1>1, <1>2, <1>5, <1>7, <1>8
<1> QED BY <1>11, <1>6, <1>9, Zenon

(* inet_adapter_init;                                                       *)
LEMMA StartAdapterList ==
  /\ StartAdapter \in Seq(InetOps) /\ Len(StartAdapter) = 5
  /\ StartAdapter[1] = <<"configure">> /\ StartAdapter[2] = <<"callback", TRUE>>
  /\ StartAdapter[3] = <<"handlers", TRUE>> /\ StartAdapter[4] = <<"wifi", "sta">>
  /\ StartAdapter[5] = <<"up", TRUE>>
<1> DEFINE a == <<"configure">>
           b == <<"callback", TRUE>>
           c == <<"handlers", TRUE>>
           d == <<"wifi", "sta">>
           e == <<"up", TRUE>>
<1>1. a \in InetOps /\ b \in InetOps /\ c \in InetOps /\ d \in InetOps /\ e \in InetOps
  BY OpsNamed, Zenon
<1>2. StartAdapter = <<a, b, c, d, e>>
  BY Zenon DEF StartAdapter
<1>3. a = <<"configure">> /\ b = <<"callback", TRUE>> /\ c = <<"handlers", TRUE>>
      /\ d = <<"wifi", "sta">> /\ e = <<"up", TRUE>>
  BY Zenon
<1> HIDE DEF a, b, c, d, e
<1>4. /\ StartAdapter \in Seq(InetOps) /\ Len(StartAdapter) = 5
      /\ StartAdapter[1] = a /\ StartAdapter[2] = b /\ StartAdapter[3] = c
      /\ StartAdapter[4] = d /\ StartAdapter[5] = e
  BY <1>1, <1>2
<1> QED BY <1>3, <1>4, Zenon

(* A list between the basic services and the flag.                           *)
LEMMA ServicesList ==
  ASSUME NEW more \in Seq(InetOps), NEW f \in {"sta", "ap"}, NEW calls,
         calls = Basic \o more \o << <<"flag", f>> >>
  PROVE  /\ calls \in Seq(InetOps) /\ Len(calls) = Len(more) + 3
         /\ calls[1] = <<"start", "ota">> /\ calls[2] = <<"start", "monitor">>
         /\ \A i \in 1..Len(more) : calls[2 + i] = more[i]
         /\ calls[Len(more) + 3] = <<"flag", f>>
<1> DEFINE last == << <<"flag", f>> >>
<1>1. Basic \in Seq(InetOps) /\ Len(Basic) = 2 /\ Basic[1] = <<"start", "ota">>
      /\ Basic[2] = <<"start", "monitor">>
  BY OpsNamed DEF Basic
<1>2. <<"flag", f>> \in InetOps
  BY OpsNamed
<1>3. last \in Seq(InetOps) /\ Len(last) = 1 /\ last[1] = <<"flag", f>>
  BY <1>2
<1>4. calls = (Basic \o more) \o last
  OBVIOUS
<1> HIDE DEF last
<1> DEFINE front == Basic \o more
<1>5. /\ front \in Seq(InetOps) /\ Len(front) = 2 + Len(more)
      /\ \A i \in 1..2 : front[i] = Basic[i]
      /\ \A i \in 1..Len(more) : front[2 + i] = more[i]
  <2>1. /\ Basic \in Seq(InetOps) /\ Len(Basic) = 2 /\ 2 \in Nat
        /\ more \in Seq(InetOps) /\ Len(more) \in Nat
    BY <1>1
  <2>2. /\ Basic \o more \in Seq(InetOps) /\ Len(Basic \o more) = Len(Basic) + Len(more)
        /\ \A i \in 1..Len(Basic) : (Basic \o more)[i] = Basic[i]
        /\ \A i \in 1..Len(more) : (Basic \o more)[Len(Basic) + i] = more[i]
    BY <2>1, JoinedAt, Zenon
  <2> QED BY <2>1, <2>2, Zenon
<1>51. calls = front \o last
  BY <1>4
<1> HIDE DEF front
<1>52. 2 + Len(more) \in Nat /\ 1 \in Nat
  OBVIOUS
<1>6. /\ calls \in Seq(InetOps) /\ Len(calls) = (2 + Len(more)) + 1
      /\ \A i \in 1..(2 + Len(more)) : calls[i] = front[i]
      /\ \A i \in 1..1 : calls[(2 + Len(more)) + i] = last[i]
  <2>2. /\ front \o last \in Seq(InetOps) /\ Len(front \o last) = Len(front) + Len(last)
        /\ \A i \in 1..Len(front) : (front \o last)[i] = front[i]
        /\ \A i \in 1..Len(last) : (front \o last)[Len(front) + i] = last[i]
    BY <1>3, <1>5, JoinedAt, Zenon
  <2>1. /\ front \o last \in Seq(InetOps) /\ Len(front \o last) = (2 + Len(more)) + 1
        /\ \A i \in 1..(2 + Len(more)) : (front \o last)[i] = front[i]
        /\ \A i \in 1..1 : (front \o last)[(2 + Len(more)) + i] = last[i]
    BY <1>3, <1>5, <2>2, Zenon
  <2> QED BY <1>51, <2>1, Zenon
<1>7. Len(more) \in Nat
  OBVIOUS
<1>8. calls[1] = Basic[1] /\ calls[2] = Basic[2]
  BY <1>5, <1>6, <1>7
<1>9. \A i \in 1..Len(more) : calls[2 + i] = more[i]
  BY <1>5, <1>6, <1>7
<1>10. calls[2 + Len(more) + 1] = last[1] /\ 2 + Len(more) + 1 = Len(more) + 3
  BY <1>6, <1>7
<1> QED BY <1>1, <1>3, <1>6, <1>7, <1>8, <1>9, <1>10

(* the services of a station;                                               *)
LEMMA StationList ==
  ASSUME inCfg \in InetConfig
  PROVE  /\ StationServices \in Seq(InetOps)
         /\ StationServices[1] = <<"start", "ota">> /\ StationServices[2] = <<"start", "monitor">>
         /\ inCfg.safe => Len(StationServices) = 3 /\ StationServices[3] = <<"flag", "sta">>
         /\ ~inCfg.safe => /\ Len(StationServices) = 8
                           /\ StationServices[3] = <<"start", "mdns">>
                           /\ StationServices[4] = <<"start", "sntp">>
                           /\ StationServices[5] = <<"broker">> /\ StationServices[6] = <<"mqtt">>
                           /\ StationServices[7] = <<"http", ConfiguredHttp>>
                           /\ StationServices[8] = <<"flag", "sta">>
<1> DEFINE extra == << <<"start", "mdns">>, <<"start", "sntp">>, <<"broker">>, <<"mqtt">>,
                       <<"http", ConfiguredHttp>> >>
           more == IF inCfg.safe THEN <<>> ELSE extra
<1>1. <<"http", ConfiguredHttp>> \in InetOps
  BY OpsNamed DEF ConfiguredHttp
<1>2. /\ extra \in Seq(InetOps) /\ Len(extra) = 5
      /\ extra[1] = <<"start", "mdns">> /\ extra[2] = <<"start", "sntp">>
      /\ extra[3] = <<"broker">> /\ extra[4] = <<"mqtt">> /\ extra[5] = <<"http", ConfiguredHttp>>
  BY <1>1, OpsNamed
<1>3. <<>> \in Seq(InetOps) /\ Len(<<>>) = 0
  OBVIOUS
<1>4. StationServices = Basic \o more \o << <<"flag", "sta">> >>
  BY DEF StationServices
<1> HIDE DEF extra
<1>5. more \in Seq(InetOps)
  BY <1>2, <1>3
<1> HIDE DEF more
<1>6. /\ StationServices \in Seq(InetOps) /\ Len(StationServices) = Len(more) + 3
      /\ StationServices[1] = <<"start", "ota">> /\ StationServices[2] = <<"start", "monitor">>
      /\ \A i \in 1..Len(more) : StationServices[2 + i] = more[i]
      /\ StationServices[Len(more) + 3] = <<"flag", "sta">>
  BY <1>4, <1>5, ServicesList
<1>7. CASE inCfg.safe
  <2>1. Len(more) = 0
    BY <1>3, <1>7 DEF more
  <2>2. Len(more) + 3 = 3
    BY <2>1
  <2> QED BY <1>6, <1>7, <2>2, Zenon
<1>8. CASE ~inCfg.safe
  <2>1. more = extra
    BY <1>8 DEF more
  <2>2. /\ StationServices[2 + 1] = extra[1] /\ StationServices[2 + 2] = extra[2]
        /\ StationServices[2 + 3] = extra[3] /\ StationServices[2 + 4] = extra[4]
        /\ StationServices[2 + 5] = extra[5]
    <3>1. Len(more) = 5 /\ \A i \in 1..Len(more) : StationServices[2 + i] = extra[i]
      BY <1>2, <1>6, <2>1
    <3> QED BY <3>1
  <2>3. Len(StationServices) = 8 /\ StationServices[8] = <<"flag", "sta">>
    <3>2. Len(more) = 5
      BY <1>2, <2>1
    <3>1. Len(more) + 3 = 8
      BY <3>2
    <3> QED BY <1>6, <3>1, Zenon
  <2>5. /\ StationServices[3] = <<"start", "mdns">> /\ StationServices[4] = <<"start", "sntp">>
        /\ StationServices[5] = <<"broker">> /\ StationServices[6] = <<"mqtt">>
        /\ StationServices[7] = <<"http", ConfiguredHttp>>
    BY <1>2, <2>2
  <2> QED BY <1>6, <1>8, <2>3, <2>5, Zenon
<1> QED BY <1>7, <1>8

(* and those of an access point.                                            *)
LEMMA ApList ==
  ASSUME inCfg \in InetConfig
  PROVE  /\ ApServices \in Seq(InetOps)
         /\ ApServices[1] = <<"start", "ota">> /\ ApServices[2] = <<"start", "monitor">>
         /\ inCfg.safe => Len(ApServices) = 3 /\ ApServices[3] = <<"flag", "ap">>
         /\ ~inCfg.safe => /\ Len(ApServices) = 5
                           /\ ApServices[3] = <<"http", "secure">>
                           /\ ApServices[4] = <<"start", "mdns">>
                           /\ ApServices[5] = <<"flag", "ap">>
<1> DEFINE extra == << <<"http", "secure">>, <<"start", "mdns">> >>
           more == IF inCfg.safe THEN <<>> ELSE extra
<1>2. /\ extra \in Seq(InetOps) /\ Len(extra) = 2
      /\ extra[1] = <<"http", "secure">> /\ extra[2] = <<"start", "mdns">>
  BY OpsNamed
<1>3. <<>> \in Seq(InetOps) /\ Len(<<>>) = 0
  OBVIOUS
<1>4. ApServices = Basic \o more \o << <<"flag", "ap">> >>
  BY DEF ApServices
<1> HIDE DEF extra
<1>5. more \in Seq(InetOps)
  BY <1>2, <1>3
<1> HIDE DEF more
<1>6. /\ ApServices \in Seq(InetOps) /\ Len(ApServices) = Len(more) + 3
      /\ ApServices[1] = <<"start", "ota">> /\ ApServices[2] = <<"start", "monitor">>
      /\ \A i \in 1..Len(more) : ApServices[2 + i] = more[i]
      /\ ApServices[Len(more) + 3] = <<"flag", "ap">>
  BY <1>4, <1>5, ServicesList
<1>7. CASE inCfg.safe
  <2>1. Len(more) = 0
    BY <1>3, <1>7 DEF more
  <2>2. Len(more) + 3 = 3
    BY <2>1
  <2> QED BY <1>6, <1>7, <2>2, Zenon
<1>8. CASE ~inCfg.safe
  <2>1. more = extra
    BY <1>8 DEF more
  <2>2. ApServices[2 + 1] = extra[1] /\ ApServices[2 + 2] = extra[2]
    <3>1. Len(more) = 2 /\ \A i \in 1..Len(more) : ApServices[2 + i] = extra[i]
      BY <1>2, <1>6, <2>1
    <3> QED BY <3>1
  <2>3. Len(ApServices) = 5 /\ ApServices[5] = <<"flag", "ap">>
    <3>2. Len(more) = 2
      BY <1>2, <2>1
    <3>1. Len(more) + 3 = 5
      BY <3>2
    <3> QED BY <1>6, <3>1, Zenon
  <2>5. ApServices[3] = <<"http", "secure">> /\ ApServices[4] = <<"start", "mdns">>
    BY <1>2, <2>2
  <2> QED BY <1>6, <1>8, <2>3, <2>5, Zenon
<1> QED BY <1>7, <1>8

-----------------------------------------------------------------------------
(* Task t has the list left to do, and the other one nothing.                *)
Lists(t, list) == [u \in InetTask |-> IF u = t THEN list ELSE <<>>]
Doing(t, list) == inTodo = Lists(t, list)

(* What serves after i - 1 of the calls that start the services.             *)
Expected(kind) == IF kind = "secure" /\ ~inCfg.certs THEN "off" ELSE kind
ServesNothing ==
  /\ "ota" \notin inSvc /\ "monitor" \notin inSvc /\ "sntp" \notin inSvc /\ "mqtt" \notin inSvc
  /\ inHttp = "off"
ServesStation(i) ==
  /\ "ota" \in inSvc <=> i > 1
  /\ "monitor" \in inSvc <=> i > 2
  /\ ~inCfg.safe /\ i > 3 => "mdns" \in inSvc
  /\ "sntp" \in inSvc <=> ~inCfg.safe /\ i > 4
  /\ "mqtt" \in inSvc => ~inCfg.safe /\ i > 6
  /\ inHttp = IF ~inCfg.safe /\ i > 7 THEN Expected(ConfiguredHttp) ELSE "off"
ServesAp(i) ==
  /\ "ota" \in inSvc <=> i > 1
  /\ "monitor" \in inSvc <=> i > 2
  /\ inHttp = IF ~inCfg.safe /\ i > 3 THEN Expected("secure") ELSE "off"
  /\ ~inCfg.safe /\ i > 4 => "mdns" \in inSvc
  /\ "sntp" \notin inSvc /\ "mqtt" \notin inSvc
Serves ==
  /\ inFlag = "none" => ServesNothing
  /\ inFlag = "sta" => ServesStation(9)
  /\ inFlag = "ap" => ServesAp(6)
Stopped(i) ==
  /\ i > 1 => "monitor" \notin inSvc
  /\ i > 2 => "mqtt" \notin inSvc
  /\ i > 3 => inHttp = "off"
  /\ i > 4 => "sntp" \notin inSvc
  /\ i > 5 => "ota" \notin inSvc
  /\ i > 6 => inFlag = "none"

(* The adapter is up, in one of the two modes.                               *)
Attached == inUp /\ inCallback /\ inHandlers /\ inMode \in {"sta", "ap"}

(* Between two lists of calls, or before a single one.                       *)
CommandOps ==
  {<<"http", "plain">>, <<"http", "secure">>, <<"stop_http">>}
  \cup {<<"start", s>> : s \in {"sntp", "ota", "monitor"}}
  \cup {<<"stop", s>> : s \in {"sntp", "ota", "monitor"}}
Steady ==
  /\ Attached
  /\ inFlag \in {"none", inMode}
  /\ inReady /\ inBits = {} => inFlag = inMode
  /\ inManual \/ Serves
InRest == Steady /\ Doing("supervisor", <<>>)
InSingle ==
  /\ Steady
  /\ \/ inFlag = "sta" /\ ~inCfg.safe /\ Doing("supervisor", << <<"mqtt">> >>)
     \/ inManual /\ \E op \in CommandOps : Doing("supervisor", <<op>>)

(* At the i-th of the calls that start the services of a mode,               *)
StationAt(i) ==
  /\ Doing("supervisor", From(StationServices, i))
  /\ Attached /\ inMode = "sta" /\ inFlag = "none"
  /\ inManual \/ ServesStation(i)
ApAt(i) ==
  /\ Doing("supervisor", From(ApServices, i))
  /\ Attached /\ inMode = "ap" /\ inFlag = "none"
  /\ inManual \/ ServesAp(i)

(* of those that change the mode,                                            *)
ChangeAt(t, m, i) ==
  /\ Doing(t, From(StopThen(m), i))
  /\ Attached /\ Stopped(i)

(* of a shutdown and a start of the adapter; and while it is off.            *)
ShutdownAt(i) ==
  /\ Doing("supervisor", From(StopAdapter, i))
  /\ inUp /\ Stopped(i - 1)
  /\ i > 10 => inMode = "none" /\ ~inReady
Detached == ~inUp /\ ServesNothing /\ inFlag = "none"
StartAt(i) ==
  /\ Doing("supervisor", From(StartAdapter, i))
  /\ Detached
  /\ inMode = CASE i = 1 -> "none" [] i = 5 -> "sta" [] OTHER -> "idle"
  /\ i > 2 => inCallback
  /\ i > 3 => inHandlers
  /\ inReady => i = 5 /\ inBits # {}
InOff == Detached /\ inMode = "none" /\ ~inReady /\ Doing("supervisor", <<>>)

InStage ==
  \/ InRest \/ InSingle \/ InOff
  \/ \E i \in 1..Len(StationServices) : StationAt(i)
  \/ \E i \in 1..Len(ApServices) : ApAt(i)
  \/ \E t \in InetTask, m \in {"sta", "ap"}, i \in 1..7 : ChangeAt(t, m, i)
  \/ \E i \in 1..11 : ShutdownAt(i)
  \/ \E i \in 1..5 : StartAt(i)

(* Even while the services are disturbed only the supervisor starts any: its *)
(* calls are such starts and commands, or one of the lists that follow a     *)
(* command, and the timeout's calls are what is left of its own list.        *)
ServiceOps ==
  CommandOps \cup {<<"start", "mdns">>, <<"mqtt">>, <<"broker">>, <<"flag", "sta">>, <<"flag", "ap">>}
Steered ==
  LET calls == inTodo["supervisor"] IN
  \/ calls \in Seq(ServiceOps) /\ (inUp => Attached)
  \/ \E m \in {"sta", "ap"}, i \in 1..7 : calls = From(StopThen(m), i) /\ Attached /\ Stopped(i)
  \/ \E i \in 1..11 : calls = From(StopAdapter, i) /\ inUp /\ Stopped(i - 1)
  \/ \E i \in 1..5 :
       /\ calls = From(StartAdapter, i) /\ ~inUp
       /\ i > 2 => inCallback
       /\ i > 3 => inHandlers
       /\ i > 4 => inMode \in {"sta", "ap"}
TimesOut == \E i \in 1..8 : inTodo["timeout"] = From(StopThen("sta"), i)
OfTasks == inTodo = [u \in InetTask |-> inTodo[u]]
Shape == OfTasks /\ Steered /\ TimesOut

InetInv == inCfg \in InetConfig /\ (~inRestart => Shape /\ (~inStale => InStage))

-----------------------------------------------------------------------------
(* What Do does once it has the operation op.                                *)
Effect(op) ==
  /\ ~Refused(op)
  /\ op # <<"flag", "none">> /\ inManual => inManual'
  /\ \/ OnServices(op) /\ UNCHANGED <<inSetup, inWifi>>
     \/ OnSetup(op) /\ UNCHANGED <<inCfg, inRestart, inServices, inWifi>>
     \/ OnWifi(op) /\ UNCHANGED <<inSetup, inServices, inBits>>

(* Only the task that has something left to do can do it.                    *)
LEMMA DoNext ==
  ASSUME NEW t \in InetTask, NEW u \in InetTask, NEW list, Doing(t, list), Do(u)
  PROVE  /\ list # <<>> /\ inTodo' = Lists(t, Tail(list)) /\ Effect(Head(list))
         /\ UNCHANGED <<inCfg, inRestart>>
<1>1. u = t /\ inTodo[u] = list
  BY DEF Do, Doing, Lists
<1>2. Effect(Head(list)) /\ list # <<>>
  BY <1>1 DEF Do, Effect, Settles
<1>3. inTodo' = [inTodo EXCEPT ![t] = Tail(list)]
  BY <1>1 DEF Do
<1>4. inTodo' = Lists(t, Tail(list))
  BY <1>3 DEF Doing, Lists
<1>5. UNCHANGED <<inCfg, inRestart>>
  BY <1>2 DEF Effect, inSetup
<1> QED BY <1>2, <1>4, <1>5

(* What is done is the i-th of the calls.                                   *)
LEMMA DoAt ==
  ASSUME NEW t \in InetTask, NEW u \in InetTask,
         NEW calls \in Seq(InetOps), NEW i \in 1..Len(calls),
         Doing(t, From(calls, i)), Do(u)
  PROVE  /\ inTodo' = Lists(t, From(calls, i + 1)) /\ Effect(calls[i])
         /\ UNCHANGED <<inCfg, inRestart>>
<1>1. From(calls, i) # <<>> /\ Head(From(calls, i)) = calls[i]
      /\ Tail(From(calls, i)) = From(calls, i + 1)
  BY FromTheNext
<1> QED BY <1>1, DoNext

(* What each kind of operation changes, and leaves alone.                   *)
LEMMA EffectStart ==
  ASSUME NEW s, Effect(<<"start", s>>)
  PROVE  /\ inSvc' = inSvc \cup {s} /\ (inManual => inManual')
         /\ UNCHANGED <<inCfg, inUp, inHandlers, inCallback, inMode, inReady, inBits, inHttp,
                        inFlag>>
  BY DEF Effect, OnServices, OnSetup, OnWifi, inSetup, inWifi, inServices

(* A service is stopped,                                                    *)
LEMMA EffectStop ==
  ASSUME NEW s, Effect(<<"stop", s>>)
  PROVE  /\ inSvc' = inSvc \ {s} /\ (inManual => inManual')
         /\ UNCHANGED <<inCfg, inUp, inHandlers, inCallback, inMode, inReady, inBits, inHttp,
                        inFlag>>
  BY DEF Effect, OnServices, OnSetup, OnWifi, inSetup, inWifi, inServices

(* OTA unless a restart is pending,                                         *)
LEMMA EffectStopOta ==
  ASSUME Effect(<<"stop_ota">>), ~inRestart
  PROVE  /\ inSvc' = inSvc \ {"ota"} /\ (inManual => inManual')
         /\ UNCHANGED <<inCfg, inUp, inHandlers, inCallback, inMode, inReady, inBits, inHttp,
                        inFlag>>
  BY DEF Effect, OnServices, OnSetup, OnWifi, inSetup, inWifi, inServices, OtaStops

(* the HTTP server is stopped,                                              *)
LEMMA EffectStopHttp ==
  ASSUME Effect(<<"stop_http">>)
  PROVE  /\ inHttp' = "off" /\ (inManual => inManual')
         /\ UNCHANGED <<inCfg, inUp, inHandlers, inCallback, inMode, inReady, inBits, inSvc,
                        inFlag>>
  BY DEF Effect, OnServices, OnSetup, OnWifi, inSetup, inWifi, inServices

(* or started, if there is none,                                            *)
LEMMA EffectHttp ==
  ASSUME NEW kind, Effect(<<"http", kind>>)
  PROVE  /\ inHttp' = IF inHttp # "off" THEN inHttp
                      ELSE IF kind = "secure" /\ ~inCfg.certs THEN inHttp ELSE kind
         /\ (inManual => inManual')
         /\ UNCHANGED <<inCfg, inUp, inHandlers, inCallback, inMode, inReady, inBits, inSvc,
                        inFlag>>
  BY DEF Effect, OnServices, OnSetup, OnWifi, inSetup, inWifi, inServices, HttpStarts

(* the MQTT client only with a broker,                                      *)
LEMMA EffectMqtt ==
  ASSUME Effect(<<"mqtt">>)
  PROVE  /\ inSvc' \in {inSvc, inSvc \cup {"mqtt"}} /\ (inManual => inManual')
         /\ UNCHANGED <<inCfg, inUp, inHandlers, inCallback, inMode, inReady, inBits, inHttp,
                        inFlag>>
  BY DEF Effect, OnServices, OnSetup, OnWifi, inSetup, inWifi, inServices, MqttStarts

(* which is configured;                                                     *)
LEMMA EffectBroker ==
  ASSUME Effect(<<"broker">>)
  PROVE  /\ inSvc' = inSvc /\ (inManual => inManual')
         /\ UNCHANGED <<inCfg, inUp, inHandlers, inCallback, inMode, inReady, inBits, inHttp,
                        inFlag>>
  BY DEF Effect, OnServices, OnSetup, OnWifi, inSetup, inWifi, inServices

(* the flag of a mode is set or reset,                                      *)
LEMMA EffectFlag ==
  ASSUME NEW f, Effect(<<"flag", f>>)
  PROVE  /\ inFlag' = f /\ (f # "none" => (inManual => inManual'))
         /\ UNCHANGED <<inCfg, inUp, inHandlers, inCallback, inMode, inReady, inBits, inHttp,
                        inSvc>>
  BY DEF Effect, OnServices, OnSetup, OnWifi, inSetup, inWifi, inServices

(* the driver configured,                                                   *)
LEMMA EffectConfigure ==
  ASSUME Effect(<<"configure">>)
  PROVE  /\ inMode' = IF inMode = "none" THEN "idle" ELSE inMode
         /\ UNCHANGED <<inCfg, inUp, inHandlers, inCallback, inReady, inBits, inHttp, inSvc,
                        inFlag>>
  BY DEF Effect, OnServices, OnSetup, OnWifi, inSetup, inWifi, inServices

(* the mode changed,                                                        *)
LEMMA EffectWifi ==
  ASSUME NEW m, Effect(<<"wifi", m>>)
  PROVE  /\ inMode' = m /\ inReady' = FALSE
         /\ UNCHANGED <<inCfg, inUp, inHandlers, inCallback, inBits, inHttp, inSvc, inFlag>>
  BY DEF Effect, OnServices, OnSetup, OnWifi, inSetup, inWifi, inServices

(* and the adapter attached or detached.                                    *)
LEMMA EffectSetup ==
  ASSUME NEW k \in {"handlers", "callback", "up"}, NEW b, Effect(<<k, b>>)
  PROVE  /\ inHandlers' = IF k = "handlers" THEN b ELSE inHandlers
         /\ inCallback' = IF k = "callback" THEN b ELSE inCallback
         /\ inUp' = IF k = "up" THEN b ELSE inUp
         /\ UNCHANGED <<inCfg, inMode, inReady, inBits, inHttp, inSvc, inFlag>>
  BY DEF Effect, OnServices, OnSetup, OnWifi, inSetup, inWifi, inServices

-----------------------------------------------------------------------------
(* The services of a station are started one by one,                         *)
LEMMA StationGoesOn ==
  ASSUME inCfg \in InetConfig, NEW i \in 1..Len(StationServices), StationAt(i),
         NEW u \in InetTask, Do(u)
  PROVE  InStage'
<1> DEFINE calls == StationServices
           n == Len(StationServices)
<1>1. /\ inTodo' = Lists("supervisor", From(calls, i + 1)) /\ Effect(calls[i])
      /\ UNCHANGED <<inCfg, inRestart>>
  BY DoAt, StationList DEF StationAt, InetTask
<1>2. StationServices' = StationServices
  BY <1>1 DEF StationServices, ConfiguredHttp
<1>3. n = (IF inCfg.safe THEN 3 ELSE 8) /\ i \in 1..8 /\ n \in Nat
  <2>1. n = IF inCfg.safe THEN 3 ELSE 8
    BY StationList, Zenon
  <2>2. i \in 1..n
    OBVIOUS
  <2> HIDE DEF n
  <2> QED BY <2>1, <2>2
<1>4. Attached /\ inMode = "sta" /\ inFlag = "none" /\ (inManual \/ ServesStation(i))
  BY DEF StationAt
<1> DEFINE Kept == /\ inUp' = inUp /\ inCallback' = inCallback /\ inHandlers' = inHandlers
                   /\ inMode' = inMode /\ (inManual => inManual')
           Next(k) == Kept /\ inFlag' = "none" /\ (inManual' \/ ServesStation(k)')
<1>5. ASSUME i = 1 PROVE Next(2)
  <2>1. calls[i] = <<"start", "ota">>
    BY <1>5, StationList
  <2> QED BY <1>1, <1>4, <1>5, <2>1, EffectStart DEF ServesStation, ConfiguredHttp, Expected
<1>6. ASSUME i = 2 PROVE Next(3)
  <2>1. calls[i] = <<"start", "monitor">>
    BY <1>6, StationList
  <2> QED BY <1>1, <1>4, <1>6, <2>1, EffectStart DEF ServesStation, ConfiguredHttp, Expected
<1>7. ASSUME i = 3, ~inCfg.safe PROVE Next(4)
  <2>1. calls[i] = <<"start", "mdns">>
    BY <1>7, StationList
  <2> QED BY <1>1, <1>4, <1>7, <2>1, EffectStart DEF ServesStation, ConfiguredHttp, Expected
<1>8. ASSUME i = 4, ~inCfg.safe PROVE Next(5)
  <2>1. calls[i] = <<"start", "sntp">>
    BY <1>8, StationList
  <2> QED BY <1>1, <1>4, <1>8, <2>1, EffectStart DEF ServesStation, ConfiguredHttp, Expected
<1>9. ASSUME i = 5, ~inCfg.safe PROVE Next(6)
  <2>1. calls[i] = <<"broker">>
    BY <1>9, StationList
  <2> QED BY <1>1, <1>4, <1>9, <2>1, EffectBroker DEF ServesStation, ConfiguredHttp, Expected
<1>10. ASSUME i = 6, ~inCfg.safe PROVE Next(7)
  <2>1. calls[i] = <<"mqtt">>
    BY <1>10, StationList
  <2> QED BY <1>1, <1>4, <1>10, <2>1, EffectMqtt DEF ServesStation, ConfiguredHttp, Expected
<1>11. ASSUME i = 7, ~inCfg.safe PROVE Next(8)
  <2>1. calls[i] = <<"http", ConfiguredHttp>>
    BY <1>11, StationList
  <2> QED BY <1>1, <1>4, <1>11, <2>1, EffectHttp DEF ServesStation, ConfiguredHttp, Expected
<1>12. ASSUME i = n PROVE Kept /\ inFlag' = "sta" /\ (inManual' \/ ServesStation(9)')
  <2>1. calls[i] = <<"flag", "sta">>
    BY <1>12, StationList
  <2>2. Kept /\ inFlag' = "sta" /\ inSvc' = inSvc /\ inHttp' = inHttp /\ inCfg' = inCfg
    BY <1>1, <2>1, EffectFlag
  <2>3. ServesStation(i) => ServesStation(9)
    BY <1>3, <1>12 DEF ServesStation
  <2>4. ServesStation(9) => ServesStation(9)'
    BY <2>2 DEF ServesStation, ConfiguredHttp, Expected
  <2> QED BY <1>4, <2>2, <2>3, <2>4
<1>13. CASE i # n
  <2>1. Next(i + 1)
    BY <1>3, <1>5, <1>6, <1>7, <1>8, <1>9, <1>10, <1>11, <1>13
  <2> HIDE DEF n
  <2>2. i + 1 \in 1..n /\ n = Len(StationServices)'
    BY <1>2, <1>3, <1>13 DEF n
  <2>3. StationAt(i + 1)'
    BY <1>1, <1>2, <1>4, <2>1 DEF StationAt, Doing, Attached
  <2> QED BY <2>2, <2>3 DEF InStage
<1>14. CASE i = n
  <2>1. From(calls, i + 1) = <<>>
    BY <1>14, FromTheEnds, StationList
  <2>2. InRest'
    BY <1>1, <1>4, <1>12, <1>14, <2>1 DEF InRest, Steady, Attached, Doing, Serves
  <2> QED BY <2>2 DEF InStage
<1> QED BY <1>13, <1>14

(* so are those of an access point,                                          *)
LEMMA ApGoesOn ==
  ASSUME inCfg \in InetConfig, NEW i \in 1..Len(ApServices), ApAt(i),
         NEW u \in InetTask, Do(u)
  PROVE  InStage'
<1> DEFINE calls == ApServices
           n == Len(ApServices)
<1>1. /\ inTodo' = Lists("supervisor", From(calls, i + 1)) /\ Effect(calls[i])
      /\ UNCHANGED <<inCfg, inRestart>>
  BY DoAt, ApList DEF ApAt, InetTask
<1>2. ApServices' = ApServices
  BY <1>1 DEF ApServices
<1>3. n = (IF inCfg.safe THEN 3 ELSE 5) /\ i \in 1..5 /\ n \in Nat
  <2>1. n = IF inCfg.safe THEN 3 ELSE 5
    BY ApList, Zenon
  <2>2. i \in 1..n
    OBVIOUS
  <2> HIDE DEF n
  <2> QED BY <2>1, <2>2
<1>4. Attached /\ inMode = "ap" /\ inFlag = "none" /\ (inManual \/ ServesAp(i))
  BY DEF ApAt
<1> DEFINE Kept == /\ inUp' = inUp /\ inCallback' = inCallback /\ inHandlers' = inHandlers
                   /\ inMode' = inMode /\ (inManual => inManual')
           Next(k) == Kept /\ inFlag' = "none" /\ (inManual' \/ ServesAp(k)')
<1>5. ASSUME i = 1 PROVE Next(2)
  <2>1. calls[i] = <<"start", "ota">>
    BY <1>5, ApList
  <2> QED BY <1>1, <1>4, <1>5, <2>1, EffectStart DEF ServesAp, Expected
<1>6. ASSUME i = 2 PROVE Next(3)
  <2>1. calls[i] = <<"start", "monitor">>
    BY <1>6, ApList
  <2> QED BY <1>1, <1>4, <1>6, <2>1, EffectStart DEF ServesAp, Expected
<1>7. ASSUME i = 3, ~inCfg.safe PROVE Next(4)
  <2>1. calls[i] = <<"http", "secure">>
    BY <1>7, ApList
  <2> QED BY <1>1, <1>4, <1>7, <2>1, EffectHttp DEF ServesAp, Expected
<1>8. ASSUME i = 4, ~inCfg.safe PROVE Next(5)
  <2>1. calls[i] = <<"start", "mdns">>
    BY <1>8, ApList
  <2> QED BY <1>1, <1>4, <1>8, <2>1, EffectStart DEF ServesAp, Expected
<1>12. ASSUME i = n PROVE Kept /\ inFlag' = "ap" /\ (inManual' \/ ServesAp(6)')
  <2>1. calls[i] = <<"flag", "ap">>
    BY <1>12, ApList
  <2>2. Kept /\ inFlag' = "ap" /\ inSvc' = inSvc /\ inHttp' = inHttp /\ inCfg' = inCfg
    BY <1>1, <2>1, EffectFlag
  <2>3. ServesAp(i) => ServesAp(6)
    BY <1>3, <1>12 DEF ServesAp
  <2>4. ServesAp(6) => ServesAp(6)'
    BY <2>2 DEF ServesAp, Expected
  <2> QED BY <1>4, <2>2, <2>3, <2>4
<1>13. CASE i # n
  <2>1. Next(i + 1)
    BY <1>3, <1>5, <1>6, <1>7, <1>8, <1>13
  <2> HIDE DEF n
  <2>2. i + 1 \in 1..n /\ n = Len(ApServices)'
    BY <1>2, <1>3, <1>13 DEF n
  <2>3. ApAt(i + 1)'
    BY <1>1, <1>2, <1>4, <2>1 DEF ApAt, Doing, Attached
  <2> QED BY <2>2, <2>3 DEF InStage
<1>14. CASE i = n
  <2>1. From(calls, i + 1) = <<>>
    BY <1>14, FromTheEnds, ApList
  <2>2. InRest'
    BY <1>1, <1>4, <1>12, <1>14, <2>1 DEF InRest, Steady, Attached, Doing, Serves
  <2> QED BY <2>2 DEF InStage
<1> QED BY <1>13, <1>14

(* A service that was stopped stays so until the last of them is.            *)
LEMMA StopsOne ==
  ASSUME NEW i \in 1..6, Effect(StopServices[i]), Stopped(i), ~inRestart
  PROVE  /\ Stopped(i + 1)'
         /\ UNCHANGED <<inUp, inHandlers, inCallback, inMode, inReady, inBits>>
<1> USE DEF Stopped
<1>1. CASE i = 1
  <2>1. Effect(<<"stop", "monitor">>)
    BY <1>1, StopServicesList
  <2> QED BY <1>1, <2>1, EffectStop
<1>2. CASE i = 2
  <2>1. Effect(<<"stop", "mqtt">>)
    BY <1>2, StopServicesList
  <2> QED BY <1>2, <2>1, EffectStop
<1>3. CASE i = 3
  <2>1. Effect(<<"stop_http">>)
    BY <1>3, StopServicesList
  <2> QED BY <1>3, <2>1, EffectStopHttp
<1>4. CASE i = 4
  <2>1. Effect(<<"stop", "sntp">>)
    BY <1>4, StopServicesList
  <2> QED BY <1>4, <2>1, EffectStop
<1>5. CASE i = 5
  <2>1. Effect(<<"stop_ota">>)
    BY <1>5, StopServicesList
  <2> QED BY <1>5, <2>1, EffectStopOta
<1>6. CASE i = 6
  <2>1. Effect(<<"flag", "none">>)
    BY <1>6, StopServicesList
  <2> QED BY <1>6, <2>1, EffectFlag
<1> QED BY <1>1, <1>2, <1>3, <1>4, <1>5, <1>6

(* and a change of the mode begins with nothing running.                     *)
LEMMA ChangeGoesOn ==
  ASSUME ~inRestart, NEW t \in InetTask, NEW m \in {"sta", "ap"}, NEW i \in 1..7, ChangeAt(t, m, i),
         NEW u \in InetTask, Do(u)
  PROVE  InStage'
<1> DEFINE calls == StopThen(m)
<1>0. calls \in Seq(InetOps) /\ Len(calls) = 7 /\ calls[7] = <<"wifi", m>>
      /\ \A k \in 1..6 : calls[k] = StopServices[k]
  BY StopThenList
<1>1. /\ inTodo' = Lists(t, From(calls, i + 1)) /\ Effect(calls[i])
      /\ UNCHANGED <<inCfg, inRestart>>
  <2>1. i \in 1..Len(calls) /\ Doing(t, From(calls, i))
    BY <1>0 DEF ChangeAt
  <2> QED BY <1>0, <2>1, DoAt
<1>2. Attached /\ Stopped(i)
  BY DEF ChangeAt
<1>3. CASE i \in 1..6
  <2>1. Effect(StopServices[i])
    BY <1>0, <1>1, <1>3
  <2>2. Stopped(i + 1)' /\ Attached'
    BY <1>2, <1>3, <2>1, StopsOne DEF Attached
  <2>3. i + 1 \in 1..7 /\ ChangeAt(t, m, i + 1)'
    BY <1>1, <1>3, <2>2 DEF ChangeAt, Doing
  <2> QED BY <2>3 DEF InStage
<1>4. CASE i = 7
  <2>1. Effect(<<"wifi", m>>) /\ From(calls, i + 1) = <<>>
    BY <1>0, <1>1, <1>4, FromTheEnds
  <2>2. /\ inMode' = m /\ inReady' = FALSE
        /\ UNCHANGED <<inUp, inHandlers, inCallback, inHttp, inSvc, inFlag>>
    BY <2>1, EffectWifi
  <2>3. ServesNothing' /\ inFlag' = "none"
    BY <1>2, <1>4, <2>2 DEF Stopped, ServesNothing
  <2>4. inTodo' = Lists("supervisor", <<>>)
    BY <1>1, <2>1 DEF Lists
  <2>5. InRest'
    BY <1>2, <2>2, <2>3, <2>4 DEF InRest, Steady, Serves, Attached, Doing
  <2> QED BY <2>5 DEF InStage
<1> QED BY <1>3, <1>4

(* The adapter goes off                                                      *)
LEMMA ShutdownGoesOn ==
  ASSUME ~inRestart, NEW i \in 1..11, ShutdownAt(i), NEW u \in InetTask, Do(u)
  PROVE  InStage'
<1> DEFINE calls == StopAdapter
<1>1. /\ inTodo' = Lists("supervisor", From(calls, i + 1)) /\ Effect(calls[i])
      /\ UNCHANGED <<inCfg, inRestart>>
  <2>1. i \in 1..Len(calls) /\ Doing("supervisor", From(calls, i)) /\ calls \in Seq(InetOps)
    BY StopAdapterList, Zenon DEF ShutdownAt
  <2> QED BY <2>1, DoAt DEF InetTask
<1>2. inUp /\ Stopped(i - 1) /\ (i > 10 => inMode = "none" /\ ~inReady)
  BY DEF ShutdownAt
<1>3. CASE i = 1
  <2>1. Effect(<<"handlers", FALSE>>)
    BY <1>1, <1>3, StopAdapterList, Zenon
  <2>2. inUp' = inUp
    BY <2>1, EffectSetup
  <2>3. ShutdownAt(2)'
    BY <1>1, <1>2, <1>3, <2>2 DEF ShutdownAt, Stopped, Doing
  <2> QED BY <2>3 DEF InStage
<1>4. CASE i \in 2..7
  <2>1. i - 1 \in 1..6 /\ 1 + (i - 1) = i
    BY <1>4
  <2>2. Effect(StopServices[i - 1])
    <3>1. calls[1 + (i - 1)] = StopServices[i - 1]
      BY <2>1, StopAdapterList, Zenon
    <3> QED BY <1>1, <2>1, <3>1
  <2>3. Stopped((i - 1) + 1)' /\ inUp'
    BY <1>2, <2>1, <2>2, StopsOne
  <2>4. i + 1 \in 1..11 /\ ShutdownAt(i + 1)'
    BY <1>1, <1>4, <2>1, <2>3 DEF ShutdownAt, Doing
  <2> QED BY <2>4 DEF InStage
<1>5. CASE i = 8
  <2>1. Effect(<<"stop", "mdns">>)
    BY <1>1, <1>5, StopAdapterList, Zenon
  <2>2. inSvc' = inSvc \ {"mdns"} /\ UNCHANGED <<inUp, inMode, inReady, inHttp, inFlag>>
    BY <2>1, EffectStop
  <2>3. ShutdownAt(9)'
    BY <1>1, <1>2, <1>5, <2>2 DEF ShutdownAt, Stopped, Doing
  <2> QED BY <2>3 DEF InStage
<1>6. CASE i = 9
  <2>1. Effect(<<"callback", FALSE>>)
    BY <1>1, <1>6, StopAdapterList, Zenon
  <2>2. UNCHANGED <<inUp, inMode, inReady, inHttp, inSvc, inFlag>>
    BY <2>1, EffectSetup
  <2>3. ShutdownAt(10)'
    BY <1>1, <1>2, <1>6, <2>2 DEF ShutdownAt, Stopped, Doing
  <2> QED BY <2>3 DEF InStage
<1>7. CASE i = 10
  <2>1. Effect(<<"wifi", "none">>)
    BY <1>1, <1>7, StopAdapterList, Zenon
  <2>2. inMode' = "none" /\ inReady' = FALSE /\ UNCHANGED <<inUp, inSvc, inHttp, inFlag>>
    BY <2>1, EffectWifi
  <2>3. ShutdownAt(11)'
    BY <1>1, <1>2, <1>7, <2>2 DEF ShutdownAt, Stopped, Doing
  <2> QED BY <2>3 DEF InStage
<1>8. CASE i = 11
  <2>1. Effect(<<"up", FALSE>>)
    BY <1>1, <1>8, StopAdapterList, Zenon
  <2>2. inUp' = FALSE /\ UNCHANGED <<inMode, inReady, inHttp, inSvc, inFlag>>
    BY <2>1, EffectSetup
  <2>3. From(calls, i + 1) = <<>>
    <3>1. calls \in Seq(InetOps) /\ Len(calls) = 11
      BY StopAdapterList, Zenon
    <3> QED BY <1>8, <3>1, FromTheEnds
  <2>4. InOff'
    BY <1>1, <1>2, <1>8, <2>2, <2>3 DEF InOff, Detached, ServesNothing, Stopped, Doing
  <2> QED BY <2>4 DEF InStage
<1> QED BY <1>3, <1>4, <1>5, <1>6, <1>7, <1>8

(* and on again.                                                             *)
LEMMA StartGoesOn ==
  ASSUME NEW i \in 1..5, StartAt(i), NEW u \in InetTask, Do(u)
  PROVE  InStage'
<1> DEFINE calls == StartAdapter
<1>1. /\ inTodo' = Lists("supervisor", From(calls, i + 1)) /\ Effect(calls[i])
      /\ UNCHANGED <<inCfg, inRestart>>
  <2>1. i \in 1..Len(calls) /\ Doing("supervisor", From(calls, i)) /\ calls \in Seq(InetOps)
    BY StartAdapterList, Zenon DEF StartAt
  <2> QED BY <2>1, DoAt DEF InetTask
<1>2. /\ Detached /\ (i > 2 => inCallback) /\ (i > 3 => inHandlers)
      /\ inReady => i = 5 /\ inBits # {}
      /\ inMode = CASE i = 1 -> "none" [] i = 5 -> "sta" [] OTHER -> "idle"
  BY DEF StartAt
<1>3. CASE i = 1
  <2>1. Effect(<<"configure">>)
    BY <1>1, <1>3, StartAdapterList, Zenon
  <2>2. StartAt(2)'
    BY <1>1, <1>2, <1>3, <2>1, EffectConfigure DEF StartAt, Detached, ServesNothing, Doing
  <2> QED BY <2>2 DEF InStage
<1>4. CASE i = 2
  <2>1. Effect(<<"callback", TRUE>>)
    BY <1>1, <1>4, StartAdapterList, Zenon
  <2>2. inCallback' = TRUE /\ UNCHANGED <<inUp, inMode, inReady, inHttp, inSvc, inFlag, inBits>>
    BY <2>1, EffectSetup
  <2>3. StartAt(3)'
    BY <1>1, <1>2, <1>4, <2>2 DEF StartAt, Detached, ServesNothing, Doing
  <2> QED BY <2>3 DEF InStage
<1>5. CASE i = 3
  <2>1. Effect(<<"handlers", TRUE>>)
    BY <1>1, <1>5, StartAdapterList, Zenon
  <2>2. /\ inHandlers' = TRUE /\ inCallback' = inCallback
        /\ UNCHANGED <<inUp, inMode, inReady, inHttp, inSvc, inFlag, inBits>>
    BY <2>1, EffectSetup
  <2>3. StartAt(4)'
    BY <1>1, <1>2, <1>5, <2>2 DEF StartAt, Detached, ServesNothing, Doing
  <2> QED BY <2>3 DEF InStage
<1>6. CASE i = 4
  <2>1. Effect(<<"wifi", "sta">>)
    BY <1>1, <1>6, StartAdapterList, Zenon
  <2>2. /\ inMode' = "sta" /\ inReady' = FALSE
        /\ UNCHANGED <<inUp, inHandlers, inCallback, inBits, inSvc, inHttp, inFlag>>
    BY <2>1, EffectWifi
  <2>3. StartAt(5)'
    BY <1>1, <1>2, <1>6, <2>2 DEF StartAt, Detached, ServesNothing, Doing
  <2> QED BY <2>3 DEF InStage
<1>7. CASE i = 5
  <2>1. Effect(<<"up", TRUE>>)
    BY <1>1, <1>7, StartAdapterList, Zenon
  <2>2. /\ inUp' = TRUE /\ inCallback' = inCallback /\ inHandlers' = inHandlers
        /\ UNCHANGED <<inMode, inReady, inHttp, inSvc, inFlag, inBits>>
    BY <2>1, EffectSetup
  <2>3. From(calls, i + 1) = <<>>
    <3>1. calls \in Seq(InetOps) /\ Len(calls) = 5
      BY StartAdapterList, Zenon
    <3> QED BY <1>7, <3>1, FromTheEnds
  <2>4. ServesNothing' /\ inFlag' = "none"
    BY <1>2, <2>2 DEF Detached, ServesNothing
  <2>5. InRest'
    BY <1>1, <1>2, <1>7, <2>2, <2>3, <2>4 DEF InRest, Steady, Serves, Attached, Doing
  <2> QED BY <2>5 DEF InStage
<1> QED BY <1>3, <1>4, <1>5, <1>6, <1>7

(* A single call is of a command, or starts MQTT where it belongs.           *)
LEMMA SingleGoesOn ==
  ASSUME InSingle, NEW u \in InetTask, Do(u)
  PROVE  InStage'
<1>1. Steady
  BY DEF InSingle
<1>2. CASE inFlag = "sta" /\ ~inCfg.safe /\ Doing("supervisor", << <<"mqtt">> >>)
  <2>1. Head(<< <<"mqtt">> >>) = <<"mqtt">> /\ Tail(<< <<"mqtt">> >>) = <<>>
    OBVIOUS
  <2>2. inTodo' = Lists("supervisor", <<>>) /\ Effect(<<"mqtt">>)
    BY <1>2, <2>1, DoNext DEF InetTask
  <2>3. InRest'
    BY <1>1, <1>2, <2>2, EffectMqtt
    DEF InRest, Steady, Serves, ServesStation, ConfiguredHttp, Expected, Attached, Doing
  <2> QED BY <2>3 DEF InStage
<1>3. CASE inManual /\ \E op \in CommandOps : Doing("supervisor", <<op>>)
  <2>1. PICK op \in CommandOps : Doing("supervisor", <<op>>)
    BY <1>3
  <2>2. Head(<<op>>) = op /\ Tail(<<op>>) = <<>>
    OBVIOUS
  <2>3. inTodo' = Lists("supervisor", <<>>) /\ Effect(op)
    BY <2>1, <2>2, DoNext DEF InetTask
  <2>4. /\ inManual => inManual'
        /\ UNCHANGED <<inUp, inHandlers, inCallback, inMode, inReady, inBits, inFlag>>
    BY <2>3, EffectHttp, EffectStopHttp, EffectStart, EffectStop DEF CommandOps
  <2>5. InRest'
    BY <1>1, <1>3, <2>3, <2>4 DEF InRest, Steady, Attached, Doing
  <2> QED BY <2>5 DEF InStage
<1> QED BY <1>2, <1>3 DEF InSingle

-----------------------------------------------------------------------------
(* A list with something left is not empty.                                  *)
LEMMA SomethingLeft ==
  ASSUME inCfg \in InetConfig
  PROVE  /\ \A i \in 1..Len(StationServices) : From(StationServices, i) # <<>>
         /\ \A i \in 1..Len(ApServices) : From(ApServices, i) # <<>>
         /\ \A m \in {"sta", "ap"}, i \in 1..7 : From(StopThen(m), i) # <<>>
         /\ \A i \in 1..11 : From(StopAdapter, i) # <<>>
         /\ \A i \in 1..5 : From(StartAdapter, i) # <<>>
<1>1. \A i \in 1..Len(StationServices) : From(StationServices, i) # <<>>
  BY StationList, FromTheNext
<1>2. \A i \in 1..Len(ApServices) : From(ApServices, i) # <<>>
  BY ApList, FromTheNext
<1>3. ASSUME NEW m \in {"sta", "ap"}, NEW i \in 1..7 PROVE From(StopThen(m), i) # <<>>
  <2>1. StopThen(m) \in Seq(InetOps) /\ Len(StopThen(m)) = 7
    BY StopThenList, Zenon
  <2> QED BY <2>1, FromTheNext
<1>4. ASSUME NEW i \in 1..11 PROVE From(StopAdapter, i) # <<>>
  <2>1. StopAdapter \in Seq(InetOps) /\ Len(StopAdapter) = 11
    BY StopAdapterList, Zenon
  <2> QED BY <2>1, FromTheNext
<1>5. ASSUME NEW i \in 1..5 PROVE From(StartAdapter, i) # <<>>
  <2>1. StartAdapter \in Seq(InetOps) /\ Len(StartAdapter) = 5
    BY StartAdapterList, Zenon
  <2> QED BY <2>1, FromTheNext
<1> QED BY <1>1, <1>2, <1>3, <1>4, <1>5

(* Who works, and that nobody does, is seen from outside.                    *)
LEMMA WhoWorks ==
  ASSUME inCfg \in InetConfig, InStage
  PROVE  \/ InRest
         \/ InOff
         \/ ~Free
         \/ Overlaps("supervisor")
<1> USE DEF Doing, Lists, Free, Overlaps, InetTask
<1>1. CASE InSingle
  BY <1>1 DEF InSingle
<1>2. ASSUME NEW i \in 1..Len(StationServices), StationAt(i) PROVE ~Free
  BY <1>2, SomethingLeft DEF StationAt
<1>3. ASSUME NEW i \in 1..Len(ApServices), ApAt(i) PROVE ~Free
  BY <1>3, SomethingLeft DEF ApAt
<1>4. ASSUME NEW t \in InetTask, NEW m \in {"sta", "ap"}, NEW i \in 1..7, ChangeAt(t, m, i)
      PROVE  ~Free \/ Overlaps("supervisor")
  BY <1>4, SomethingLeft DEF ChangeAt
<1>5. ASSUME NEW i \in 1..11, ShutdownAt(i) PROVE ~Free
  BY <1>5, SomethingLeft DEF ShutdownAt
<1>6. ASSUME NEW i \in 1..5, StartAt(i) PROVE ~Free
  BY <1>6, SomethingLeft DEF StartAt
<1> HIDE DEF Doing, Lists, Free, Overlaps, InetTask
<1> QED BY <1>1, <1>2, <1>3, <1>4, <1>5, <1>6 DEF InStage

(* So every operation takes the call under way to a next stage.             *)
LEMMA DoKeeps ==
  ASSUME inCfg \in InetConfig, InStage, ~inRestart, NEW u \in InetTask, Do(u)
  PROVE  InStage'
<1>1. ASSUME InRest \/ InOff PROVE FALSE
  BY <1>1 DEF InRest, InOff, Doing, Lists, Do
<1> QED
  BY <1>1, SingleGoesOn, StationGoesOn, ApGoesOn, ChangeGoesOn, ShutdownGoesOn, StartGoesOn
  DEF InStage

(* What Wi-Fi and the MQTT client do by themselves does not end a stage.     *)
LEMMA WorldKeepsStage ==
  ASSUME inCfg \in InetConfig, InStage,
         UNCHANGED <<inCfg, inUp, inHandlers, inCallback, inMode, inHttp, inFlag, inTodo>>,
         inManual => inManual',
         inSvc' = inSvc \/ inSvc' = inSvc \ {"mqtt"},
         \/ UNCHANGED <<inReady, inBits>>
         \/ inReady' = FALSE /\ UNCHANGED inBits
         \/ inMode \in {"sta", "ap"} /\ ~inReady /\ Announce
  PROVE  InStage'
<1>1. /\ StationServices' = StationServices /\ ApServices' = ApServices
      /\ StopAdapter' = StopAdapter /\ StartAdapter' = StartAdapter
  BY DEF StationServices, ConfiguredHttp, ApServices, StopAdapter, StartAdapter
<1>2. ServesNothing => ServesNothing'
  BY DEF ServesNothing
<1>3. ASSUME NEW i \in Int
      PROVE (ServesStation(i) => ServesStation(i)') /\ (ServesAp(i) => ServesAp(i)')
  BY <1>3 DEF ServesStation, ServesAp, Expected, ConfiguredHttp
<1>4. ASSUME NEW i \in Int PROVE Stopped(i) => Stopped(i)'
  BY <1>4 DEF Stopped
<1>5. Attached => Attached'
  BY DEF Attached
<1>6. Steady => Steady'
  <2>1. Serves => Serves'
    BY <1>2, <1>3 DEF Serves
  <2> QED BY <1>5, <2>1 DEF Steady, Attached, Announce
<1>7. (InRest => InRest') /\ (InSingle => InSingle')
  BY <1>6 DEF InRest, InSingle, Doing
<1>8. InOff => InOff'
  BY <1>2 DEF InOff, Detached, Doing
<1>9. ASSUME NEW i \in 1..Len(StationServices), StationAt(i) PROVE StationAt(i)'
  BY <1>1, <1>3, <1>5, <1>9 DEF StationAt, Doing
<1>10. ASSUME NEW i \in 1..Len(ApServices), ApAt(i) PROVE ApAt(i)'
  BY <1>1, <1>3, <1>5, <1>10 DEF ApAt, Doing
<1>11. ASSUME NEW t \in InetTask, NEW m \in {"sta", "ap"}, NEW i \in 1..7, ChangeAt(t, m, i)
       PROVE  ChangeAt(t, m, i)'
  BY <1>4, <1>5, <1>11 DEF ChangeAt, Doing
<1>12. ASSUME NEW i \in 1..11, ShutdownAt(i) PROVE ShutdownAt(i)'
  BY <1>1, <1>4, <1>12 DEF ShutdownAt, Doing
<1>13. ASSUME NEW i \in 1..5, StartAt(i) PROVE StartAt(i)'
  BY <1>1, <1>2, <1>13 DEF StartAt, Detached, Doing, Announce
<1> QED BY <1>1, <1>7, <1>8, <1>9, <1>10, <1>11, <1>12, <1>13 DEF InStage

(* A call of an idle supervisor is its list.                                 *)
LEMMA CallIs ==
  ASSUME NEW ops, Doing("supervisor", <<>>), Call(ops)
  PROVE  inTodo' = Lists("supervisor", ops)
  BY DEF Doing, Lists, Call, InetTask

(* A list begins with all of its calls.                                     *)
LEMMA ListsBegin ==
  ASSUME inCfg \in InetConfig
  PROVE  /\ From(StationServices, 1) = StationServices /\ 1 \in 1..Len(StationServices)
         /\ From(ApServices, 1) = ApServices /\ 1 \in 1..Len(ApServices)
         /\ From(StopAdapter, 1) = StopAdapter /\ From(StartAdapter, 1) = StartAdapter
         /\ \A m \in {"sta", "ap"} : From(StopThen(m), 1) = StopThen(m)
         /\ StationServices \o <<>> = StationServices /\ <<>> \o ApServices = ApServices
<1>1. StationServices \in Seq(InetOps) /\ ApServices \in Seq(InetOps)
  BY StationList, ApList, Zenon
<1>2. \A n : n = 3 \/ n = 5 \/ n = 8 => 1 \in 1..n
  OBVIOUS
<1>3. 1 \in 1..Len(StationServices) /\ 1 \in 1..Len(ApServices)
  <2>1. Len(StationServices) = 3 \/ Len(StationServices) = 8
    BY StationList, Zenon
  <2>2. Len(ApServices) = 3 \/ Len(ApServices) = 5
    BY ApList, Zenon
  <2> QED BY <1>2, <2>1, <2>2, Zenon
<1>4. StopAdapter \in Seq(InetOps) /\ StartAdapter \in Seq(InetOps)
  BY StopAdapterList, StartAdapterList, Zenon
<1>5. \A m \in {"sta", "ap"} : StopThen(m) \in Seq(InetOps)
  BY StopThenList
<1>6. \A calls \in Seq(InetOps) : From(calls, 1) = calls
  BY FromTheEnds
<1>7. StationServices \o <<>> = StationServices /\ <<>> \o ApServices = ApServices
  BY <1>1, ConcatEmptySeq
<1> QED BY <1>1, <1>3, <1>4, <1>5, <1>6, <1>7, Zenon

(* Readiness is answered with the services of the mode.                     *)
LEMMA TakeBitsKeepsStage ==
  ASSUME inCfg \in InetConfig, InStage, TakeBits, ~inStale'
  PROVE  InStage'
<1>1. /\ Free /\ inBits = {inMode} /\ inBits' = {} /\ Call(OnEvent(inBits))
      /\ ~Overlaps("supervisor")
      /\ UNCHANGED <<inCfg, inUp, inHandlers, inCallback, inMode, inReady, inSvc, inHttp, inFlag,
                     inManual>>
  BY DEF TakeBits, inSetup, inServices
<1>2. InRest \/ InOff
  BY <1>1, WhoWorks
<1>3. StationServices' = StationServices /\ ApServices' = ApServices
  BY <1>1 DEF StationServices, ConfiguredHttp, ApServices
<1>4. CASE InOff
  <2>1. OnEvent(inBits) = <<>>
    BY <1>1, <1>4, ConcatEmptySeq DEF InOff, OnEvent
  <2>2. InOff'
    BY <1>1, <1>4, <2>1, CallIs DEF InOff, Detached, ServesNothing, Doing
  <2> QED BY <2>2 DEF InStage
<1>5. CASE InRest
  <2>1. inTodo' = Lists("supervisor", OnEvent(inBits)) /\ Attached /\ inFlag \in {"none", inMode}
        /\ (inManual \/ Serves)
    BY <1>1, <1>5, CallIs DEF InRest, Steady, Attached
  <2>2. ASSUME inFlag = inMode PROVE Steady'
    <3>1. Serves => Serves'
      BY <1>1 DEF Serves, ServesNothing, ServesStation, ServesAp, Expected, ConfiguredHttp
    <3> QED BY <1>1, <1>5, <2>2, <3>1 DEF InRest, Steady, Attached
  <2>3. CASE inMode = "sta" /\ inFlag = "sta"
    <3>1. OnEvent(inBits) = IF inCfg.safe THEN <<>> ELSE << <<"mqtt">> >>
      BY <1>1, <2>3 DEF OnEvent
    <3>2. InRest' \/ InSingle'
      BY <1>1, <2>1, <2>2, <2>3, <3>1 DEF InRest, InSingle, Doing
    <3> QED BY <3>2 DEF InStage
  <2>4. CASE inMode = "sta" /\ inFlag = "none"
    <3>1. OnEvent(inBits) = StationServices \o <<>>
      BY <1>1, <2>4 DEF OnEvent
    <3>2. inTodo' = Lists("supervisor", From(StationServices', 1))
      BY <1>3, <2>1, <3>1, ListsBegin
    <3>3. (inManual \/ ServesStation(1))'
      BY <1>1, <2>1, <2>4 DEF Serves, ServesNothing, ServesStation
    <3>4. StationAt(1)'
      BY <1>1, <2>1, <2>4, <3>2, <3>3 DEF StationAt, Attached, Doing
    <3> QED BY <1>3, <3>4, ListsBegin DEF InStage
  <2>5. CASE inMode = "ap" /\ inFlag = "ap"
    <3>1. OnEvent(inBits) = <<>>
      BY <1>1, <2>5 DEF OnEvent
    <3>2. InRest'
      BY <1>1, <2>1, <2>2, <2>5, <3>1 DEF InRest, Doing
    <3> QED BY <3>2 DEF InStage
  <2>6. CASE inMode = "ap" /\ inFlag = "none"
    <3>1. OnEvent(inBits) = <<>> \o ApServices
      BY <1>1, <2>6 DEF OnEvent
    <3>2. inTodo' = Lists("supervisor", From(ApServices', 1))
      BY <1>3, <2>1, <3>1, ListsBegin
    <3>3. (inManual \/ ServesAp(1))'
      BY <1>1, <2>1, <2>6 DEF Serves, ServesNothing, ServesAp
    <3>4. ApAt(1)'
      BY <1>1, <2>1, <2>6, <3>2, <3>3 DEF ApAt, Attached, Doing
    <3> QED BY <1>3, <3>4, ListsBegin DEF InStage
  <2> QED BY <2>1, <2>3, <2>4, <2>5, <2>6 DEF Attached
<1> QED BY <1>2, <1>4, <1>5

(* What an interval, a command or a switch of the adapter calls for.        *)
LEMMA CallsKeepStage ==
  ASSUME inCfg \in InetConfig, InStage, ~inStale',
         Interval \/ Command \/ Adapter \/ \E mode \in {"sta", "ap"} : Switch(mode)
  PROVE  InStage'
<1>1. /\ Free /\ ~Overlaps("supervisor")
      /\ UNCHANGED <<inCfg, inUp, inHandlers, inCallback, inMode, inReady, inBits, inSvc, inHttp,
                     inFlag>>
      /\ inManual => inManual'
  <2> DEFINE Same == UNCHANGED <<inCfg, inUp, inHandlers, inCallback, inMode, inReady, inBits,
                                 inSvc, inHttp, inFlag>>
  <2> SUFFICES Free /\ ~Overlaps("supervisor") /\ Same /\ (inManual => inManual')
    OBVIOUS
  <2> HIDE DEF Same
  <2>1. CASE Interval
    <3>1. Free /\ inStale' = (inStale \/ Overlaps("supervisor"))
      BY <2>1, Zenon DEF Interval
    <3>2. Same /\ UNCHANGED inManual
      BY <2>1 DEF Interval, Same, inSetup, inServices, inWifi
    <3>3. ~Overlaps("supervisor")
      BY <3>1, Zenon
    <3>4. Free /\ Same /\ (inManual => inManual')
      BY <3>1, <3>2
    <3> QED BY <3>3, <3>4, Zenon
  <2>2. CASE Command
    <3>1. Free /\ inStale' = (inStale \/ Overlaps("supervisor")) /\ inManual'
      BY <2>2 DEF Command
    <3>2. Same
      BY <2>2 DEF Command, Same, inSetup, inServices, inWifi
    <3>3. ~Overlaps("supervisor")
      BY <3>1, Zenon
    <3> QED BY <3>1, <3>2, <3>3
  <2>3. CASE Adapter
    <3>1. Free /\ inStale' = (inStale \/ Overlaps("supervisor"))
      BY <2>3, Zenon DEF Adapter
    <3>2. Same /\ UNCHANGED inManual
      BY <2>3 DEF Adapter, Same, inSetup, inServices, inWifi
    <3>3. ~Overlaps("supervisor")
      BY <3>1, Zenon
    <3>4. Free /\ Same /\ (inManual => inManual')
      BY <3>1, <3>2
    <3> QED BY <3>3, <3>4, Zenon
  <2>4. CASE \E mode \in {"sta", "ap"} : Switch(mode)
    <3>1. Free /\ inStale' = (inStale \/ Overlaps("supervisor"))
      BY <2>4 DEF Switch
    <3>2. Same /\ UNCHANGED inManual
      BY <2>4 DEF Switch, Same, inSetup, inServices, inWifi
    <3>3. ~Overlaps("supervisor")
      BY <3>1, Zenon
    <3>4. Free /\ Same /\ (inManual => inManual')
      BY <3>1, <3>2
    <3> QED BY <3>3, <3>4, Zenon
  <2> QED BY <2>1, <2>2, <2>3, <2>4
<1>2. InRest \/ InOff
  BY <1>1, WhoWorks
<1>3. StopAdapter' = StopAdapter /\ StartAdapter' = StartAdapter
  BY DEF StopAdapter, StartAdapter
<1>4. InOff => ~inUp /\ inFlag = "none" /\ Doing("supervisor", <<>>)
  BY DEF InOff, Detached
<1>5. InRest => Steady' /\ Attached' /\ Attached /\ Doing("supervisor", <<>>)
  <2>1. Serves => Serves'
    BY <1>1 DEF Serves, ServesNothing, ServesStation, ServesAp, Expected, ConfiguredHttp
  <2> QED BY <1>1, <2>1 DEF InRest, Steady, Attached
<1>6. CASE Interval
  <2>1. InSingle'
    BY <1>1, <1>2, <1>4, <1>5, <1>6, CallIs DEF Interval, InSingle, Doing
  <2> QED BY <2>1 DEF InStage
<1>7. CASE Command
  <2>1. PICK op \in {<<"http", ConfiguredHttp>>, <<"stop_http">>}
               \cup {<<on, s>> : on \in {"start", "stop"}, s \in {"sntp", "ota", "monitor"}} :
          Call(<<op>>)
    BY <1>7 DEF Command
  <2>2. op \in CommandOps
    BY DEF CommandOps, ConfiguredHttp
  <2>3. inTodo' = Lists("supervisor", <<op>>) /\ inManual' /\ InRest
    BY <1>2, <1>4, <1>5, <1>7, <2>1, CallIs DEF Command
  <2>4. InSingle'
    BY <1>5, <2>2, <2>3 DEF InSingle, Doing
  <2> QED BY <2>4 DEF InStage
<1>8. CASE Adapter /\ InOff
  <2>1. inTodo' = Lists("supervisor", StartAdapter) /\ ~inReady
    BY <1>4, <1>8, CallIs DEF Adapter
  <2>2. StartAt(1)'
    <3>1. Detached' /\ inMode' = "none" /\ ~inReady'
      BY <1>1, <1>8 DEF InOff, Detached, ServesNothing
    <3>2. Doing("supervisor", From(StartAdapter, 1))'
      BY <1>3, <2>1, ListsBegin DEF Doing
    <3> QED BY <3>1, <3>2 DEF StartAt
  <2> QED BY <2>2 DEF InStage
<1>9. CASE Adapter /\ InRest
  <2>1. inTodo' = Lists("supervisor", StopAdapter)
    BY <1>5, <1>9, CallIs DEF Adapter, Attached
  <2>2. ShutdownAt(1)'
    <3>1. Doing("supervisor", From(StopAdapter, 1))'
      BY <1>3, <2>1, ListsBegin DEF Doing
    <3> QED BY <1>5, <1>9, <3>1 DEF ShutdownAt, Stopped, Attached
  <2> QED BY <2>2 DEF InStage
<1>10. CASE \E mode \in {"sta", "ap"} : Switch(mode)
  <2>1. PICK mode \in {"sta", "ap"} : Switch(mode)
    BY <1>10
  <2>2. inTodo' = Lists("supervisor", StopThen(mode)) /\ InRest
    BY <1>2, <1>4, <1>5, <2>1, CallIs DEF Switch, StopThen
  <2>3. ChangeAt("supervisor", mode, 1)'
    BY <1>5, <2>2, ListsBegin DEF ChangeAt, Stopped, Doing
  <2> QED BY <2>3 DEF InStage, InetTask
<1> QED BY <1>2, <1>6, <1>7, <1>8, <1>9, <1>10

(* The timeout changes the mode like a command.                             *)
LEMMA ApTimeoutKeepsStage ==
  ASSUME inCfg \in InetConfig, InStage, ApTimeout, ~inStale'
  PROVE  InStage'
<1>1. /\ ~Overlaps("timeout") /\ inTodo["timeout"] = <<>> /\ inMode = "ap"
      /\ UNCHANGED <<inCfg, inUp, inHandlers, inCallback, inMode, inReady, inBits, inSvc, inHttp,
                     inFlag>>
  BY DEF ApTimeout, inSetup, inServices, inWifi
<1>2. Free /\ ~Overlaps("supervisor")
  BY <1>1 DEF Free, Overlaps, InetTask
<1>3. InRest
  BY <1>1, <1>2, WhoWorks DEF InOff
<1>4. Attached /\ Attached' /\ Doing("supervisor", <<>>)
  BY <1>1, <1>3 DEF InRest, Steady, Attached
<1>5. inTodo' = [inTodo EXCEPT !["timeout"] = StopThen("sta")]
  BY <1>4 DEF ApTimeout, StopThen, Attached
<1>6. inTodo' = Lists("timeout", StopThen("sta"))
  BY <1>4, <1>5 DEF Doing, Lists, InetTask
<1>7. ChangeAt("timeout", "sta", 1)'
  BY <1>4, <1>6, ListsBegin DEF ChangeAt, Stopped, Doing
<1> QED BY <1>7 DEF InStage, InetTask

-----------------------------------------------------------------------------
(* Disturbed or not: what is left of a task's calls after the next.          *)
LEMMA DoLeaves ==
  ASSUME OfTasks, NEW t \in InetTask, Do(t),
         NEW calls \in Seq(InetOps), NEW i \in 1..Len(calls), inTodo[t] = From(calls, i)
  PROVE  /\ inTodo'[t] = From(calls, i + 1) /\ Effect(calls[i])
         /\ \A u \in InetTask \ {t} : inTodo'[u] = inTodo[u]
         /\ OfTasks'
<1>1. Head(From(calls, i)) = calls[i] /\ Tail(From(calls, i)) = From(calls, i + 1)
  BY FromTheNext
<1>2. inTodo' = [inTodo EXCEPT ![t] = From(calls, i + 1)] /\ OfTasks'
  BY <1>1 DEF Do, OfTasks
<1>3. Effect(calls[i])
  BY <1>1 DEF Do, Effect, Settles
<1> QED BY <1>2, <1>3 DEF OfTasks

(* The lists that the supervisor's calls and the timeout's are left of.      *)
LEMMA ListsTyped ==
  /\ \A m \in {"sta", "ap"} : StopThen(m) \in Seq(InetOps) /\ Len(StopThen(m)) = 7
  /\ StopAdapter \in Seq(InetOps) /\ Len(StopAdapter) = 11
  /\ StartAdapter \in Seq(InetOps) /\ Len(StartAdapter) = 5
  /\ \A m \in {"sta", "ap"} : From(StopThen(m), 8) = <<>>
  /\ From(StopAdapter, 12) = <<>> /\ From(StartAdapter, 6) = <<>>
<1>1. \A m \in {"sta", "ap"} : StopThen(m) \in Seq(InetOps) /\ Len(StopThen(m)) = 7
  BY StopThenList
<1>2. /\ StopAdapter \in Seq(InetOps) /\ Len(StopAdapter) = 11
      /\ StartAdapter \in Seq(InetOps) /\ Len(StartAdapter) = 5
  BY StopAdapterList, StartAdapterList, Zenon
<1>3. \A calls \in Seq(InetOps) : From(calls, Len(calls) + 1) = <<>>
  BY FromTheEnds
<1>4. 7 + 1 = 8 /\ 11 + 1 = 12 /\ 5 + 1 = 6
  OBVIOUS
<1> QED BY <1>1, <1>2, <1>3, <1>4, Zenon

(* The timeout's calls stop services and set the station up: they undo       *)
(* nothing that the supervisor's rely on.                                    *)
LEMMA TimeoutKeepsShape ==
  ASSUME Shape, Do("timeout")
  PROVE  Shape'
<1> DEFINE calls == StopThen("sta")
<1>1. PICK i \in 1..8 : inTodo["timeout"] = From(calls, i)
  BY DEF Shape, TimesOut
<1>2. i \in 1..7 /\ i + 1 \in 1..8
  BY <1>1, ListsTyped DEF Do
<1>3. /\ inTodo'["timeout"] = From(calls, i + 1) /\ Effect(calls[i])
      /\ inTodo'["supervisor"] = inTodo["supervisor"] /\ OfTasks'
  BY <1>1, <1>2, ListsTyped, DoLeaves DEF Shape, InetTask
<1>4. /\ UNCHANGED <<inUp, inHandlers, inCallback>>
      /\ inSvc' \subseteq inSvc /\ inHttp' \in {inHttp, "off"} /\ inFlag' \in {inFlag, "none"}
      /\ inMode' \in {inMode, "sta"}
  <2>1. calls[i] \in {<<"stop", "monitor">>, <<"stop", "mqtt">>, <<"stop_http">>, <<"stop", "sntp">>,
                      <<"stop_ota">>, <<"flag", "none">>, <<"wifi", "sta">>}
    <3>1. i \in 1..6 => calls[i] = StopServices[i]
      BY StopThenList
    <3>2. i = 7 => calls[i] = <<"wifi", "sta">>
      BY StopThenList
    <3> DEFINE op == calls[i]
    <3> HIDE DEF op
    <3>3. i = 1 \/ i = 2 \/ i = 3 \/ i = 4 \/ i = 5 \/ i = 6 \/ i = 7
      BY <1>2
    <3>4. /\ i = 7 => op = <<"wifi", "sta">>
          /\ i = 1 => op = StopServices[1]
          /\ i = 2 => op = StopServices[2]
          /\ i = 3 => op = StopServices[3]
          /\ i = 4 => op = StopServices[4]
          /\ i = 5 => op = StopServices[5]
          /\ i = 6 => op = StopServices[6]
      BY <3>1, <3>2 DEF op
    <3>5. op \in {<<"stop", "monitor">>, <<"stop", "mqtt">>, <<"stop_http">>, <<"stop", "sntp">>,
                  <<"stop_ota">>, <<"flag", "none">>, <<"wifi", "sta">>}
      BY <3>3, <3>4, StopServicesList, Zenon
    <3> QED BY <3>5 DEF op
  <2>2. CASE calls[i] = <<"stop_ota">>
    BY <1>3, <2>2 DEF Effect, OnServices, OnSetup, OnWifi, inSetup, inWifi, inServices, OtaStops
  <2> QED BY <1>3, <2>1, <2>2, EffectStop, EffectStopHttp, EffectFlag, EffectWifi
<1>5. (Attached => Attached') /\ \A k \in Int : Stopped(k) => Stopped(k)'
  BY <1>4 DEF Attached, Stopped
<1>6. StopAdapter' = StopAdapter /\ StartAdapter' = StartAdapter
  BY DEF StopAdapter, StartAdapter
<1>7. Steered'
  <2>1. CASE inTodo["supervisor"] \in Seq(ServiceOps) /\ (inUp => Attached)
    BY <1>3, <1>4, <1>5, <2>1 DEF Steered
  <2>2. ASSUME NEW m \in {"sta", "ap"}, NEW k \in 1..7,
               inTodo["supervisor"] = From(StopThen(m), k), Attached, Stopped(k)
        PROVE  Steered'
    BY <1>3, <1>5, <2>2 DEF Steered
  <2>3. ASSUME NEW k \in 1..11, inTodo["supervisor"] = From(StopAdapter, k), inUp, Stopped(k - 1)
        PROVE  Steered'
    BY <1>3, <1>4, <1>5, <1>6, <2>3 DEF Steered
  <2>4. ASSUME NEW k \in 1..5, inTodo["supervisor"] = From(StartAdapter, k), ~inUp,
               k > 2 => inCallback, k > 3 => inHandlers, k > 4 => inMode \in {"sta", "ap"}
        PROVE  Steered'
    BY <1>3, <1>4, <1>6, <2>4 DEF Steered
  <2> QED BY <2>1, <2>2, <2>3, <2>4 DEF Shape, Steered
<1> QED BY <1>2, <1>3, <1>7 DEF Shape, TimesOut

(* Nor do the supervisor's own calls leave their lists,                      *)
LEMMA SupervisorKeepsShape ==
  ASSUME Shape, Do("supervisor"), ~inRestart
  PROVE  Shape'
<1> DEFINE calls == inTodo["supervisor"]
<1>1. "supervisor" \in InetTask /\ OfTasks /\ <<>> \in Seq(ServiceOps)
  BY DEF InetTask, Shape
<1>2. ASSUME OfTasks', inTodo'["timeout"] = inTodo["timeout"], Steered'
      PROVE  Shape'
  BY <1>2 DEF Shape, TimesOut
<1>3. CASE calls \in Seq(ServiceOps) /\ (inUp => Attached)
  <2>0. inTodo' = [inTodo EXCEPT !["supervisor"] = Tail(calls)] /\ Effect(Head(calls)) /\ calls # <<>>
    BY DEF Do, Effect, Settles
  <2>4. Head(calls) \in ServiceOps /\ Tail(calls) \in Seq(ServiceOps)
    BY <1>3, <2>0
  <2>1. inTodo'["supervisor"] = Tail(calls) /\ inTodo'["timeout"] = inTodo["timeout"] /\ OfTasks'
    BY <1>1, <2>0 DEF OfTasks, InetTask
  <2>2. UNCHANGED <<inUp, inHandlers, inCallback, inMode>>
    BY <2>0, <2>4, EffectHttp, EffectStopHttp, EffectStart, EffectStop, EffectMqtt, EffectBroker, EffectFlag
    DEF ServiceOps, CommandOps
  <2>3. Steered'
    BY <1>3, <2>1, <2>2, <2>4 DEF Steered, Attached
  <2> QED BY <1>2, <2>1, <2>3
<1>4. ASSUME NEW m \in {"sta", "ap"}, NEW i \in 1..7, calls = From(StopThen(m), i), Attached,
             Stopped(i)
      PROVE  Shape'
  <2>1. /\ inTodo'["supervisor"] = From(StopThen(m), i + 1) /\ Effect(StopThen(m)[i])
        /\ inTodo'["timeout"] = inTodo["timeout"] /\ OfTasks'
    BY <1>1, <1>4, ListsTyped, DoLeaves DEF InetTask
  <2>2. CASE i \in 1..6
    <3>1. Effect(StopServices[i])
      BY <2>1, <2>2, StopThenList
    <3>2. Stopped(i + 1)' /\ UNCHANGED <<inUp, inHandlers, inCallback, inMode>>
      BY <1>4, <2>2, <3>1, StopsOne
    <3>3. Attached' /\ i + 1 \in 1..7
      BY <1>4, <2>2, <3>2 DEF Attached
    <3> QED BY <1>2, <2>1, <3>2, <3>3 DEF Steered
  <2>3. CASE i = 7
    <3>1. Effect(<<"wifi", m>>) /\ inTodo'["supervisor"] = <<>>
      <4>1. StopThen(m)[7] = <<"wifi", m>> /\ From(StopThen(m), 8) = <<>> /\ i + 1 = 8
        BY <2>3, StopThenList, ListsTyped
      <4> QED BY <2>1, <2>3, <4>1
    <3>2. Attached'
      BY <1>4, <3>1, EffectWifi DEF Attached
    <3> QED BY <1>1, <1>2, <2>1, <3>1, <3>2 DEF Steered
  <2> QED BY <2>2, <2>3
<1>5. ASSUME NEW i \in 1..11, calls = From(StopAdapter, i), inUp, Stopped(i - 1) PROVE Shape'
  <2>1. /\ inTodo'["supervisor"] = From(StopAdapter, i + 1) /\ Effect(StopAdapter[i])
        /\ inTodo'["timeout"] = inTodo["timeout"] /\ OfTasks'
    BY <1>1, <1>5, ListsTyped, DoLeaves DEF InetTask
  <2>2. StopAdapter' = StopAdapter
    BY DEF StopAdapter
  <2>3. ASSUME i # 11, inUp', Stopped(i)' PROVE Shape'
    <3>1. i + 1 \in 1..11 /\ (i + 1) - 1 = i
      BY <2>3
    <3> QED BY <1>2, <2>1, <2>2, <2>3, <3>1 DEF Steered
  <2>4. CASE i = 1
    <3>1. Effect(<<"handlers", FALSE>>)
      BY <2>1, <2>4, StopAdapterList, Zenon
    <3>2. UNCHANGED inUp
      BY <3>1, EffectSetup
    <3>3. Stopped(1)'
      BY DEF Stopped
    <3> QED BY <1>5, <2>3, <2>4, <3>2, <3>3
  <2>5. CASE i \in 2..7
    <3>1. i - 1 \in 1..6 /\ 1 + (i - 1) = i /\ (i - 1) + 1 = i
      BY <2>5
    <3>2. Effect(StopServices[i - 1])
      <4>1. StopAdapter[1 + (i - 1)] = StopServices[i - 1]
        BY <3>1, StopAdapterList, Zenon
      <4> QED BY <2>1, <3>1, <4>1
    <3>3. Stopped((i - 1) + 1)' /\ UNCHANGED inUp
      BY <1>5, <3>1, <3>2, StopsOne
    <3> QED BY <1>5, <2>3, <2>5, <3>1, <3>3
  <2>6. CASE i = 8
    <3>1. Effect(<<"stop", "mdns">>)
      BY <2>1, <2>6, StopAdapterList, Zenon
    <3>2. inSvc' = inSvc \ {"mdns"} /\ UNCHANGED <<inUp, inHttp, inFlag>>
      BY <3>1, EffectStop
    <3> QED BY <1>5, <2>3, <2>6, <3>2 DEF Stopped
  <2>7. CASE i = 9
    <3>1. Effect(<<"callback", FALSE>>)
      BY <2>1, <2>7, StopAdapterList, Zenon
    <3>2. UNCHANGED <<inUp, inSvc, inHttp, inFlag>>
      BY <3>1, EffectSetup
    <3> QED BY <1>5, <2>3, <2>7, <3>2 DEF Stopped
  <2>8. CASE i = 10
    <3>1. Effect(<<"wifi", "none">>)
      BY <2>1, <2>8, StopAdapterList, Zenon
    <3>2. UNCHANGED <<inUp, inSvc, inHttp, inFlag>>
      BY <3>1, EffectWifi
    <3> QED BY <1>5, <2>3, <2>8, <3>2 DEF Stopped
  <2>9. CASE i = 11
    <3>1. Effect(<<"up", FALSE>>) /\ inTodo'["supervisor"] = <<>>
      <4>1. StopAdapter[11] = <<"up", FALSE>> /\ From(StopAdapter, 12) = <<>>
        BY StopAdapterList, ListsTyped, Zenon
      <4>2. i + 1 = 12
        BY <2>9
      <4> QED BY <2>1, <2>9, <4>1, <4>2, Zenon
    <3>2. ~inUp'
      BY <3>1, EffectSetup
    <3> QED BY <1>1, <1>2, <2>1, <3>1, <3>2 DEF Steered
  <2> QED BY <2>4, <2>5, <2>6, <2>7, <2>8, <2>9
<1>6. ASSUME NEW i \in 1..5, calls = From(StartAdapter, i), ~inUp,
             i > 2 => inCallback, i > 3 => inHandlers, i > 4 => inMode \in {"sta", "ap"}
      PROVE  Shape'
  <2>1. /\ inTodo'["supervisor"] = From(StartAdapter, i + 1) /\ Effect(StartAdapter[i])
        /\ inTodo'["timeout"] = inTodo["timeout"] /\ OfTasks'
    BY <1>1, <1>6, ListsTyped, DoLeaves DEF InetTask
  <2>2. StartAdapter' = StartAdapter
    BY DEF StartAdapter
  <2>3. ASSUME i # 5, ~inUp', i > 1 => inCallback', i > 2 => inHandlers',
               i > 3 => inMode' \in {"sta", "ap"}
        PROVE  Shape'
    <3>1. i + 1 \in 1..5
      BY <2>3
    <3> QED BY <1>2, <2>1, <2>2, <2>3, <3>1 DEF Steered
  <2>4. CASE i = 1
    <3>1. Effect(<<"configure">>)
      BY <2>1, <2>4, StartAdapterList, Zenon
    <3> QED BY <1>6, <2>3, <2>4, <3>1, EffectConfigure
  <2>5. CASE i = 2
    <3>1. Effect(<<"callback", TRUE>>)
      BY <2>1, <2>5, StartAdapterList, Zenon
    <3>2. inCallback' = TRUE /\ UNCHANGED inUp
      BY <3>1, EffectSetup
    <3> QED BY <1>6, <2>3, <2>5, <3>2
  <2>6. CASE i = 3
    <3>1. Effect(<<"handlers", TRUE>>)
      BY <2>1, <2>6, StartAdapterList, Zenon
    <3>2. inHandlers' = TRUE /\ UNCHANGED <<inUp, inCallback>>
      BY <3>1, EffectSetup
    <3> QED BY <1>6, <2>3, <2>6, <3>2
  <2>7. CASE i = 4
    <3>1. Effect(<<"wifi", "sta">>)
      BY <2>1, <2>7, StartAdapterList, Zenon
    <3>2. inMode' = "sta" /\ UNCHANGED <<inUp, inCallback, inHandlers>>
      BY <3>1, EffectWifi
    <3> QED BY <1>6, <2>3, <2>7, <3>2
  <2>8. CASE i = 5
    <3>1. Effect(<<"up", TRUE>>) /\ inTodo'["supervisor"] = <<>>
      <4>1. StartAdapter[5] = <<"up", TRUE>> /\ From(StartAdapter, 6) = <<>>
        BY StartAdapterList, ListsTyped, Zenon
      <4>2. i + 1 = 6
        BY <2>8
      <4> QED BY <2>1, <2>8, <4>1, <4>2, Zenon
    <3>2. inUp' = TRUE /\ UNCHANGED <<inCallback, inHandlers, inMode>>
      BY <3>1, EffectSetup
    <3>3. Attached'
      BY <1>6, <2>8, <3>2 DEF Attached
    <3> QED BY <1>1, <1>2, <2>1, <3>1, <3>3 DEF Steered
  <2> QED BY <2>4, <2>5, <2>6, <2>7, <2>8
<1> QED BY <1>3, <1>4, <1>5, <1>6 DEF Shape, Steered

(* and where its calls have stopped all services, with the timeout at rest,  *)
(* what disturbed them before does not matter any more.                      *)
LEMMA StopsSettle ==
  ASSUME inCfg \in InetConfig, Shape, ~inRestart, NEW t \in InetTask, Do(t), inStale, ~inStale'
  PROVE  InStage'
<1> DEFINE calls == inTodo["supervisor"]
<1>1. Head(calls) = <<"flag", "none">> /\ ~Overlaps("supervisor") /\ t = "supervisor"
  BY DEF Do, Settles
<1>2. OfTasks /\ inTodo["timeout"] = <<>> /\ calls # <<>>
  BY <1>1 DEF Overlaps, InetTask, Shape, Do
<1>3. \A list : calls = list => Doing("supervisor", list)
  BY <1>2 DEF OfTasks, Doing, Lists, InetTask
<1>4. ~(calls \in Seq(ServiceOps))
  BY <1>1, <1>2 DEF ServiceOps, CommandOps
<1>5. ASSUME NEW m \in {"sta", "ap"}, NEW i \in 1..7, calls = From(StopThen(m), i), Attached,
             Stopped(i)
      PROVE  InStage'
  <2>1. ChangeAt("supervisor", m, i)
    BY <1>3, <1>5 DEF ChangeAt
  <2> QED BY <2>1, ChangeGoesOn DEF InetTask
<1>6. ASSUME NEW i \in 1..11, calls = From(StopAdapter, i), inUp, Stopped(i - 1) PROVE InStage'
  <2>1. Head(calls) = StopAdapter[i]
    <3>1. StopAdapter \in Seq(InetOps) /\ i \in 1..Len(StopAdapter)
      BY ListsTyped
    <3> QED BY <1>6, <3>1, FromTheNext
  <2>2. i # 11
    BY <1>1, <2>1, StopAdapterList
  <2>3. ShutdownAt(i)
    BY <1>3, <1>6, <2>2 DEF ShutdownAt
  <2> QED BY <2>3, ShutdownGoesOn
<1>7. ASSUME NEW i \in 1..5, calls = From(StartAdapter, i) PROVE FALSE
  <2>1. Head(calls) = StartAdapter[i]
    <3>1. StartAdapter \in Seq(InetOps) /\ i \in 1..Len(StartAdapter)
      BY ListsTyped
    <3> QED BY <1>7, <3>1, FromTheNext
  <2> QED BY <1>1, <2>1, StartAdapterList
<1> QED BY <1>4, <1>5, <1>6, <1>7 DEF Shape, Steered

(* The lists of the services of a mode are made of starts.                   *)
LEMMA EventsTyped ==
  ASSUME inCfg \in InetConfig
  PROVE  \A bits : OnEvent(bits) \in Seq(ServiceOps)
<1>1. /\ <<"start", "ota">> \in ServiceOps /\ <<"start", "monitor">> \in ServiceOps
      /\ <<"start", "sntp">> \in ServiceOps /\ <<"start", "mdns">> \in ServiceOps
      /\ <<"broker">> \in ServiceOps /\ <<"mqtt">> \in ServiceOps
      /\ <<"http", "plain">> \in ServiceOps /\ <<"http", "secure">> \in ServiceOps
      /\ <<"flag", "sta">> \in ServiceOps /\ <<"flag", "ap">> \in ServiceOps
  BY DEF ServiceOps, CommandOps
<1>2. <<"http", ConfiguredHttp>> \in ServiceOps
  BY <1>1 DEF ConfiguredHttp
<1>3. \A s, t \in Seq(ServiceOps) : s \o t \in Seq(ServiceOps)
  OBVIOUS
<1>4. <<>> \in Seq(ServiceOps) /\ \A op \in ServiceOps : <<op>> \in Seq(ServiceOps)
  OBVIOUS
<1>5. Basic \in Seq(ServiceOps)
  BY <1>1 DEF Basic
<1>6. StationServices \in Seq(ServiceOps)
  <2> DEFINE extra == << <<"start", "mdns">>, <<"start", "sntp">>, <<"broker">>, <<"mqtt">>,
                         <<"http", ConfiguredHttp>> >>
  <2>1. extra \in Seq(ServiceOps)
    BY <1>1, <1>2
  <2>2. << <<"flag", "sta">> >> \in Seq(ServiceOps)
    BY <1>1, <1>4
  <2>3. (IF inCfg.safe THEN <<>> ELSE extra) \in Seq(ServiceOps)
    BY <1>4, <2>1
  <2>4. StationServices = Basic \o (IF inCfg.safe THEN <<>> ELSE extra) \o << <<"flag", "sta">> >>
    BY DEF StationServices
  <2> HIDE DEF extra
  <2> QED BY <1>3, <1>5, <2>2, <2>3, <2>4, Zenon
<1>7. ApServices \in Seq(ServiceOps)
  <2> DEFINE extra == << <<"http", "secure">>, <<"start", "mdns">> >>
  <2>1. extra \in Seq(ServiceOps)
    BY <1>1
  <2>2. << <<"flag", "ap">> >> \in Seq(ServiceOps)
    BY <1>1, <1>4
  <2>3. (IF inCfg.safe THEN <<>> ELSE extra) \in Seq(ServiceOps)
    BY <1>4, <2>1
  <2>4. ApServices = Basic \o (IF inCfg.safe THEN <<>> ELSE extra) \o << <<"flag", "ap">> >>
    BY DEF ApServices
  <2> HIDE DEF extra
  <2> QED BY <1>3, <1>5, <2>2, <2>3, <2>4, Zenon
<1> SUFFICES ASSUME NEW bits PROVE OnEvent(bits) \in Seq(ServiceOps)
  OBVIOUS
<1> DEFINE a == IF "sta" \in bits THEN StationServices ELSE <<>>
           b == IF "ap" \in bits /\ ("sta" \in bits \/ inFlag # "ap") THEN ApServices ELSE <<>>
<1>8. a \in Seq(ServiceOps) /\ b \in Seq(ServiceOps)
  BY <1>4, <1>6, <1>7
<1>9. a \o b \in Seq(ServiceOps) /\ << <<"mqtt">> >> \in Seq(ServiceOps)
  BY <1>1, <1>3, <1>4, <1>8
<1> QED BY <1>4, <1>9, Zenon DEF OnEvent

(* The timeout that is not called back begins at the end of its list.        *)
LEMMA StationAlone == << <<"wifi", "sta">> >> = From(StopThen("sta"), 7)
<1> DEFINE calls == StopThen("sta")
           op == <<"wifi", "sta">>
<1>1. calls \in Seq(InetOps) /\ Len(calls) = 7 /\ calls[7] = op /\ op \in InetOps
  BY StopThenList, OpsNamed
<1> HIDE DEF calls, op
<1> DEFINE s == From(calls, 7)
<1>2. s \in Seq(InetOps) /\ Len(s) = 1 /\ s[1] = op
  BY <1>1 DEF From
<1> HIDE DEF s
<1>3. <<op>> \in Seq(InetOps) /\ Len(<<op>>) = 1 /\ <<op>>[1] = op
  BY <1>1
<1> DEFINE r == <<op>>
<1> HIDE DEF r
<1>4. r \in Seq(InetOps) /\ Len(r) = Len(s) /\ \A j \in 1..Len(r) : r[j] = s[j]
  <2>1. r \in Seq(InetOps) /\ Len(r) = 1 /\ r[1] = op
    BY <1>3, Zenon DEF r
  <2>2. \A j \in 1..1 : j = 1
    OBVIOUS
  <2> QED BY <1>2, <2>1, <2>2, Zenon
<1>5. r = s
  BY <1>2, <1>4, SeqEqual
<1> QED BY <1>5 DEF r, s, calls, op

(* A call begins its list at the first operation, and a task at rest has     *)
(* nothing that could disturb it.                                            *)
LEMMA CallsKeepShape ==
  ASSUME inCfg \in InetConfig, Shape,
         TakeBits \/ Interval \/ Command \/ Adapter \/ \E mode \in {"sta", "ap"} : Switch(mode)
  PROVE  Shape'
<1>1. Free /\ UNCHANGED <<inUp, inHandlers, inCallback, inMode>>
  BY DEF TakeBits, Interval, Command, Adapter, Switch, inSetup, inWifi
<1>2. inUp => Attached
  BY <1>1, SomethingLeft DEF Shape, Steered, Free
<1>3. Attached => Attached'
  BY <1>1 DEF Attached
<1>4. Stopped(1)' /\ Stopped(0)' /\ 1 - 1 = 0
  BY DEF Stopped
<1>5. ASSUME NEW ops, Call(ops), \/ ops \in Seq(ServiceOps)
                                 \/ inUp /\ ops = StopAdapter
                                 \/ ~inUp /\ ops = StartAdapter
                                 \/ inUp /\ \E m \in {"sta", "ap"} : ops = StopThen(m)
      PROVE  Shape'
  <2>1. OfTasks' /\ inTodo'["supervisor"] = ops /\ inTodo'["timeout"] = inTodo["timeout"]
    BY <1>5 DEF Call, Shape, OfTasks, InetTask
  <2>2. StopAdapter' = StopAdapter /\ StartAdapter' = StartAdapter
    BY DEF StopAdapter, StartAdapter
  <2>3. CASE ops \in Seq(ServiceOps)
    BY <1>1, <1>2, <1>3, <2>1, <2>3 DEF Shape, Steered, TimesOut
  <2>4. CASE inUp /\ ops = StopAdapter
    <3>1. ops = From(StopAdapter, 1) /\ 1 \in 1..11
      BY <2>4, ListsBegin
    <3> QED BY <1>1, <1>4, <2>1, <2>2, <2>4, <3>1 DEF Shape, Steered, TimesOut
  <2>5. CASE ~inUp /\ ops = StartAdapter
    <3>1. ops = From(StartAdapter, 1) /\ 1 \in 1..5
      BY <2>5, ListsBegin
    <3> QED BY <1>1, <2>1, <2>2, <2>5, <3>1 DEF Shape, Steered, TimesOut
  <2>6. ASSUME NEW m \in {"sta", "ap"}, inUp, ops = StopThen(m) PROVE Shape'
    <3>1. ops = From(StopThen(m), 1) /\ 1 \in 1..7
      BY <2>6, ListsBegin
    <3> QED BY <1>2, <1>3, <1>4, <2>1, <2>6, <3>1 DEF Shape, Steered, TimesOut
  <2> QED BY <1>5, <2>3, <2>4, <2>5, <2>6
<1>6. CASE TakeBits
  BY <1>5, <1>6, EventsTyped DEF TakeBits
<1>7. CASE Interval
  <2>1. << <<"mqtt">> >> \in Seq(ServiceOps)
    BY DEF ServiceOps
  <2> QED BY <1>5, <1>7, <2>1 DEF Interval
<1>8. CASE Command
  <2>1. ServiceOps = ServiceOps \cup {<<"http", ConfiguredHttp>>, <<"stop_http">>}
                     \cup {<<on, s>> : on \in {"start", "stop"}, s \in {"sntp", "ota", "monitor"}}
    BY DEF ServiceOps, CommandOps, ConfiguredHttp
  <2>2. PICK op \in ServiceOps : Call(<<op>>)
    BY <1>8, <2>1 DEF Command
  <2> DEFINE ops == <<op>>
  <2>3. ops \in Seq(ServiceOps)
    OBVIOUS
  <2>4. Call(ops)
    BY <2>2, Zenon
  <2> HIDE DEF ops
  <2> QED BY <1>5, <2>3, <2>4, Zenon
<1>9. CASE Adapter
  BY <1>5, <1>9 DEF Adapter
<1>10. ASSUME NEW mode \in {"sta", "ap"}, Switch(mode) PROVE Shape'
  BY <1>5, <1>10 DEF Switch, StopThen
<1> QED BY <1>6, <1>7, <1>8, <1>9, <1>10

(* So does the timeout's, and what Wi-Fi and the MQTT client do by           *)
(* themselves leaves them where they are.                                    *)
LEMMA WorldKeepsShape ==
  ASSUME Shape, ApTimeout \/ BecomesReady \/ LosesLink \/ MqttGivesUp \/ UNCHANGED inetVars
  PROVE  Shape'
<1>1. /\ UNCHANGED <<inUp, inHandlers, inCallback, inMode, inHttp, inFlag>> /\ inSvc' \subseteq inSvc
      /\ inTodo' = inTodo \/ ApTimeout
  BY DEF ApTimeout, BecomesReady, LosesLink, MqttGivesUp, inetVars, inSetup, inServices, inWifi
<1>2. (Attached => Attached') /\ \A k \in Int : Stopped(k) => Stopped(k)'
  BY <1>1 DEF Attached, Stopped
<1>3. StopAdapter' = StopAdapter /\ StartAdapter' = StartAdapter
  BY DEF StopAdapter, StartAdapter
<1>4. ASSUME inTodo'["supervisor"] = inTodo["supervisor"] PROVE Steered'
  <2>1. CASE inTodo["supervisor"] \in Seq(ServiceOps) /\ (inUp => Attached)
    BY <1>1, <1>2, <1>4, <2>1 DEF Steered
  <2>2. ASSUME NEW m \in {"sta", "ap"}, NEW k \in 1..7,
               inTodo["supervisor"] = From(StopThen(m), k), Attached, Stopped(k)
        PROVE  Steered'
    BY <1>2, <1>4, <2>2 DEF Steered
  <2>3. ASSUME NEW k \in 1..11, inTodo["supervisor"] = From(StopAdapter, k), inUp, Stopped(k - 1)
        PROVE  Steered'
    BY <1>1, <1>2, <1>3, <1>4, <2>3 DEF Steered
  <2>4. ASSUME NEW k \in 1..5, inTodo["supervisor"] = From(StartAdapter, k), ~inUp,
               k > 2 => inCallback, k > 3 => inHandlers, k > 4 => inMode \in {"sta", "ap"}
        PROVE  Steered'
    BY <1>1, <1>3, <1>4, <2>4 DEF Steered
  <2> QED BY <2>1, <2>2, <2>3, <2>4 DEF Shape, Steered
<1>5. CASE inTodo' = inTodo
  BY <1>4, <1>5 DEF Shape, OfTasks, TimesOut
<1>6. CASE ApTimeout
  <2> DEFINE ops == (IF inCallback THEN StopServices ELSE <<>>) \o << <<"wifi", "sta">> >>
  <2>1. inTodo' = [inTodo EXCEPT !["timeout"] = ops]
    BY <1>6 DEF ApTimeout
  <2>2. ops = From(StopThen("sta"), 1) \/ ops = From(StopThen("sta"), 7)
    <3>1. <<>> \o << <<"wifi", "sta">> >> = << <<"wifi", "sta">> >>
      OBVIOUS
    <3>2. StopThen("sta") = From(StopThen("sta"), 1)
      BY ListsTyped, FromTheEnds
    <3> QED BY <3>1, <3>2, StationAlone DEF StopThen
  <2> HIDE DEF ops
  <2>3. OfTasks' /\ inTodo'["timeout"] = ops /\ inTodo'["supervisor"] = inTodo["supervisor"]
    BY <2>1 DEF Shape, OfTasks, InetTask
  <2> QED BY <1>4, <2>2, <2>3 DEF Shape, TimesOut
<1> QED BY <1>1, <1>5, <1>6

(* As long as no restart has begun, the calls under way are at one of their  *)
(* operations; and unless since the supervisor last stopped the services two *)
(* calls overlapped or a bit came late, the services are those that the      *)
(* operations before it have left.                                           *)
THEOREM InetInvariant == InetSpec => []InetInv
<1>1. InetInit => InetInv
  <2> SUFFICES ASSUME InetInit PROVE InOff /\ Shape /\ inCfg \in InetConfig
    BY DEF InetInv, InStage
  <2>1. Shape
    BY ListsTyped DEF InetInit, InetFresh, Shape, OfTasks, Steered, TimesOut, InetTask
  <2> QED BY <2>1 DEF InetInit, InetFresh, InOff, Detached, ServesNothing, Doing, Lists
<1>2. InetInv /\ [InetNext]_inetVars => InetInv'
  <2> SUFFICES ASSUME InetInv, [InetNext]_inetVars PROVE InetInv'
    OBVIOUS
  <2>1. CASE StartsAgain
    <3>1. InOff' /\ inCfg' \in InetConfig
      BY <2>1 DEF StartsAgain, InOff, Detached, ServesNothing, Doing, Lists
    <3>2. Shape'
      BY <2>1, ListsTyped DEF StartsAgain, Shape, OfTasks, Steered, TimesOut, InetTask
    <3> QED BY <3>1, <3>2 DEF InetInv, InStage
  <2>2. CASE ~StartsAgain
    <3> DEFINE World == BecomesReady \/ LosesLink \/ MqttGivesUp \/ UNCHANGED inetVars
               Calls == Interval \/ Command \/ Adapter \/ \E mode \in {"sta", "ap"} : Switch(mode)
               Steps == \/ \E t \in InetTask : Do(t)
                        \/ TakeBits \/ ApTimeout \/ Calls \/ World
    <3>1. Steps \/ RestartBegins
      BY <2>2 DEF InetNext
    <3>2. inCfg' = inCfg
      BY <3>1
      DEF Do, Effect, OnServices, TakeBits, Interval, Command, Adapter, Switch, ApTimeout,
          BecomesReady, LosesLink, MqttGivesUp, RestartBegins, inetVars, inSetup
    <3>3. RestartBegins => inRestart'
      BY DEF RestartBegins
    <3>4. Steps => UNCHANGED inRestart
      BY DEF Do, TakeBits, ApTimeout, Interval, Command, Adapter, Switch, BecomesReady, LosesLink,
             MqttGivesUp, inetVars, inSetup
    <3>5. ASSUME NEW t \in InetTask, Do(t), Shape, ~inRestart PROVE Shape'
      BY <3>5, TimeoutKeepsShape, SupervisorKeepsShape DEF InetTask
    <3>6. ASSUME Steps, ~inRestart' PROVE Shape'
      <4>1. Shape /\ inCfg \in InetConfig /\ ~inRestart
        BY <3>4, <3>6 DEF InetInv
      <4>2. CASE \E t \in InetTask : Do(t)
        BY <3>5, <4>1, <4>2
      <4>3. CASE TakeBits \/ Calls
        BY <4>1, <4>3, CallsKeepShape
      <4>4. CASE ApTimeout \/ World
        BY <4>1, <4>4, WorldKeepsShape
      <4> QED BY <3>6, <4>2, <4>3, <4>4
    <3>7. ASSUME Steps, ~inStale', ~inRestart', inStale PROVE InStage'
      <4>1. \E t \in InetTask : Do(t)
        <5>1. World => inStale'
          BY <3>7 DEF BecomesReady, LosesLink, MqttGivesUp, inetVars
        <5>2. Interval => inStale'
          BY <3>7, Zenon DEF Interval
        <5>3. Command => inStale'
          <6>1. Command => inStale' = (inStale \/ Overlaps("supervisor"))
            BY DEF Command
          <6> QED BY <3>7, <6>1, Zenon
        <5>4. Adapter => inStale'
          BY <3>7, Zenon DEF Adapter
        <5>5. (\E mode \in {"sta", "ap"} : Switch(mode)) => inStale'
          BY <3>7 DEF Switch
        <5>6. TakeBits \/ ApTimeout => inStale'
          BY <3>7 DEF TakeBits, ApTimeout
        <5> QED BY <3>7, <5>1, <5>2, <5>3, <5>4, <5>5, <5>6
      <4>2. Shape /\ inCfg \in InetConfig /\ ~inRestart
        BY <3>4, <3>7 DEF InetInv
      <4> QED BY <3>7, <4>1, <4>2, StopsSettle
    <3>8. ASSUME Steps, ~inStale', ~inRestart', ~inStale PROVE InStage'
      <4>1. InStage /\ inCfg \in InetConfig /\ ~inRestart
        BY <3>4, <3>8 DEF InetInv
      <4>2. CASE World
        <5>1. /\ UNCHANGED <<inCfg, inUp, inHandlers, inCallback, inMode, inHttp, inFlag, inTodo>>
              /\ inManual => inManual'
              /\ inSvc' = inSvc \/ inSvc' = inSvc \ {"mqtt"}
              /\ \/ UNCHANGED <<inReady, inBits>>
                 \/ inReady' = FALSE /\ UNCHANGED inBits
                 \/ inMode \in {"sta", "ap"} /\ ~inReady /\ Announce
          BY <4>2
          DEF BecomesReady, LosesLink, MqttGivesUp, inetVars, inSetup, inServices, inWifi
        <5> QED BY <4>1, <5>1, WorldKeepsStage
      <4>3. CASE Calls
        BY <3>8, <4>1, <4>3, CallsKeepStage
      <4>4. CASE TakeBits \/ ApTimeout
        BY <3>8, <4>1, <4>4, TakeBitsKeepsStage, ApTimeoutKeepsStage
      <4>5. CASE \E t \in InetTask : Do(t)
        BY <4>1, <4>5, DoKeeps
      <4> QED BY <3>8, <4>2, <4>3, <4>4, <4>5
    <3> QED BY <3>1, <3>2, <3>3, <3>6, <3>7, <3>8 DEF InetInv
  <2> QED BY <2>1, <2>2
<1> QED BY <1>1, <1>2, PTL DEF InetSpec

(* So at rest the services are those of the mode, whichever way there.       *)
THEOREM InetServices == InetSpec => []ServicesMatchMode
<1>1. InetInv => ServicesMatchMode
  <2> SUFFICES ASSUME InetInv, Undisturbed PROVE ServicesMatchMode
    BY DEF ServicesMatchMode
  <2>1. Free /\ ~Overlaps("supervisor") /\ InStage /\ inCfg \in InetConfig /\ ~inManual
    BY DEF Undisturbed, AtRestInet, Free, Overlaps, InetTask, InetInv
  <2>2. InRest \/ InOff
    BY <2>1, WhoWorks
  <2>3. CASE InOff
    BY <2>3 DEF InOff, Detached, ServesNothing, ServicesMatchMode
  <2>4. ASSUME InRest PROVE ServicesMatchMode
    <3>1. Steady /\ Serves
      BY <2>1, <2>4 DEF InRest, Steady
    <3>2. CASE inFlag = "none"
      BY <3>1, <3>2 DEF Steady, Serves, ServesNothing, ServicesMatchMode
    <3>3. CASE inFlag = "sta"
      BY <3>1, <3>3 DEF Steady, Serves, ServesStation, Expected, ServicesMatchMode
    <3>4. CASE inFlag = "ap"
      BY <3>1, <3>4 DEF Steady, Serves, ServesAp, Expected, ServicesMatchMode
    <3> QED BY <3>1, <3>2, <3>3, <3>4 DEF Steady, Attached
  <2> QED BY <2>2, <2>3, <2>4
<1> QED BY <1>1, InetInvariant, PTL

(* Every operation has the operand of its kind.                              *)
LEMMA OpKinds ==
  ASSUME NEW op \in InetOps
  PROVE  /\ op[1] \in {"start", "stop"} => op[2] \in Services
         /\ op[1] = "http" => op[2] \in {"plain", "secure"}
         /\ op[1] = "flag" => op[2] \in {"none", "sta", "ap"}
         /\ op[1] = "wifi" => op[2] \in {"none", "sta", "ap"}
         /\ op[1] \in {"handlers", "callback", "up"} => op[2] \in BOOLEAN
<1>1. \A k, x : <<k>>[1] = k /\ <<k, x>>[1] = k /\ <<k, x>>[2] = x
  OBVIOUS
<1>2. CASE op \in {<<"handlers", TRUE>>, <<"handlers", FALSE>>, <<"callback", TRUE>>,
                   <<"callback", FALSE>>, <<"up", TRUE>>, <<"up", FALSE>>}
  <2>1. PICK k \in {"handlers", "callback", "up"}, x \in BOOLEAN : op = <<k, x>>
    BY <1>2, Zenon
  <2>2. op[1] = k /\ op[2] = x
    BY <1>1, <2>1, Zenon
  <2> QED BY <2>2
<1>3. CASE op \in {<<"stop_ota">>, <<"stop_http">>, <<"mqtt">>, <<"broker">>, <<"configure">>}
  BY <1>3
<1>4. CASE op \in {<<"start", "ota">>, <<"start", "monitor">>, <<"start", "mdns">>,
                   <<"start", "sntp">>, <<"stop", "ota">>, <<"stop", "monitor">>,
                   <<"stop", "mdns">>, <<"stop", "sntp">>, <<"stop", "mqtt">>}
  BY <1>4 DEF Services
<1>5. CASE op \in {<<"http", "plain">>, <<"http", "secure">>, <<"flag", "none">>,
                   <<"flag", "sta">>, <<"flag", "ap">>, <<"wifi", "none">>, <<"wifi", "sta">>,
                   <<"wifi", "ap">>}
  BY <1>5
<1> QED BY <1>2, <1>3, <1>4, <1>5, Zenon DEF InetOps

(* The calls of the adapter are made of them.                                *)
LEMMA CallsTyped ==
  ASSUME inCfg \in InetConfig
  PROVE  /\ \A bits : OnEvent(bits) \in Seq(InetOps)
         /\ StartAdapter \in Seq(InetOps) /\ StopAdapter \in Seq(InetOps)
         /\ \A m \in {"sta", "ap"} : StopServices \o << <<"wifi", m>> >> \in Seq(InetOps)
         /\ <<>> \o << <<"wifi", "sta">> >> \in Seq(InetOps) /\ <<>> \in Seq(InetOps)
         /\ \A op \in CommandOps \cup {<<"mqtt">>} : <<op>> \in Seq(InetOps)
<1>1. <<>> \in Seq(InetOps) /\ \A op \in InetOps : <<op>> \in Seq(InetOps)
  OBVIOUS
<1>2. CommandOps \cup {<<"mqtt">>} \subseteq InetOps
  BY OpsNamed DEF CommandOps, InetOps
<1>3. StationServices \in Seq(InetOps) /\ ApServices \in Seq(InetOps)
  BY StationList, ApList, Zenon
<1>4. ASSUME NEW bits PROVE OnEvent(bits) \in Seq(InetOps)
  <2> DEFINE a == IF "sta" \in bits THEN StationServices ELSE <<>>
             b == IF "ap" \in bits /\ ("sta" \in bits \/ inFlag # "ap") THEN ApServices ELSE <<>>
  <2>1. a \in Seq(InetOps) /\ b \in Seq(InetOps)
    BY <1>1, <1>3
  <2>2. a \o b \in Seq(InetOps)
    BY <2>1, JoinedAt, Zenon
  <2>3. << <<"mqtt">> >> \in Seq(InetOps)
    BY <1>1, <1>2
  <2> QED BY <1>1, <2>2, <2>3, Zenon DEF OnEvent
<1>5. StartAdapter \in Seq(InetOps) /\ StopAdapter \in Seq(InetOps)
  BY StartAdapterList, StopAdapterList, Zenon
<1>6. \A m \in {"sta", "ap"} : StopServices \o << <<"wifi", m>> >> \in Seq(InetOps)
  BY StopThenList, Zenon DEF StopThen
<1>7. <<>> \o << <<"wifi", "sta">> >> \in Seq(InetOps)
  <2>1. << <<"wifi", "sta">> >> \in Seq(InetOps)
    BY <1>1, OpsNamed, Zenon
  <2> QED BY <1>1, <2>1, JoinedAt, Zenon
<1> QED BY <1>1, <1>2, <1>4, <1>5, <1>6, <1>7, Zenon

(* Every variable has its type, and what is left to do is made of these too. *)
InetTyped == InetTypeOK /\ inTodo \in [InetTask -> Seq(InetOps)]
(* Of every step, disturbed or not.                                          *)
THEOREM InetTypes == InetSpec => []InetTyped
<1> DEFINE none == [t \in InetTask |-> <<>>]
<1>0. none \in [InetTask -> Seq(InetOps)] /\ DOMAIN none = InetTask
  OBVIOUS
<1> HIDE DEF none
<1>1. InetInit => InetTyped
  <2> SUFFICES ASSUME InetInit PROVE InetTyped
    OBVIOUS
  <2>1. inTodo = none
    BY DEF InetInit, InetFresh, none
  <2> QED BY <1>0, <2>1 DEF InetInit, InetFresh, InetTyped, InetTypeOK
<1>2. InetTyped /\ [InetNext]_inetVars => InetTyped'
  <2> SUFFICES ASSUME InetTyped, [InetNext]_inetVars PROVE InetTyped'
    OBVIOUS
  <2> USE DEF InetTyped
  <2>1. ASSUME NEW list \in Seq(InetOps), Call(list) PROVE inTodo' \in [InetTask -> Seq(InetOps)]
    BY <2>1 DEF Call
  <2>2. ASSUME inTodo' \in [InetTask -> Seq(InetOps)] PROVE DOMAIN inTodo' = InetTask
    BY <2>2
  <2>3. inCfg \in InetConfig
    BY DEF InetTypeOK
  <2>4. ASSUME NEW t \in InetTask, Do(t) PROVE InetTyped'
    <3> DEFINE op == Head(inTodo[t])
    <3>1. op \in InetOps /\ Tail(inTodo[t]) \in Seq(InetOps)
      BY <2>4 DEF Do
    <3>2. inTodo' \in [InetTask -> Seq(InetOps)]
      BY <2>4, <3>1 DEF Do
    <3>3. Effect(op) /\ {inManual', inStale'} \subseteq BOOLEAN
      BY <2>4 DEF Do, Effect, Settles, InetTypeOK
    <3> HIDE DEF op
    <3>4. CASE OnServices(op) /\ UNCHANGED <<inSetup, inWifi>>
      <4>1. inSvc' \subseteq Services /\ inHttp' \in {"off", "plain", "secure"}
            /\ inBroker' \in BOOLEAN /\ inFlag' \in {"none", "sta", "ap"}
        BY <3>1, <3>4, OpKinds
        DEF OnServices, OtaStops, MqttStarts, HttpStarts, InetTypeOK, Services
      <4> QED BY <2>2, <3>2, <3>3, <3>4, <4>1 DEF Effect, inSetup, inWifi, InetTypeOK
    <3>5. CASE OnSetup(op) /\ UNCHANGED <<inCfg, inRestart, inServices, inWifi>>
      <4>1. {inHandlers', inCallback', inUp'} \subseteq BOOLEAN
        BY <3>1, <3>5, OpKinds DEF OnSetup, InetTypeOK
      <4> QED BY <2>2, <3>2, <3>3, <3>5, <4>1 DEF Effect, inServices, inWifi, InetTypeOK
    <3>6. CASE OnWifi(op) /\ UNCHANGED <<inSetup, inServices, inBits>>
      <4>1. inMode' \in {"none", "idle", "sta", "ap"} /\ inReady' \in BOOLEAN
        BY <3>1, <3>6, OpKinds DEF OnWifi, InetTypeOK
      <4> QED BY <2>2, <3>2, <3>3, <3>6, <4>1 DEF Effect, inServices, inSetup, InetTypeOK
    <3> QED BY <3>3, <3>4, <3>5, <3>6 DEF Effect
  <2>5. CASE TakeBits
    <3>1. inTodo' \in [InetTask -> Seq(InetOps)]
      BY <2>1, <2>3, <2>5, CallsTyped DEF TakeBits
    <3> QED BY <2>2, <2>5, <3>1 DEF TakeBits, Overlaps, inSetup, inServices, InetTypeOK
  <2>6. CASE Interval
    <3>1. inTodo' \in [InetTask -> Seq(InetOps)]
      BY <2>1, <2>3, <2>6, CallsTyped DEF Interval
    <3> QED BY <2>2, <2>6, <3>1 DEF Interval, Overlaps, inSetup, inWifi, inServices, InetTypeOK
  <2>7. ASSUME NEW m \in {"sta", "ap"}, Switch(m) PROVE InetTyped'
    <3>1. inTodo' \in [InetTask -> Seq(InetOps)]
      BY <2>1, <2>3, <2>7, CallsTyped DEF Switch
    <3> QED BY <2>2, <2>7, <3>1 DEF Switch, Overlaps, inSetup, inWifi, inServices, InetTypeOK
  <2>8. CASE Command
    <3>1. PICK op \in CommandOps : Call(<<op>>)
      BY <2>8 DEF Command, CommandOps, ConfiguredHttp
    <3>2. inTodo' \in [InetTask -> Seq(InetOps)]
      BY <2>1, <2>3, <3>1, CallsTyped
    <3> QED BY <2>2, <2>8, <3>2 DEF Command, Overlaps, inSetup, inWifi, inServices, InetTypeOK
  <2>9. CASE Adapter
    <3>1. inTodo' \in [InetTask -> Seq(InetOps)]
      BY <2>1, <2>3, <2>9, CallsTyped DEF Adapter
    <3> QED BY <2>2, <2>9, <3>1 DEF Adapter, Overlaps, inSetup, inWifi, inServices, InetTypeOK
  <2>10. CASE ApTimeout
    <3>1. (IF inCallback THEN StopServices ELSE <<>>) \o << <<"wifi", "sta">> >> \in Seq(InetOps)
      BY <2>3, CallsTyped
    <3>2. inTodo' \in [InetTask -> Seq(InetOps)]
      BY <2>10, <3>1 DEF ApTimeout
    <3> QED BY <2>2, <2>10, <3>2 DEF ApTimeout, Overlaps, inSetup, inWifi, inServices, InetTypeOK
  <2>11. CASE BecomesReady \/ LosesLink \/ MqttGivesUp
    BY <2>11
    DEF BecomesReady, LosesLink, MqttGivesUp, Announce, inSetup, inWifi, inServices, InetTypeOK
  <2>12. CASE RestartBegins
    BY <2>12 DEF RestartBegins, inWifi, InetTypeOK
  <2>13. CASE StartsAgain
    <3>1. inTodo' = none
      BY <2>13 DEF StartsAgain, none
    <3> QED BY <1>0, <2>13, <3>1 DEF StartsAgain, InetTypeOK
  <2>14. CASE UNCHANGED inetVars
    BY <2>14 DEF inetVars, InetTypeOK
  <2> QED BY <2>4, <2>5, <2>6, <2>7, <2>8, <2>9, <2>10, <2>11, <2>12, <2>13, <2>14 DEF InetNext
<1> QED BY <1>1, <1>2, PTL DEF InetSpec

-----------------------------------------------------------------------------
(* Together                                                                  *)

(* The modules share no state, so a behaviour of all is one of each.         *)
THEOREM NetworkParts ==
  Spec => WifiSpec /\ InetSpec /\ EthernetSpec /\ MonitorSpec /\ EspNowSpec
<1>1. Init => WifiInit /\ InetInit /\ EthernetInit /\ MonitorInit /\ EspNowInit
  BY DEF Init
<1> DEFINE Step == WifiStep \/ InetStep \/ EthernetStep \/ MonitorStep \/ RadioAdapterStep
<1>2. [Step]_networkVars => [WifiNext]_wifiVars
  BY DEF networkVars, WifiStep, InetStep, EthernetStep, MonitorStep, RadioAdapterStep
<1>3. [Step]_networkVars => [InetNext]_inetVars
  BY DEF networkVars, WifiStep, InetStep, EthernetStep, MonitorStep, RadioAdapterStep
<1>4. [Step]_networkVars => [EthernetNext]_ethernetVars
  BY DEF networkVars, WifiStep, InetStep, EthernetStep, MonitorStep, RadioAdapterStep
<1>5. [Step]_networkVars => [MonitorNext]_monitorVars
  BY DEF networkVars, WifiStep, InetStep, EthernetStep, MonitorStep, RadioAdapterStep
<1>6. [Step]_networkVars => [EspNowNext]_espNowVars
  BY DEF networkVars, WifiStep, InetStep, EthernetStep, MonitorStep, RadioAdapterStep
<1> QED BY <1>1, <1>2, <1>3, <1>4, <1>5, <1>6, PTL
        DEF Spec, WifiSpec, InetSpec, EthernetSpec, MonitorSpec, EspNowSpec

(* So every variable of the five has the type of its C counterpart.          *)
THEOREM NetworkTypes == Spec => []NetTypesOK
<1>1. WifiInv => WifiTypeOK
  BY DEF WifiInv, WifiShape
<1>2. InetTyped => InetTypeOK
  BY DEF InetTyped
<1>3. EthernetInv => EthernetTypeOK
  BY DEF EthernetInv
<1>4. EspNowInv => EspNowTypeOK
  BY DEF EspNowInv
<1>5. WifiTypeOK /\ InetTypeOK /\ EthernetTypeOK /\ MonitorTypeOK /\ EspNowTypeOK => NetTypesOK
  BY DEF NetTypesOK
<1> QED BY <1>1, <1>2, <1>3, <1>4, <1>5, NetworkParts, WifiInvariant, InetTypes,
           EthernetInvariant, MonitorInvariant, EspNowInvariant, PTL

(* And what is proved of each holds of them together.                        *)
THEOREM NetworkSafe ==
  Spec => /\ []AbortNeedsRace /\ []ApWatched /\ []ServicesMatchMode /\ []AllOrNothing
          /\ []ServicesFollowLink /\ []MonitorSafe /\ []RadioFollowsAdapter
  BY NetworkParts, WifiAborts, WifiApWatched, InetServices, EthernetAllOrNothing,
     EthernetServices, MonitorIsSafe, RadioFollows, PTL
================================================================================
