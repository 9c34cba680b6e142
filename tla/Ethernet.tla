-------------------------------- MODULE Ethernet --------------------------------
(***************************************************************************)
(* The internet adapter over Ethernet, with the driver wrapper and its two *)
(* backends: what an initialisation acquires step by step, what it gives   *)
(* back when a step fails, and the services that follow the link.          *)
(*                                                                         *)
(* All of it runs on the supervisor's task, but the link's events, which   *)
(* set bits the supervisor takes later.  What the driver and the netif do  *)
(* is external.  Services that are started run; the commands that switch   *)
(* single services, and safe mode, are those of Inet.tla and left out.     *)
(*                                                                         *)
(* A definition Name_Fault, before the definition Name, is Name with a     *)
(* fault seeded; nothing uses it but the mutants of PROJECT.json.          *)
(***************************************************************************)
EXTENDS Sequences, FiniteSets

VARIABLES
  etBackend, \* the backend built in: "w5500" or "emac"
  etHeld,    \* what exists: bus, MAC, PHY, driver, netif, glue
  etRunning, \* the driver is started
  etHandle,  \* s_eth_handle is set
  etReady,   \* ethernet.c's initialized
  etUp,      \* inet_ethernet.c's initialized
  etEvents,  \* inet_ethernet_netif_event_handler is registered
  etTodo,    \* what is left of an initialisation or a shutdown
  etLink,    \* the link: "down", "up", or "ip" if it has an address
  etDhcp,    \* the netif's DHCP client is started
  etBits,    \* INET_ETH_READY and INET_ETH_LOST, not yet taken
  etSvc,     \* the services that run
  etServing, \* services_running
  etMixed,   \* history: the last bits taken were not those of the link's last
             \* change alone
  etLeaked   \* history: a driver could not be uninstalled

etDriver == <<etHeld, etRunning, etHandle, etReady, etLeaked>>
etAdapter == <<etUp, etEvents>>
etNetwork == <<etLink, etDhcp, etBits>>
etServed == <<etSvc, etServing, etMixed>>
ethernetVars == <<etBackend, etDriver, etAdapter, etTodo, etNetwork, etServed>>

Parts == {"bus", "mac", "phy", "driver", "netif", "glue"}
Stoppable == {"ota", "monitor", "mdns", "sntp", "mqtt"}

EthernetTypeOK ==
  /\ etBackend \in {"w5500", "emac"} /\ etHeld \subseteq Parts
  /\ {etRunning, etHandle, etReady, etUp, etEvents, etDhcp, etServing, etMixed, etLeaked}
       \subseteq BOOLEAN
  /\ etLink \in {"down", "up", "ip"} /\ etBits \subseteq {"ready", "lost"}
  /\ etSvc \subseteq Stoppable \cup {"http"}

EthernetInit ==
  /\ etBackend \in {"w5500", "emac"} /\ etHeld = {} /\ etRunning = FALSE
  /\ etHandle = FALSE /\ etReady = FALSE /\ etUp = FALSE /\ etEvents = FALSE
  /\ etTodo = <<>> /\ etLink = "down" /\ etDhcp = FALSE /\ etBits = {}
  /\ etSvc = {} /\ etServing = FALSE /\ etMixed = FALSE /\ etLeaked = FALSE

-----------------------------------------------------------------------------
(* Initialisation and shutdown, as lists of steps                           *)

(* The adapter's handlers, then ethernet_init with the backend's own steps. *)
InitSteps ==
  << <<"handlers", TRUE>> >>
  \o (IF etBackend = "w5500" THEN << <<"get", "bus">> >> ELSE <<>>)
  \o << <<"get", "mac">>, <<"get", "phy">>, <<"get", "driver">>, <<"get", "netif">>,
        <<"get", "glue">>, <<"attach">>, <<"start">>, <<"up">> >>

(* w5500_backend_shutdown, esp_emac_backend_shutdown.                       *)
BackendSteps == << <<"uninstall">> >>

(* What a failing step gives back, in order.  A bus that was initialised    *)
(* stays, and the next initialisation takes it over.                        *)
Rollback_KeepsNetif(step) ==
  CASE step = <<"get", "driver">> -> << <<"put", "phy">>, <<"put", "mac">> >>
    [] step = <<"get", "phy">> -> << <<"put", "mac">> >>
    [] step \in {<<"get", "netif">>, <<"get", "glue">>} -> BackendSteps
    [] step \in {<<"attach">>, <<"start">>} ->
         << <<"put", "glue">>, <<"put", "netif">> >> \o BackendSteps
    [] OTHER -> <<>>
Rollback(step) ==
  CASE step = <<"get", "driver">> -> << <<"put", "phy">>, <<"put", "mac">> >>
    [] step = <<"get", "phy">> -> << <<"put", "mac">> >>
    [] step = <<"get", "netif">> -> BackendSteps
    [] step = <<"get", "glue">> -> << <<"put", "netif">> >> \o BackendSteps
    [] step \in {<<"attach">>, <<"start">>} ->
         << <<"put", "glue">>, <<"put", "netif">> >> \o BackendSteps
    [] OTHER -> <<>>

(* inet_ethernet_adapter_shutdown with ethernet_shutdown.                   *)
ShutdownSteps ==
  << <<"handlers", FALSE>>, <<"services">>, <<"stop">>, <<"put", "glue">>, <<"put", "netif">> >>
  \o BackendSteps \o << <<"down">> >>

-----------------------------------------------------------------------------
(* A step succeeds, or one that may fail does                               *)

Get(part) == etHeld' = etHeld \cup {part} /\ etHandle' = (etHandle \/ part = "driver")

StopServing == /\ etSvc' = IF etServing THEN etSvc \ Stoppable ELSE etSvc
               /\ etServing' = FALSE

StepDone ==
  /\ etTodo # <<>>
  /\ LET step == Head(etTodo) IN
     /\ etTodo' = Tail(etTodo)
     /\ \/ /\ step[1] = "handlers"
           /\ etEvents' = step[2] /\ UNCHANGED <<etDriver, etUp, etServed, etNetwork>>
        \/ /\ step[1] = "get"
           /\ Get(step[2])
           /\ UNCHANGED <<etRunning, etReady, etLeaked, etAdapter, etServed, etNetwork>>
        \/ /\ step[1] = "put"
           /\ etHeld' = etHeld \ {step[2]}
           /\ etDhcp' = (etDhcp /\ step[2] # "netif")
           /\ UNCHANGED <<etRunning, etHandle, etReady, etLeaked, etAdapter, etServed,
                          etLink, etBits>>
        \/ /\ step[1] = "attach"
           /\ UNCHANGED <<etDriver, etAdapter, etServed, etNetwork>>
        \/ /\ step[1] \in {"start", "stop"}
           /\ etRunning' = (step[1] = "start")
           /\ etLink' = "down"
           /\ UNCHANGED <<etHeld, etHandle, etReady, etLeaked, etAdapter, etServed, etDhcp, etBits>>
        \/ /\ step[1] = "uninstall"
           /\ etHandle' = FALSE
           /\ \/ /\ etHeld' = etHeld \ {"driver", "mac", "phy", "bus"}
                 /\ UNCHANGED etLeaked
              \/ UNCHANGED etHeld /\ etLeaked' = TRUE
           /\ UNCHANGED <<etRunning, etReady, etAdapter, etServed, etNetwork>>
        \/ /\ step[1] = "services"
           /\ StopServing
           /\ UNCHANGED <<etDriver, etAdapter, etMixed, etNetwork>>
        \/ /\ step[1] \in {"up", "down"}
           /\ etReady' = (step[1] = "up") /\ etUp' = (step[1] = "up")
           /\ UNCHANGED <<etHeld, etRunning, etHandle, etLeaked, etEvents, etServed, etNetwork>>
  /\ UNCHANGED etBackend

StepFails ==
  /\ etTodo # <<>> /\ Head(etTodo)[1] \in {"get", "attach", "start"}
  /\ etTodo' = Rollback(Head(etTodo)) \o << <<"handlers", FALSE>> >>
  /\ UNCHANGED <<etBackend, etDriver, etAdapter, etNetwork, etServed>>

-----------------------------------------------------------------------------
(* The supervisor's calls                                                   *)

(* The adapter's init and shutdown.                                         *)
SwitchAdapter ==
  /\ etTodo = <<>>
  /\ etTodo' = IF etUp THEN ShutdownSteps ELSE InitSteps
  /\ UNCHANGED <<etBackend, etDriver, etAdapter, etNetwork, etServed>>

(* inet_ethernet_adapter_on_event, with the adapter on or off: READY first, *)
(* and with a return if the services run.  The HTTP server is started here  *)
(* and stopped nowhere.                                                     *)
TakeEthBits_NeverStops ==
  /\ etTodo = <<>> /\ etBits # {}
  /\ etBits' = {}
  /\ etMixed' = (etBits # {IF etLink = "ip" THEN "ready" ELSE "lost"})
  /\ \/ /\ "ready" \in etBits /\ etServing
        /\ etSvc' = etSvc \cup {"mqtt"} /\ UNCHANGED etServing
     \/ /\ "ready" \in etBits /\ ~etServing
        /\ etServing' = TRUE
        /\ etSvc' = Stoppable \cup {"http"}
     \/ /\ "ready" \notin etBits
        /\ UNCHANGED <<etSvc, etServing>>
  /\ UNCHANGED <<etBackend, etDriver, etAdapter, etTodo, etLink, etDhcp>>
TakeEthBits ==
  /\ etTodo = <<>> /\ etBits # {}
  /\ etBits' = {}
  /\ etMixed' = (etBits # {IF etLink = "ip" THEN "ready" ELSE "lost"})
  /\ \/ /\ "ready" \in etBits /\ etServing
        /\ etSvc' = etSvc \cup {"mqtt"} /\ UNCHANGED etServing
     \/ /\ "ready" \in etBits /\ ~etServing
        /\ etServing' = ("lost" \notin etBits)
        /\ etSvc' = IF "lost" \in etBits THEN {"http"} ELSE Stoppable \cup {"http"}
     \/ /\ "ready" \notin etBits
        /\ StopServing
  /\ UNCHANGED <<etBackend, etDriver, etAdapter, etTodo, etLink, etDhcp>>

(* The MQTT client gives up, and the interval starts it again.              *)
Mqtt ==
  /\ \/ "mqtt" \in etSvc /\ etSvc' = etSvc \ {"mqtt"}
     \/ etTodo = <<>> /\ etServing /\ etSvc' = etSvc \cup {"mqtt"}
  /\ UNCHANGED <<etBackend, etDriver, etAdapter, etTodo, etNetwork, etServing, etMixed>>

-----------------------------------------------------------------------------
(* The link and its events                                                  *)

Posts(bits) == etBits' = IF etEvents THEN etBits \cup bits ELSE etBits

(* ETHERNET_EVENT_CONNECTED: the handler starts the DHCP client.            *)
LinkUp ==
  /\ etRunning /\ etLink = "down"
  /\ etLink' = "up" /\ etDhcp' = (etDhcp \/ (etEvents /\ "netif" \in etHeld))
  /\ UNCHANGED <<etBackend, etDriver, etAdapter, etTodo, etBits, etServed>>
GotIp ==
  /\ etRunning /\ etLink \in {"up", "ip"} /\ etDhcp
  /\ etLink' = "ip" /\ Posts({"ready"})
  /\ UNCHANGED <<etBackend, etDriver, etAdapter, etTodo, etDhcp, etServed>>
LinkDown ==
  /\ etRunning /\ etLink # "down"
  /\ etLink' = "down" /\ Posts({"lost"})
  /\ UNCHANGED <<etBackend, etDriver, etAdapter, etTodo, etDhcp, etServed>>

EthernetNext ==
  \/ StepDone \/ StepFails \/ SwitchAdapter \/ TakeEthBits \/ Mqtt
  \/ LinkUp \/ GotIp \/ LinkDown

EthernetSpec == EthernetInit /\ [][EthernetNext]_ethernetVars

-----------------------------------------------------------------------------
(* Whichever step of however many attempts fails, an initialisation leaves  *)
(* behind either everything, with the handlers registered, or nothing but   *)
(* the bus it takes over next time; and so does a shutdown, provided that   *)
(* the driver could be uninstalled.                                         *)
AllOrNothing ==
  etTodo = <<>> =>
    /\ \A b \in {etReady, etEvents, etHandle, etRunning} : etUp <=> b
    /\ ~etLeaked => etHeld \cap (Parts \ {"bus"}) = IF etUp THEN Parts \ {"bus"} ELSE {}

(* After every batch of bits that tells one change of the link, the         *)
(* services run exactly if the link has its address, and after a shutdown   *)
(* or a failed start they do not; whatever was merged into one batch, or    *)
(* came when the adapter was off (on_event does not test initialized),      *)
(* before that.                                                             *)
ServicesFollowLink ==
  etTodo = <<>> /\ etBits = {} /\ ~etMixed =>
    /\ etServing <=> etLink = "ip"
    /\ etSvc \ {"mqtt", "http"} = IF etServing THEN Stoppable \ {"mqtt"} ELSE {}
===============================================================================
