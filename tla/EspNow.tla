--------------------------------- MODULE EspNow ---------------------------------
(***************************************************************************)
(* The ESP-NOW radio and the receiver adapter that uses it: an             *)
(* initialisation of which any step may fail, a shutdown that waits in the *)
(* middle, and the handler that sets the radio up anew when Wi-Fi starts.  *)
(*                                                                         *)
(* The adapter's calls run on the supervisor's task, the handler on the    *)
(* event loop's; registering and unregistering a handler wait for one that *)
(* runs.  Wi-Fi and ESP-NOW themselves are external.  wifi_minimal_mode,   *)
(* which nothing depends on, and the frames are left out.                  *)
(*                                                                         *)
(* A definition Name_Fault, before the definition Name, is Name with a     *)
(* fault seeded; nothing uses it but the mutants of PROJECT.json.          *)
(***************************************************************************)
EXTENDS Integers, Sequences

CONSTANT HandlerMax  \* bound: the adapter is not switched on while so many
                     \* handlers are registered

ASSUME EspNowAssumption == HandlerMax \in Nat \ {0}

VARIABLES
  enWifi,     \* Wi-Fi: "none", "off" if it is initialised, "on" if started
  enEvent,    \* its start is announced and waits for the handler
  enRef,      \* ref_count
  enReady,    \* the radio's initialized
  enStack,    \* ESP-NOW is initialised
  enCalls,    \* its callbacks are registered
  enHandlers, \* how often espnow_wifi_event_handler is registered
  enInstance, \* wifi_event_handler_instance is set
  enAt,       \* where the handler is: "idle", "init" or "register"
  enTodo,     \* what is left of the adapter's call
  enUp,       \* the adapter's initialized
  enListens,  \* esp_now_rx_event_handler is registered
  enFailed    \* history: the handler could not set the radio up

enWorld == <<enWifi, enEvent>>
enRadio == <<enRef, enReady, enStack, enCalls>>
enHandling == <<enHandlers, enInstance, enAt, enFailed>>
enAdapter == <<enUp, enListens>>
espNowVars == <<enWorld, enRadio, enHandling, enAdapter, enTodo>>

EspNowTypeOK ==
  /\ enWifi \in {"none", "off", "on"}
  /\ {enEvent, enReady, enStack, enCalls, enInstance, enUp, enListens, enFailed} \subseteq BOOLEAN
  /\ enRef \in 0..1 /\ enHandlers \in 0..HandlerMax
  /\ enAt \in {"idle", "init", "register"}

EspNowInit ==
  /\ enWifi = "none" /\ enEvent = FALSE
  /\ enRef = 0 /\ enReady = FALSE /\ enStack = FALSE /\ enCalls = FALSE
  /\ enHandlers = 0 /\ enInstance = FALSE /\ enAt = "idle" /\ enTodo = <<>>
  /\ enUp = FALSE /\ enListens = FALSE /\ enFailed = FALSE

-----------------------------------------------------------------------------
(* The adapter's calls, as lists of steps                                   *)

StartRx ==
  << "count", "wifi", "stack", "callbacks", "handler", "ready", "listen" >>

(* espnow_shutdown                                                          *)
ShutdownRadio_StackFirst == << "uncount", "uncallbacks", "deinit", "unhandle", "unready" >>
ShutdownRadio == << "uncount", "uncallbacks", "unhandle", "deinit", "unready" >>
StopRx == <<"unlisten">> \o ShutdownRadio \o <<"down">>

SwitchRx ==
  /\ enTodo = <<>>
  /\ \/ ~enUp /\ enHandlers < HandlerMax /\ enTodo' = StartRx
     \/ enUp /\ enTodo' = StopRx
  /\ UNCHANGED <<enWorld, enRadio, enHandling, enAdapter>>

-----------------------------------------------------------------------------
(* The next step succeeds, or one that may fail does                        *)

(* The count decides whether the rest is done at all.                       *)
Count ==
  \/ /\ Head(enTodo) = "count"
     /\ enRef' = enRef + 1
     /\ enTodo' = IF enRef = 0 THEN Tail(enTodo) ELSE <<"listen">>
  \/ /\ Head(enTodo) = "uncount"
     /\ enRef' = enRef - 1
     /\ enTodo' = IF enRef > 1 \/ ~enReady THEN IF enUp THEN <<"down">> ELSE <<>>
                  ELSE Tail(enTodo)

OnRadio(step) ==
  \/ step = "stack" /\ enStack' = TRUE /\ UNCHANGED <<enReady, enCalls>>
  \/ step = "callbacks" /\ enCalls' = TRUE /\ UNCHANGED <<enReady, enStack>>
  \/ step = "ready" /\ enReady' = TRUE /\ UNCHANGED <<enStack, enCalls>>
  \/ step = "uncallbacks" /\ enCalls' = FALSE /\ UNCHANGED <<enReady, enStack>>
  \/ step = "deinit" /\ enStack' = FALSE /\ enCalls' = FALSE /\ UNCHANGED enReady
  \/ step = "unready" /\ enReady' = FALSE /\ UNCHANGED <<enStack, enCalls>>

OnHandler(step) ==
  /\ enAt = "idle"
  /\ \/ step = "handler" /\ enHandlers' = enHandlers + 1 /\ enInstance' = TRUE
     \/ /\ step = "unhandle"
        /\ enHandlers' = IF enInstance THEN enHandlers - 1 ELSE enHandlers
        /\ enInstance' = FALSE

OnAdapter(step) ==
  \/ step = "listen" /\ enListens' = TRUE /\ enUp' = TRUE
  \/ step = "unlisten" /\ enListens' = FALSE /\ UNCHANGED enUp
  \/ step = "down" /\ enUp' = FALSE /\ UNCHANGED enListens

(* Wi-Fi that is not initialised is started, for the radio alone.           *)
MinimalWifi ==
  /\ Head(enTodo) = "wifi"
  /\ IF enWifi = "none" THEN enWifi' = "on" /\ enEvent' = TRUE ELSE UNCHANGED enWorld

RadioStep ==
  /\ enTodo # <<>>
  /\ \/ Count /\ UNCHANGED <<enWorld, enReady, enStack, enCalls, enHandling, enAdapter>>
     \/ /\ enTodo' = Tail(enTodo)
        /\ LET step == Head(enTodo) IN
             \/ MinimalWifi /\ UNCHANGED <<enRadio, enHandling, enAdapter>>
             \/ OnRadio(step) /\ UNCHANGED <<enWorld, enRef, enHandling, enAdapter>>
             \/ OnHandler(step) /\ UNCHANGED <<enWorld, enRadio, enAt, enFailed, enAdapter>>
             \/ OnAdapter(step) /\ UNCHANGED <<enWorld, enRadio, enHandling>>

(* espnow_init returns an error, which the adapter does not look at; only a *)
(* missing Wi-Fi handler is no error.  An adapter that cannot listen gives  *)
(* the radio back.                                                          *)
RadioFails ==
  /\ enTodo # <<>>
  /\ \/ /\ Head(enTodo) = "wifi"
        /\ enTodo' = <<"listen">>
        /\ enWifi' \in IF enWifi = "none" THEN {"none", "off"} ELSE {enWifi}
        /\ UNCHANGED <<enStack, enCalls>>
     \/ /\ Head(enTodo) \in {"stack", "callbacks"}
        /\ enTodo' = <<"listen">>
        /\ enStack' = FALSE /\ enCalls' = FALSE
        /\ UNCHANGED enWifi
     \/ /\ Head(enTodo) = "handler"
        /\ enTodo' = Tail(enTodo)
        /\ UNCHANGED <<enWifi, enStack, enCalls>>
     \/ /\ Head(enTodo) = "listen"
        /\ enTodo' = ShutdownRadio
        /\ UNCHANGED <<enWifi, enStack, enCalls>>
  /\ UNCHANGED <<enEvent, enRef, enReady, enHandling, enAdapter>>

-----------------------------------------------------------------------------
(* espnow_wifi_event_handler, and what Wi-Fi announces                      *)

WifiStarts ==
  /\ enWifi' = "on" /\ enEvent' = TRUE
  /\ UNCHANGED <<enRadio, enHandling, enAdapter, enTodo>>

Reinit ==
  /\ enEvent /\ enAt = "idle"
  /\ enEvent' = FALSE
  /\ \/ enHandlers = 0 /\ UNCHANGED <<enStack, enCalls, enAt>>
     \/ enHandlers > 0 /\ enStack' = FALSE /\ enCalls' = FALSE /\ enAt' = "init"
  /\ UNCHANGED <<enWifi, enRef, enReady, enHandlers, enInstance, enFailed, enAdapter, enTodo>>
ReinitStack ==
  /\ enAt = "init"
  /\ \/ enStack' = TRUE /\ enAt' = "register" /\ UNCHANGED <<enReady, enFailed>>
     \/ enReady' = FALSE /\ enFailed' = TRUE /\ enAt' = "idle" /\ UNCHANGED enStack
  /\ UNCHANGED <<enWorld, enRef, enCalls, enHandlers, enInstance, enAdapter, enTodo>>
ReinitCallbacks ==
  /\ enAt = "register"
  /\ enCalls' = TRUE /\ enAt' = "idle"
  /\ UNCHANGED <<enWorld, enRef, enReady, enStack, enHandlers, enInstance, enFailed, enAdapter,
                 enTodo>>

EspNowNext ==
  SwitchRx \/ RadioStep \/ RadioFails \/ WifiStarts \/ Reinit \/ ReinitStack \/ ReinitCallbacks

EspNowSpec == EspNowInit /\ [][EspNowNext]_espNowVars

-----------------------------------------------------------------------------
(* Between calls, whichever steps of however many initialisations failed    *)
(* and whenever Wi-Fi started, also in the pause of a shutdown: an adapter  *)
(* that is off has left neither the radio nor a handler nor a count behind, *)
(* and the radio is up with its callbacks exactly if it believes so.  (Once *)
(* the handler itself failed, a shutdown leaves it registered.)             *)
RadioFollowsAdapter ==
  enTodo = <<>> /\ enAt = "idle" /\ ~enFailed =>
    /\ enRef = IF enUp THEN 1 ELSE 0
    /\ enUp <=> enListens
    /\ ~enUp => ~enReady /\ enHandlers = 0
    /\ {enStack, enCalls} = {enReady}
===============================================================================
