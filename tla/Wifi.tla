---------------------------------- MODULE Wifi ----------------------------------
(***************************************************************************)
(* The Wi-Fi driver wrapper: mode changes by the supervisor's task and by  *)
(* the access point's timeout task, the reconnect task, and the handler    *)
(* that the event loop's task runs for the driver's events.                *)
(*                                                                         *)
(* The driver, the network and the event loop are external.  A station     *)
(* association and its address are one event; the intervals between the    *)
(* attempts are left out, so a wait may end at any time.  A critical       *)
(* section is one step, and so are the driver calls of safe_wifi_stop and  *)
(* the destruction of the interfaces.  What an ESP_ERROR_CHECK refuses     *)
(* aborts the program, and the device starts again.  Names, addresses and  *)
(* the access point's DHCP server are left out.                            *)
(*                                                                         *)
(* A definition Name_Fault, before the definition Name, is Name with a     *)
(* fault seeded; nothing uses it but the mutants of PROJECT.json.          *)
(***************************************************************************)
EXTENDS Integers, Sequences

CONSTANTS
  RetryTasks,  \* the reconnect tasks there is memory for at once, 1..n
  ApSeconds,   \* CONFIG_WIFI_AP_INACTIVITY_TIMEOUT_MINUTES * 60
  EventMax     \* bound: the driver reports nothing by itself while so many
               \* events wait for the handler

ASSUME WifiAssumption ==
  RetryTasks \in Nat /\ ApSeconds \in Nat \ {0} /\ EventMax \in Nat \ {0}

Changer == {"supervisor", "timeout"}
Modes == {"sta", "ap"}
NoRetry == 0
Retry == 1..RetryTasks

VARIABLES
  wfDriver,   \* the driver: "none", or the mode it is in
  wfOn,       \* it is started
  wfLink,     \* the station: "down", "joining" or "up"
  wfEvents,   \* events that wait for the handler
  wfHandlers, \* wifi_event_handler is registered
  wfBits,     \* wifi_event_group
  wfIgnore,   \* ignore_sta_disconnect_event
  wfNetif,    \* the interfaces that exist: sta_netif, ap_netif
  wfHandle,   \* wifi_sta_connection_task_handle
  wfRetry,    \* where each reconnect task is; "gone" if there is none
  wfWatch,    \* where wifi_ap_timeout_task is; "none" if there is none
  wfSeconds,  \* ap_seconds_without_clients
  wfAt,       \* where the mode change of each changer is
  wfTo,       \* the mode it changes to, or "off"
  wfTaken,    \* sta_tmp_handle of each
  wfHad,      \* has_netif of each
  wfAborted,  \* an ESP_ERROR_CHECK failed
  wfRace,     \* history: since the device started two mode changes overlapped,
              \* or a disconnection that was not ignored came during one
  wfMissed    \* history: the last start of the access point was handled while
              \* the timeout task of the one before had only its handle to clear

wfDrv == <<wfDriver, wfOn, wfLink>>
wfRetries == <<wfHandle, wfRetry>>
wfAp == <<wfWatch, wfSeconds>>
wfChange == <<wfAt, wfTo, wfTaken, wfHad>>
wfEnd == <<wfAborted, wfRace, wfMissed>>
wifiVars == <<wfDrv, wfEvents, wfHandlers, wfBits, wfIgnore, wfNetif, wfRetries,
              wfAp, wfChange, wfEnd>>

WifiTypeOK ==
  /\ wfDriver \in Modes \cup {"none"} /\ wfLink \in {"down", "joining", "up"}
  /\ {wfOn, wfHandlers, wfIgnore, wfAborted, wfRace, wfMissed} \subseteq BOOLEAN
  /\ wfEvents \in Seq({"got_ip", "disconnected", "ap_start", "ap_stop", "client",
                       "client_left"})
  /\ wfBits \subseteq {"sta", "ap", "client", "shutdown"}
  /\ wfNetif \subseteq Modes
  /\ wfHandle \in Retry \cup {NoRetry}
  /\ wfRetry \in [Retry -> {"connect", "wait", "ending", "gone"}]
  /\ wfWatch \in {"none", "loop", "leave", "callback", "change", "ending"}
  /\ wfSeconds \in 0..ApSeconds
  /\ wfAt \in [Changer -> {"idle", "detach", "delete", "stop", "clear", "mode",
                           "start", "ensure", "deinit"}]
  /\ wfTo \in [Changer -> Modes \cup {"off"}]
  /\ wfTaken \in [Changer -> Retry \cup {NoRetry}] /\ wfHad \in [Changer -> BOOLEAN]

WifiInit ==
  /\ wfDriver = "none" /\ wfOn = FALSE /\ wfLink = "down"
  /\ wfEvents = <<>> /\ wfHandlers = FALSE /\ wfBits = {} /\ wfIgnore = FALSE
  /\ wfNetif = {} /\ wfHandle = NoRetry /\ wfRetry = [t \in Retry |-> "gone"]
  /\ wfWatch = "none" /\ wfSeconds = 0
  /\ wfAt = [c \in Changer |-> "idle"] /\ wfTo = [c \in Changer |-> "sta"]
  /\ wfTaken = [c \in Changer |-> NoRetry] /\ wfHad = [c \in Changer |-> FALSE]
  /\ wfAborted = FALSE /\ wfRace = FALSE /\ wfMissed = FALSE

Go(c, at) == wfAt' = [wfAt EXCEPT ![c] = at]
Changing(c) == wfAt[c] # "idle" \/ (c = "timeout" /\ wfWatch = "callback")
IsStation == wfDriver = "sta" /\ wfOn
(* The program is aborted, and what it had in memory is gone.               *)
Abort ==
  /\ wfAborted' = TRUE
  /\ wfDriver' = "none" /\ wfOn' = FALSE /\ wfLink' = "down"
  /\ wfEvents' = <<>> /\ wfHandlers' = FALSE /\ wfBits' = {} /\ wfIgnore' = FALSE
  /\ wfNetif' = {} /\ wfHandle' = NoRetry /\ wfRetry' = [t \in Retry |-> "gone"]
  /\ wfWatch' = "none" /\ wfSeconds' = 0
  /\ wfAt' = [c \in Changer |-> "idle"] /\ wfTo' = [c \in Changer |-> "sta"]
  /\ wfTaken' = [c \in Changer |-> NoRetry] /\ wfHad' = [c \in Changer |-> FALSE]
  /\ UNCHANGED <<wfRace, wfMissed>>

-----------------------------------------------------------------------------
(* wifi_sta_connection_task and what starts it.                             *)

(* wifi_sta_connection_task_ensure_running.                                 *)
EnsureRunning ==
  LET free == {t \in Retry : wfRetry[t] = "gone"} IN
  IF wfHandle = NoRetry /\ free # {}
  THEN \E t \in free :
         /\ \A u \in free : t <= u
         /\ wfHandle' = t /\ wfRetry' = [wfRetry EXCEPT ![t] = "connect"]
  ELSE UNCHANGED wfRetries

(* esp_wifi_disconnect and esp_wifi_connect.                                *)
RetryConnects(t) ==
  /\ wfRetry[t] = "connect"
  /\ \/ /\ ~IsStation
        /\ Abort
     \/ /\ IsStation
        /\ wfEvents' = IF wfLink = "down" THEN wfEvents ELSE Append(wfEvents, "disconnected")
        /\ wfLink' = "joining"
        /\ wfRetry' = [wfRetry EXCEPT ![t] = "wait"]
        /\ UNCHANGED <<wfDriver, wfOn, wfHandlers, wfBits, wfIgnore, wfNetif, wfHandle,
                       wfAp, wfChange, wfEnd>>

(* The wait for the bit ends with it, or with its time: seconds, in which   *)
(* the handler keeps up.                                                    *)
RetryWaits(t) ==
  /\ wfRetry[t] = "wait" /\ ("sta" \in wfBits \/ Len(wfEvents) < EventMax)
  /\ wfRetry' = [wfRetry EXCEPT ![t] = IF "sta" \in wfBits THEN "ending" ELSE "connect"]
  /\ UNCHANGED <<wfDrv, wfEvents, wfHandlers, wfBits, wfIgnore, wfNetif, wfHandle, wfAp,
                 wfChange, wfEnd>>
RetryEnds(t) ==
  /\ wfRetry[t] = "ending"
  /\ wfHandle' = NoRetry /\ wfRetry' = [wfRetry EXCEPT ![t] = "gone"]
  /\ UNCHANGED <<wfDrv, wfEvents, wfHandlers, wfBits, wfIgnore, wfNetif, wfAp, wfChange,
                 wfEnd>>

-----------------------------------------------------------------------------
(* wifi_init_ap_mode, wifi_init_sta_mode, wifi_shutdown and safe_wifi_stop. *)

Begin(c, to) ==
  /\ wfAt[c] = "idle"
  /\ Go(c, "detach") /\ wfTo' = [wfTo EXCEPT ![c] = to]
  /\ wfRace' = (wfRace \/ \E d \in Changer \ {c} : Changing(d))
  /\ CASE to = "ap" -> wfIgnore' = TRUE /\ UNCHANGED <<wfHandlers, wfBits>>
       [] to = "sta" -> wfIgnore' = ("sta" \in wfNetif) /\ UNCHANGED <<wfHandlers, wfBits>>
       [] to = "off" -> /\ wfHandlers' = FALSE /\ wfBits' = wfBits \cup {"shutdown"}
                        /\ UNCHANGED wfIgnore

(* The handle is taken under the lock.                                      *)
Detach(c) ==
  /\ wfAt[c] = "detach"
  /\ \/ /\ wfDriver = "none"
        /\ Go(c, IF wfTo[c] = "off" THEN "deinit" ELSE "mode")
        /\ UNCHANGED <<wfHad, wfTaken, wfRetries, wfSeconds>>
     \/ /\ wfDriver # "none"
        /\ wfHad' = [wfHad EXCEPT ![c] = wfNetif # {}]
        /\ \/ /\ wfNetif = {}
              /\ Go(c, "stop")
              /\ UNCHANGED <<wfTaken, wfRetries, wfSeconds>>
           \/ /\ wfNetif # {}
              /\ wfTaken' = [wfTaken EXCEPT ![c] = wfHandle] /\ wfHandle' = NoRetry
              /\ wfSeconds' = 0
              /\ Go(c, "delete")
              /\ UNCHANGED wfRetry
  /\ UNCHANGED <<wfDrv, wfEvents, wfHandlers, wfBits, wfIgnore, wfNetif, wfWatch, wfTo, wfEnd>>

(* vTaskDelete, outside the lock.  Of a task that has ended by itself since   *)
(* its handle was taken it deletes nothing here; what the call does with a   *)
(* handle that is no longer valid is not modelled.                           *)
Delete_Skipped(c) ==
  /\ wfAt[c] = "delete"
  /\ wfTaken' = [wfTaken EXCEPT ![c] = NoRetry]
  /\ Go(c, "stop")
  /\ UNCHANGED <<wfDrv, wfEvents, wfHandlers, wfBits, wfIgnore, wfNetif, wfRetries, wfAp,
                 wfTo, wfHad, wfEnd>>
Delete(c) ==
  /\ wfAt[c] = "delete"
  /\ wfRetry' = [t \in Retry |-> IF t = wfTaken[c] THEN "gone" ELSE wfRetry[t]]
  /\ wfTaken' = [wfTaken EXCEPT ![c] = NoRetry]
  /\ Go(c, "stop")
  /\ UNCHANGED <<wfDrv, wfEvents, wfHandlers, wfBits, wfIgnore, wfNetif, wfHandle, wfAp, wfTo,
                 wfHad, wfEnd>>

(* esp_wifi_disconnect and esp_wifi_stop.                                   *)
Stop(c) ==
  /\ wfAt[c] = "stop"
  /\ wfEvents' = IF wfDriver = "sta" /\ wfLink # "down" THEN Append(wfEvents, "disconnected")
                  ELSE IF wfDriver = "ap" /\ wfOn THEN Append(wfEvents, "ap_stop")
                  ELSE wfEvents
  /\ wfOn' = FALSE /\ wfLink' = "down"
  /\ Go(c, "clear")
  /\ UNCHANGED <<wfDriver, wfHandlers, wfBits, wfIgnore, wfNetif, wfRetries, wfAp, wfTo,
                 wfTaken, wfHad, wfEnd>>

(* The driver's confirmation or the end of the wait for it, and 200 ms more *)
(* for its packets; the handler keeps up with that.  Then the bits are      *)
(* cleared and the interfaces destroyed.                                    *)
Clear(c) ==
  /\ wfAt[c] = "clear" /\ wfEvents = <<>>
  /\ wfBits' = IF wfHad[c] THEN {} ELSE wfBits
  /\ wfHad' = [wfHad EXCEPT ![c] = FALSE]
  /\ wfNetif' = {}
  /\ Go(c, IF wfTo[c] = "off" THEN "deinit" ELSE "mode")
  /\ UNCHANGED <<wfDrv, wfEvents, wfHandlers, wfIgnore, wfRetries, wfAp, wfTo, wfTaken, wfEnd>>

(* The interface, and esp_wifi_set_mode.                                    *)
SetMode(c) ==
  /\ wfAt[c] = "mode"
  /\ \/ /\ wfDriver = "none"
        /\ Abort
     \/ /\ wfDriver # "none"
        /\ wfNetif' = wfNetif \cup {wfTo[c]}
        /\ wfDriver' = wfTo[c]
        /\ wfLink' = IF wfTo[c] = "ap" THEN "down" ELSE wfLink
        /\ Go(c, "start")
        /\ UNCHANGED <<wfOn, wfEvents, wfHandlers, wfBits, wfIgnore, wfRetries, wfAp, wfTo,
                       wfTaken, wfHad, wfEnd>>

(* esp_wifi_set_config, which needs the mode, and esp_wifi_start.           *)
StartDriver(c) ==
  /\ wfAt[c] = "start"
  /\ \/ /\ wfDriver # wfTo[c]
        /\ Abort
     \/ /\ wfDriver = wfTo[c]
        /\ wfOn' = TRUE
        /\ wfEvents' = IF wfTo[c] = "ap" THEN Append(wfEvents, "ap_start") ELSE wfEvents
        /\ Go(c, IF wfTo[c] = "sta" THEN "ensure" ELSE "idle")
        /\ wfTo' = [wfTo EXCEPT ![c] = "sta"]
        /\ UNCHANGED <<wfDriver, wfLink, wfHandlers, wfBits, wfIgnore, wfNetif, wfRetries,
                       wfAp, wfTaken, wfHad, wfEnd>>

Ensure(c) ==
  /\ wfAt[c] = "ensure"
  /\ EnsureRunning
  /\ Go(c, "idle")
  /\ UNCHANGED <<wfDrv, wfEvents, wfHandlers, wfBits, wfIgnore, wfNetif, wfAp, wfTo, wfTaken,
                 wfHad, wfEnd>>

Deinit(c) ==
  /\ wfAt[c] = "deinit"
  /\ wfDriver' = "none" /\ wfOn' = FALSE /\ wfLink' = "down"
  /\ Go(c, "idle") /\ wfTo' = [wfTo EXCEPT ![c] = "sta"]
  /\ UNCHANGED <<wfEvents, wfHandlers, wfBits, wfIgnore, wfNetif, wfRetries, wfAp, wfTaken,
                 wfHad, wfEnd>>

ChangeStep(c) ==
  \/ Detach(c) \/ Delete(c) \/ Stop(c) \/ Clear(c) \/ SetMode(c)
  \/ StartDriver(c) \/ Ensure(c) \/ Deinit(c)

-----------------------------------------------------------------------------
(* The supervisor's task: inet_adapter_init and its shutdown, and the       *)
(* commands ap and sta, which are registered in between.                    *)
Configure ==
  /\ wfAt["supervisor"] = "idle" /\ wfDriver = "none"
  /\ \/ /\ wfBits \cap {"sta", "ap"} # {}
        /\ UNCHANGED wifiVars
     \/ /\ wfBits \cap {"sta", "ap"} = {}
        /\ wfDriver' = "sta"
        /\ wfHandlers' = TRUE /\ wfBits' = wfBits \ {"shutdown"}
        /\ Go("supervisor", "detach") /\ wfTo' = [wfTo EXCEPT !["supervisor"] = "sta"]
        /\ wfIgnore' = ("sta" \in wfNetif)
        /\ wfRace' = (wfRace \/ Changing("timeout"))
        /\ UNCHANGED <<wfOn, wfLink, wfEvents, wfNetif, wfRetries, wfAp, wfTaken, wfHad,
                       wfAborted, wfMissed>>

ChangeMode ==
  /\ wfDriver # "none"
  /\ \E to \in Modes \cup {"off"} : Begin("supervisor", to)
  /\ UNCHANGED <<wfDrv, wfEvents, wfNetif, wfRetries, wfAp, wfTaken, wfHad, wfAborted, wfMissed>>

-----------------------------------------------------------------------------
(* wifi_ap_timeout_task.                                                    *)

WatchTick_NoLimit ==
  /\ wfWatch = "loop"
  /\ IF "ap" \notin wfBits THEN wfWatch' = "leave" /\ UNCHANGED wfSeconds
     ELSE /\ wfSeconds' = IF "client" \in wfBits THEN 0 ELSE wfSeconds + 1
          /\ UNCHANGED wfWatch
  /\ UNCHANGED <<wfDrv, wfEvents, wfHandlers, wfBits, wfIgnore, wfNetif, wfRetries, wfChange,
                 wfEnd>>
WatchTick ==
  /\ wfWatch = "loop"
  /\ IF "ap" \notin wfBits THEN wfWatch' = "leave" /\ UNCHANGED wfSeconds
     ELSE IF "client" \in wfBits THEN wfSeconds' = 0 /\ UNCHANGED wfWatch
     ELSE /\ wfSeconds' = IF wfSeconds < ApSeconds THEN wfSeconds + 1 ELSE wfSeconds
          /\ wfWatch' = IF wfSeconds + 1 >= ApSeconds THEN "leave" ELSE "loop"
  /\ UNCHANGED <<wfDrv, wfEvents, wfHandlers, wfBits, wfIgnore, wfNetif, wfRetries, wfChange,
                 wfEnd>>

(* The checks behind the loop, up to the callback.  Who has nothing to stop  *)
(* still has its handle to clear.                                            *)
WatchLeaves_BySeconds ==
  /\ wfWatch = "leave"
  /\ LET stops == wfSeconds >= ApSeconds /\ wfDriver # "sta" IN
       /\ wfWatch' = IF stops THEN "callback" ELSE "ending"
       /\ wfRace' = (wfRace \/ (stops /\ Changing("supervisor")))
  /\ UNCHANGED <<wfDrv, wfEvents, wfHandlers, wfBits, wfIgnore, wfNetif, wfRetries,
                 wfSeconds, wfChange, wfAborted, wfMissed>>
WatchLeaves ==
  /\ wfWatch = "leave"
  /\ LET stops == "ap" \in wfBits /\ wfDriver # "sta" IN
       /\ wfWatch' = IF stops THEN "callback" ELSE "ending"
       /\ wfRace' = (wfRace \/ (stops /\ Changing("supervisor")))
  /\ UNCHANGED <<wfDrv, wfEvents, wfHandlers, wfBits, wfIgnore, wfNetif, wfRetries,
                 wfSeconds, wfChange, wfAborted, wfMissed>>
WatchChanges ==
  /\ wfWatch = "callback"
  /\ Begin("timeout", "sta")
  /\ wfWatch' = "change"
  /\ UNCHANGED <<wfDrv, wfEvents, wfNetif, wfRetries, wfSeconds, wfTaken, wfHad, wfAborted,
                 wfMissed>>
WatchEnding == wfWatch = "ending" \/ (wfWatch = "change" /\ wfAt["timeout"] = "idle")
WatchEnds ==
  /\ WatchEnding
  /\ wfWatch' = "none"
  /\ UNCHANGED <<wfDrv, wfEvents, wfHandlers, wfBits, wfIgnore, wfNetif, wfRetries,
                 wfSeconds, wfChange, wfEnd>>

-----------------------------------------------------------------------------
(* wifi_event_handler, for the next event.                                  *)
Handle ==
  /\ wfEvents # <<>>
  /\ wfEvents' = Tail(wfEvents)
  /\ \/ /\ ~wfHandlers
        /\ UNCHANGED <<wfBits, wfIgnore, wfRetries, wfWatch, wfRace, wfMissed>>
     \/ /\ wfHandlers /\ Head(wfEvents) = "disconnected"
        /\ wfBits' = wfBits \ {"sta"}
        /\ wfIgnore' = FALSE
        /\ IF wfIgnore THEN UNCHANGED wfRetries ELSE EnsureRunning
        /\ wfRace' = (wfRace \/ (~wfIgnore /\ \E c \in Changer : Changing(c)))
        /\ UNCHANGED <<wfWatch, wfMissed>>
     \/ /\ wfHandlers /\ Head(wfEvents) = "ap_start"
        /\ wfBits' = (wfBits \cup {"ap"}) \ {"client"}
        /\ wfWatch' = IF wfWatch = "none" THEN "loop" ELSE wfWatch
        /\ wfMissed' = WatchEnding
        /\ UNCHANGED <<wfIgnore, wfRetries, wfRace>>
     \/ /\ wfHandlers /\ Head(wfEvents) \notin {"disconnected", "ap_start"}
        /\ wfBits' = CASE Head(wfEvents) = "got_ip" -> wfBits \cup {"sta"}
                       [] Head(wfEvents) = "ap_stop" -> wfBits \ {"ap"}
                       [] Head(wfEvents) = "client" -> wfBits \cup {"client"}
                       [] Head(wfEvents) = "client_left" -> wfBits \ {"client"}
        /\ UNCHANGED <<wfIgnore, wfRetries, wfWatch, wfRace, wfMissed>>
  /\ UNCHANGED <<wfDrv, wfHandlers, wfNetif, wfSeconds, wfChange, wfAborted>>

-----------------------------------------------------------------------------
(* What the driver reports by itself.                                       *)
Report(event) ==
  /\ Len(wfEvents) < EventMax
  /\ wfEvents' = Append(wfEvents, event)
  /\ UNCHANGED <<wfDriver, wfOn, wfHandlers, wfBits, wfIgnore, wfNetif, wfRetries, wfAp,
                 wfChange, wfEnd>>
Join == /\ IsStation /\ wfLink = "joining"
        /\ wfLink' = "up" /\ Report("got_ip")
LoseLink == /\ IsStation /\ wfLink # "down"
            /\ wfLink' = "down" /\ Report("disconnected")
Client == /\ wfDriver = "ap" /\ wfOn /\ UNCHANGED wfLink
          /\ Report("client") \/ Report("client_left")

(* The device starts again, from WifiInit; what follows is another behaviour. *)
Restarts == wfAborted /\ UNCHANGED wifiVars

WifiNext ==
  \/ /\ ~wfAborted
     /\ \/ \E t \in Retry : RetryConnects(t) \/ RetryWaits(t) \/ RetryEnds(t)
        \/ \E c \in Changer : ChangeStep(c)
        \/ Configure \/ ChangeMode
        \/ WatchTick \/ WatchLeaves \/ WatchChanges \/ WatchEnds
        \/ Handle
        \/ Join \/ LoseLink \/ Client
  \/ Restarts

WifiSpec == WifiInit /\ [][WifiNext]_wifiVars

-----------------------------------------------------------------------------
(* No driver call that is checked is refused, and the program not aborted,  *)
(* unless mode changes of two tasks overlapped or the station lost its link *)
(* in the middle of one: what taking the reconnect task's handle under the  *)
(* lock, and ignoring the disconnection the change itself causes, are for.  *)
AbortNeedsRace == wfAborted => wfRace

(* An access point that is known to be up has its inactivity timeout: when  *)
(* no change is going on, its task runs.  Excused is the access point whose *)
(* start was handled just as the task of the one before it was ending.      *)
AtRest == \A c \in Changer : wfAt[c] = "idle"
ApWatched ==
  "ap" \in wfBits /\ AtRest /\ ~wfRace => wfWatch # "none" \/ wfMissed

(* wifi.c:44 says of the reconnect task that it prevents constant retries   *)
(* and "allows for quick reconnection if the network returns soon": a       *)
(* station without a link, with no event left to handle, has the task.      *)
StationRetried ==
  IsStation /\ wfLink = "down" /\ wfEvents = <<>> /\ AtRest => wfHandle # NoRetry
===============================================================================
