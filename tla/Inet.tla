---------------------------------- MODULE Inet ----------------------------------
(***************************************************************************)
(* The internet adapter over Wi-Fi and the services it starts and stops:   *)
(* on the supervisor's task for commands, events, intervals and the        *)
(* adapter's own shutdown, and on the access point's timeout task, which   *)
(* does not take network_transition_mutex.  (The supervisor's task alone   *)
(* takes it, so it never finds it taken, and it is left out.)              *)
(*                                                                         *)
(* A task's calls are a list of operations, done one by one.  Wi-Fi is     *)
(* what Wifi.tla models in detail: a mode, a link, and the events that     *)
(* announce them.  Broker and time servers are configured, and a service   *)
(* that is started runs; the MQTT client may give up by itself, and the    *)
(* HTTP server runs without TLS only where the code asks for that.         *)
(*                                                                         *)
(* A definition Name_Fault, before the definition Name, is Name with a     *)
(* fault seeded; nothing uses it but the mutants of PROJECT.json.          *)
(***************************************************************************)
EXTENDS Sequences

CONSTANT InetConfig  \* what may hold from one start of the device to the next

ASSUME InetAssumption ==
  InetConfig \subseteq [safe : BOOLEAN, secure : BOOLEAN, certs : BOOLEAN]

VARIABLES
  inCfg,      \* what holds since the device started: [safe: safe mode is
              \* active, secure: http_secure, certs: there are certificates]
  inUp,       \* initialized
  inHandlers, \* inet_netif_event_handler is registered
  inCallback, \* the AP timeout's and the restart callback are set
  inMode,     \* Wi-Fi: "none", "idle", "sta" or "ap"
  inReady,    \* the station has its address, or the access point started
  inBits,     \* readiness bits the supervisor has not taken yet
  inSvc,      \* the services that run, but HTTP
  inHttp,     \* the HTTP server: "off", "plain" or "secure"
  inBroker,   \* mqtt_configure was called
  inFlag,     \* "sta" or "ap" if sta_/ap_services_running is set, else "none"
  inTodo,     \* what is left of the calls of each task
  inRestart,  \* restart_pending
  inManual,   \* history: a command started or stopped a service of this mode
  inStale     \* history: since the supervisor last stopped the services, calls
              \* of both tasks overlapped, or a batch of readiness bits was
              \* taken that was not that of the mode Wi-Fi was in

inetVars == <<inCfg, inUp, inHandlers, inCallback, inMode, inReady, inBits, inSvc, inHttp,
              inBroker, inFlag, inTodo, inRestart, inManual, inStale>>
inWifi == <<inMode, inReady, inBits>>
inServices == <<inSvc, inHttp, inBroker, inFlag>>
inSetup == <<inCfg, inUp, inHandlers, inCallback, inRestart>>

InetTask == {"supervisor", "timeout"}
Services == {"ota", "monitor", "mdns", "sntp", "mqtt"}

InetTypeOK ==
  /\ inCfg \in InetConfig
  /\ {inUp, inHandlers, inCallback, inReady, inBroker, inRestart, inManual, inStale}
       \subseteq BOOLEAN
  /\ inMode \in {"none", "idle", "sta", "ap"} /\ inBits \subseteq {"sta", "ap"}
  /\ inSvc \subseteq Services /\ inHttp \in {"off", "plain", "secure"}
  /\ inFlag \in {"none", "sta", "ap"}
  /\ DOMAIN inTodo = InetTask

InetFresh ==
  /\ inUp = FALSE /\ inHandlers = FALSE /\ inCallback = FALSE
  /\ inMode = "none" /\ inReady = FALSE /\ inBits = {}
  /\ inSvc = {} /\ inHttp = "off" /\ inBroker = FALSE /\ inFlag = "none"
  /\ inTodo = [t \in InetTask |-> <<>>]
  /\ inRestart = FALSE /\ inManual = FALSE /\ inStale = FALSE
InetInit == inCfg \in InetConfig /\ InetFresh

-----------------------------------------------------------------------------
(* The calls, as lists of operations.                                       *)

(* inet_stop_services; mDNS stays.                                          *)
StopServices_KeepsFlags ==
  << <<"stop", "monitor">>, <<"stop", "mqtt">>, <<"stop_http">>, <<"stop", "sntp">>,
     <<"stop_ota">> >>
StopServices ==
  << <<"stop", "monitor">>, <<"stop", "mqtt">>, <<"stop_http">>, <<"stop", "sntp">>,
     <<"stop_ota">>, <<"flag", "none">> >>

ConfiguredHttp == IF inCfg.secure THEN "secure" ELSE "plain"

(* inet_adapter_on_event, for a batch of bits: the station first, which     *)
(* clears the flag of the access point, so that with both bits the services *)
(* of both are started.                                                     *)
Basic == << <<"start", "ota">>, <<"start", "monitor">> >>
StationServices ==
  Basic \o (IF inCfg.safe THEN <<>>
            ELSE << <<"start", "mdns">>, <<"start", "sntp">>, <<"broker">>, <<"mqtt">>,
                    <<"http", ConfiguredHttp>> >>)
        \o << <<"flag", "sta">> >>
ApServices ==
  Basic \o (IF inCfg.safe THEN <<>> ELSE << <<"http", "secure">>, <<"start", "mdns">> >>)
        \o << <<"flag", "ap">> >>
OnEvent(bits) ==
  IF "sta" \in bits /\ inFlag = "sta"
  THEN IF inCfg.safe THEN <<>> ELSE << <<"mqtt">> >>
  ELSE (IF "sta" \in bits THEN StationServices ELSE <<>>)
       \o (IF "ap" \in bits /\ ("sta" \in bits \/ inFlag # "ap") THEN ApServices ELSE <<>>)

(* inet_adapter_init and inet_adapter_shutdown.                             *)
StartAdapter ==
  << <<"configure">>, <<"callback", TRUE>>, <<"handlers", TRUE>>, <<"wifi", "sta">>, <<"up", TRUE>> >>
StopAdapter ==
  << <<"handlers", FALSE>> >> \o StopServices
  \o << <<"stop", "mdns">>, <<"callback", FALSE>>, <<"wifi", "none">>, <<"up", FALSE>> >>

-----------------------------------------------------------------------------
(* The effect of one operation                                              *)

(* http_init: it does nothing while there is a server.                      *)
HttpStarts(kind) ==
  inHttp' = IF inHttp # "off" \/ (kind = "secure" /\ ~inCfg.certs) THEN inHttp ELSE kind

(* mqtt_init: it does nothing without a broker.                             *)
MqttStarts == inSvc' = IF inBroker THEN inSvc \cup {"mqtt"} ELSE inSvc

(* tcp_ota_shutdown is left out once a restart is pending: it may be the    *)
(* OTA task that restarts.                                                  *)
OtaStops == inSvc' = IF inRestart THEN inSvc ELSE inSvc \ {"ota"}

OnServices(op) ==
  \/ op[1] = "start" /\ inSvc' = inSvc \cup {op[2]} /\ UNCHANGED <<inHttp, inBroker, inFlag>>
  \/ op[1] = "stop" /\ inSvc' = inSvc \ {op[2]} /\ UNCHANGED <<inHttp, inBroker, inFlag>>
  \/ op[1] = "stop_ota" /\ OtaStops /\ UNCHANGED <<inHttp, inBroker, inFlag>>
  \/ op[1] = "mqtt" /\ MqttStarts /\ UNCHANGED <<inHttp, inBroker, inFlag>>
  \/ op[1] = "http" /\ HttpStarts(op[2]) /\ UNCHANGED <<inSvc, inBroker, inFlag>>
  \/ op[1] = "stop_http" /\ inHttp' = "off" /\ UNCHANGED <<inSvc, inBroker, inFlag>>
  \/ op[1] = "broker" /\ inBroker' = TRUE /\ UNCHANGED <<inSvc, inHttp, inFlag>>
  \/ op[1] = "flag" /\ inFlag' = op[2] /\ UNCHANGED <<inSvc, inHttp, inBroker>>
OnSetup(op) ==
  \/ op[1] = "handlers" /\ inHandlers' = op[2] /\ UNCHANGED <<inCallback, inUp>>
  \/ op[1] = "callback" /\ inCallback' = op[2] /\ UNCHANGED <<inHandlers, inUp>>
  \/ op[1] = "up" /\ inUp' = op[2] /\ UNCHANGED <<inHandlers, inCallback>>
OnWifi(op) ==
  \/ /\ op[1] = "configure"
     /\ inMode' = IF inMode = "none" THEN "idle" ELSE inMode
     /\ UNCHANGED inReady
  \/ op[1] = "wifi" /\ inMode' = op[2] /\ inReady' = FALSE

Refused(op) == op[1] = "wifi" /\ inMode = "none"

Overlaps(t) == \E u \in InetTask \ {t} : inTodo[u] # <<>>

(* The services have been stopped, and what disturbed them before is over:  *)
(* only the supervisor's task starts any.                                   *)
Settles(t, op) ==
  op = <<"flag", "none">> /\ (~inStale \/ (t = "supervisor" /\ ~Overlaps(t)))

(* A task does its next operation.                                          *)
Do(t) ==
  /\ inTodo[t] # <<>>
  /\ LET op == Head(inTodo[t]) IN
       /\ ~Refused(op)
       /\ inTodo' = [inTodo EXCEPT ![t] = Tail(inTodo[t])]
       /\ inManual' = (inManual /\ ~Settles(t, op)) /\ inStale' = (inStale /\ ~Settles(t, op))
       /\ \/ OnServices(op) /\ UNCHANGED <<inSetup, inWifi>>
          \/ OnSetup(op) /\ UNCHANGED <<inCfg, inRestart, inServices, inWifi>>
          \/ OnWifi(op) /\ UNCHANGED <<inSetup, inServices, inBits>>

-----------------------------------------------------------------------------
(* The supervisor's task and the timeout task                               *)

Free == inTodo["supervisor"] = <<>>
Call(ops) == inTodo' = [inTodo EXCEPT !["supervisor"] = ops]

(* The supervisor takes the bits and calls the adapter, on or off.          *)
TakeBits ==
  /\ Free /\ inBits # {}
  /\ inBits' = {}
  /\ Call(OnEvent(inBits))
  /\ inStale' = (inStale \/ inBits # {inMode} \/ Overlaps("supervisor"))
  /\ UNCHANGED <<inSetup, inMode, inReady, inServices, inManual>>

(* inet_adapter_on_interval, every ten minutes, on or off; in safe mode the *)
(* supervisor does not forward its intervals.                               *)
Interval ==
  /\ Free /\ inFlag = "sta" /\ ~inCfg.safe
  /\ Call(<< <<"mqtt">> >>)
  /\ inStale' = (inStale \/ Overlaps("supervisor"))
  /\ UNCHANGED <<inSetup, inWifi, inServices, inManual>>

(* The commands ap and sta.                                                 *)
Switch(mode) ==
  /\ Free /\ inUp
  /\ Call(StopServices \o << <<"wifi", mode>> >>)
  /\ inStale' = (inStale \/ Overlaps("supervisor"))
  /\ UNCHANGED <<inSetup, inWifi, inServices, inManual>>

(* The commands http, sntp, ota and monitor.                                *)
Command ==
  /\ Free /\ inUp
  /\ \E op \in {<<"http", ConfiguredHttp>>, <<"stop_http">>}
               \cup {<<on, s>> : on \in {"start", "stop"}, s \in {"sntp", "ota", "monitor"}} :
       Call(<<op>>)
  /\ inManual' = TRUE
  /\ inStale' = (inStale \/ Overlaps("supervisor"))
  /\ UNCHANGED <<inSetup, inWifi, inServices>>

(* The adapter is switched on, which it refuses while Wi-Fi is connected,   *)
(* and off.                                                                 *)
Adapter ==
  /\ Free
  /\ \/ ~inUp /\ ~inReady /\ Call(StartAdapter)
     \/ inUp /\ Call(StopAdapter)
  /\ inStale' = (inStale \/ Overlaps("supervisor"))
  /\ UNCHANGED <<inSetup, inWifi, inServices, inManual>>

(* wifi_ap_timeout_task: the callback, then the station.                    *)
ApTimeout ==
  /\ inMode = "ap" /\ inReady /\ inTodo["timeout"] = <<>>
  /\ inTodo' = [inTodo EXCEPT !["timeout"] =
                  (IF inCallback THEN StopServices ELSE <<>>) \o << <<"wifi", "sta">> >>]
  /\ inStale' = (inStale \/ Overlaps("timeout"))
  /\ UNCHANGED <<inSetup, inWifi, inServices, inManual>>

-----------------------------------------------------------------------------
(* Wi-Fi's events, the MQTT client, and restarts                            *)

Announce == inBits' = IF inHandlers THEN inBits \cup {inMode} ELSE inBits
BecomesReady ==
  /\ inMode \in {"sta", "ap"} /\ ~inReady
  /\ inReady' = TRUE /\ Announce
  /\ UNCHANGED <<inSetup, inMode, inServices, inTodo, inManual, inStale>>
LosesLink ==
  /\ inMode = "sta" /\ inReady
  /\ inReady' = FALSE
  /\ UNCHANGED <<inSetup, inMode, inBits, inServices, inTodo, inManual, inStale>>
MqttGivesUp ==
  /\ "mqtt" \in inSvc
  /\ inSvc' = inSvc \ {"mqtt"}
  /\ UNCHANGED <<inSetup, inWifi, inHttp, inBroker, inFlag, inTodo, inManual, inStale>>

(* esp_safe_restart with inet_restart_cb, on the supervisor's or the OTA    *)
(* task; in safe mode it only resets the boot counter.                      *)
RestartBegins ==
  /\ ~inRestart
  /\ inRestart' = TRUE
  /\ inSvc' = IF inCallback /\ ~inCfg.safe THEN inSvc \ {"mqtt"} ELSE inSvc
  /\ UNCHANGED <<inCfg, inUp, inHandlers, inCallback, inWifi, inHttp, inBroker, inFlag,
                 inTodo, inManual, inStale>>

(* The device starts again: after a restart, or when the driver refuses a   *)
(* mode and ESP_ERROR_CHECK aborts.                                         *)
StartsAgain ==
  /\ inRestart \/ \E t \in InetTask : inTodo[t] # <<>> /\ Refused(Head(inTodo[t]))
  /\ inCfg' \in InetConfig
  /\ inUp' = FALSE /\ inHandlers' = FALSE /\ inCallback' = FALSE
  /\ inMode' = "none" /\ inReady' = FALSE /\ inBits' = {}
  /\ inSvc' = {} /\ inHttp' = "off" /\ inBroker' = FALSE /\ inFlag' = "none"
  /\ inTodo' = [t \in InetTask |-> <<>>]
  /\ inRestart' = FALSE /\ inManual' = FALSE /\ inStale' = FALSE

InetNext ==
  \/ \E t \in InetTask : Do(t)
  \/ TakeBits \/ Interval \/ Command \/ Adapter \/ ApTimeout
  \/ \E mode \in {"sta", "ap"} : Switch(mode)
  \/ BecomesReady \/ LosesLink \/ MqttGivesUp \/ RestartBegins \/ StartsAgain

InetSpec == InetInit /\ [][InetNext]_inetVars

-----------------------------------------------------------------------------
AtRestInet == \A t \in InetTask : inTodo[t] = <<>>
Undisturbed == AtRestInet /\ ~inStale /\ ~inManual /\ ~inRestart

(* Through every order of mode changes by command and by timeout, lost and  *)
(* regained links, and the adapter going off and on: once the readiness is  *)
(* handled the flag is that of the mode Wi-Fi is in, the services of that   *)
(* mode run and no other (mDNS may have stayed; MQTT may have given up),    *)
(* and the HTTP server is of the mode's kind.  In safe mode those services  *)
(* are only OTA and the monitor; an adapter that is off has none running.   *)
(* A late or mixed batch (those that an adapter which is off is handed, as  *)
(* on_event does not test initialized, are late) or an overlap with the     *)
(* timeout is excused until the services are stopped the next time, which   *)
(* must undo what it has left behind.                                       *)
ServicesMatchMode ==
  Undisturbed =>
    /\ inReady /\ inBits = {} => inFlag = inMode
    /\ inFlag # "none" => inFlag = inMode
    /\ LET on == inFlag # "none"  uplink == inFlag = "sta" /\ ~inCfg.safe
       IN  /\ inSvc \cap {"ota", "monitor"} = IF on THEN {"ota", "monitor"} ELSE {}
           /\ "sntp" \in inSvc <=> uplink
           /\ "mqtt" \in inSvc => uplink
           /\ on /\ ~inCfg.safe => "mdns" \in inSvc
           /\ inHttp = IF ~on \/ inCfg.safe THEN "off"
                        ELSE LET kind == IF uplink THEN ConfiguredHttp ELSE "secure"
                             IN  IF kind = "secure" /\ ~inCfg.certs THEN "off" ELSE kind
===============================================================================
