------------------------------- MODULE MCNetwork -------------------------------
(* The network side, checked together: the Wi-Fi wrapper, the adapters over  *)
(* Wi-Fi and over Ethernet, the log monitor and the ESP-NOW radio.  The      *)
(* modules share no state, so a behaviour of all is one of each alone;       *)
(* device says which one acts.                                               *)
EXTENDS Wifi, Inet, Ethernet, TcpMonitor, EspNow

VARIABLE device
networkVars == <<device, wifiVars, inetVars, ethernetVars, monitorVars, espNowVars>>

(* Safe mode; certificates that only the access point uses; and none, with   *)
(* the server configured to need them.                                       *)
MCInetConfig == {[safe |-> TRUE, secure |-> FALSE, certs |-> TRUE],
                 [safe |-> FALSE, secure |-> FALSE, certs |-> TRUE],
                 [safe |-> FALSE, secure |-> TRUE, certs |-> FALSE]}
AnyConfig == CHOOSE c \in MCInetConfig : TRUE

Init == /\ device \in {"wifi", "inet", "ethernet", "monitor", "radio"}
        /\ WifiInit /\ InetInit /\ EthernetInit /\ MonitorInit /\ EspNowInit
        /\ device # "inet" => inCfg = AnyConfig
        /\ device # "ethernet" => etBackend = "w5500"

WifiStep ==
  /\ device = "wifi" /\ WifiNext
  /\ UNCHANGED <<device, inetVars, ethernetVars, monitorVars, espNowVars>>
InetStep ==
  /\ device = "inet" /\ InetNext
  /\ UNCHANGED <<device, wifiVars, ethernetVars, monitorVars, espNowVars>>
EthernetStep ==
  /\ device = "ethernet" /\ EthernetNext
  /\ UNCHANGED <<device, wifiVars, inetVars, monitorVars, espNowVars>>
MonitorStep ==
  /\ device = "monitor" /\ MonitorNext
  /\ UNCHANGED <<device, wifiVars, inetVars, ethernetVars, espNowVars>>
RadioAdapterStep ==
  /\ device = "radio" /\ EspNowNext
  /\ UNCHANGED <<device, wifiVars, inetVars, ethernetVars, monitorVars>>

Spec == Init /\ [][\/ WifiStep \/ InetStep \/ EthernetStep \/ MonitorStep
                   \/ RadioAdapterStep]_networkVars

(* Every variable of the five has the type of its C counterpart.             *)
NetTypesOK == WifiTypeOK /\ InetTypeOK /\ EthernetTypeOK /\ MonitorTypeOK /\ EspNowTypeOK
================================================================================
