------------------------------- MODULE MCOutputs -------------------------------
(* The adapters that drive outputs, and the registry of what adapters        *)
(* report, checked together.  The modules share no state, so a behaviour of  *)
(* all is one of each alone; device says which one acts.                     *)
EXTENDS Switch, Light, Led, Neopixel, TeleRegistry, TLC

VARIABLE device
allVars == <<device, swVars, lightVars, ledVars, neopixelVars, teleVars>>

CONSTANTS ListA, ListB
MCSwitchCount == ListA :> 2 @@ ListB :> 1

Color == [color |-> TRUE, cold |-> FALSE, warm |-> FALSE, relay |-> FALSE]
ColorCct == [color |-> TRUE, cold |-> TRUE, warm |-> TRUE, relay |-> FALSE]
Relay == [color |-> FALSE, cold |-> FALSE, warm |-> FALSE, relay |-> TRUE]
MCLightList == {<<Color>>, <<ColorCct>>, <<Relay>>}

(* Two adapters, and an array that is too short for all.                     *)
MCCoreTele == <<"up">>
MCTeleGroup == {<<"led">>, <<"relay", "power">>}

Init == /\ device \in {"switch", "light", "led", "neopixel", "telemetry"}
        /\ SwitchInit /\ LightInit /\ LedInit /\ NeopixelInit
        /\ TeleInit

SwitchStep ==
  /\ device = "switch" /\ SwitchNext
  /\ UNCHANGED <<device, lightVars, ledVars, neopixelVars, teleVars>>
LightStep ==
  /\ device = "light" /\ LightNext
  /\ UNCHANGED <<device, swVars, ledVars, neopixelVars, teleVars>>
LedStep ==
  /\ device = "led" /\ LedNext
  /\ UNCHANGED <<device, swVars, lightVars, neopixelVars, teleVars>>
NeopixelStep ==
  /\ device = "neopixel" /\ NeopixelNext
  /\ UNCHANGED <<device, swVars, lightVars, ledVars, teleVars>>
TelemetryStep ==
  /\ device = "telemetry" /\ TeleNext
  /\ UNCHANGED <<device, swVars, lightVars, ledVars, neopixelVars>>

Spec == Init /\ [][\/ SwitchStep \/ LightStep \/ LedStep \/ NeopixelStep
                   \/ TelemetryStep]_allVars

(* Every variable of the five modules has the type of its C counterpart.     *)
TypesOK == SwitchTypeOK /\ LightTypeOK /\ LedTypeOK /\ NeopixelTypeOK /\ TeleTypeOK
================================================================================
