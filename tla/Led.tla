---------------------------------- MODULE Led ----------------------------------
(***************************************************************************)
(* The LED adapter: dimmed LEDs, each with a brightness and the brightness *)
(* it was last on with, saved as two settings of the configuration manager *)
(* every 10 s, with crashes between the two writes, restarts of the device *)
(* and of the adapter.                                                     *)
(*                                                                         *)
(* A setter of the configuration manager changes its copy in RAM and then  *)
(* writes to NVS, which is external and may fail; the adapter ignores      *)
(* that.  The list of LEDs is fixed; pins, names, duties (set with the     *)
(* brightness, in the same call), fading and JSON are left out, and so are *)
(* setconf commands for the two settings.                                  *)
(*                                                                         *)
(* A definition Name_Fault, before the definition Name, is Name with a     *)
(* fault seeded; nothing uses it but the mutants of PROJECT.json.          *)
(***************************************************************************)
EXTENDS Integers

CONSTANTS
  LedId,      \* the LEDs
  Brightness, \* brightness arguments of a command, 0 for off
  LedNvsMayFail

Full == 255

ASSUME LedAssumption == Brightness \subseteq 0..Full /\ LedNvsMayFail \in BOOLEAN

VARIABLES
  ledRunning, \* led_initialized
  ledNow,     \* leds[i].brightness
  ledBack,    \* leds[i].last_brightness
  ledLast,    \* last_saved_state and last_saved_last_state
  ledDirty,   \* state_dirty
  ledCfg,     \* config_data.led_state and .led_last_state
  ledNvs,     \* the same in NVS
  ledSaving,  \* led_save_state is between its two setters; "no", or what
              \* called it: "interval" or "stop"
  ledSure     \* history: no NVS operation failed since a save, and no crash
              \* came between the two writes

ledVars == <<ledRunning, ledNow, ledBack, ledLast, ledDirty, ledCfg, ledNvs,
             ledSaving, ledSure>>

Duties == [LedId -> 0..Full]
Pair == [now : Duties, back : Duties]
AllOff == [i \in LedId |-> 0]
Cleared == [now |-> AllOff, back |-> AllOff]

LedTypeOK ==
  /\ {ledRunning, ledDirty, ledSure} \subseteq BOOLEAN
  /\ ledNow \in Duties /\ ledBack \in Duties
  /\ {ledLast, ledCfg, ledNvs} \subseteq Pair
  /\ ledSaving \in {"no", "interval", "stop"}

LedInit ==
  /\ ledRunning = FALSE /\ ledNow = AllOff /\ ledBack = AllOff
  /\ ledLast = Cleared /\ ledDirty = FALSE
  /\ ledCfg = Cleared /\ ledNvs = Cleared
  /\ ledSaving = "no" /\ ledSure = TRUE

(* The supervisor's task is not in the middle of a save.                    *)
Idle == ledSaving = "no"

(* parse_gpio_list, then led_restore_state from the configuration in RAM;   *)
(* if the timer cannot be configured in between, the LEDs keep what parsing *)
(* gave them.                                                               *)
StartLeds ==
  /\ Idle /\ ~ledRunning
  /\ \/ /\ ledNow' = ledCfg.now /\ ledBack' = ledCfg.back
        /\ ledLast' = ledCfg
        /\ ledRunning' = TRUE
     \/ /\ ledNow' = AllOff /\ ledBack' = [i \in LedId |-> Full]
        /\ UNCHANGED <<ledLast, ledRunning>>
  /\ UNCHANGED <<ledDirty, ledCfg, ledNvs, ledSaving, ledSure>>

(* led_save_state, up to its first setter, called by caller.                *)
SaveLeds_OnlyBrightness(caller) ==
  \/ /\ ledLast.now # ledNow
     /\ ledCfg' = [ledCfg EXCEPT !.now = ledNow]
     /\ \/ ledNvs' = [ledNvs EXCEPT !.now = ledNow] /\ UNCHANGED ledSure
        \/ LedNvsMayFail /\ ledSure' = FALSE /\ UNCHANGED ledNvs
     /\ ledSaving' = caller
     /\ UNCHANGED <<ledRunning, ledDirty>>
  \/ /\ ledLast.now = ledNow
     /\ ledRunning' = (ledRunning /\ caller # "stop")
     /\ ledDirty' = FALSE
     /\ UNCHANGED <<ledCfg, ledNvs, ledSaving, ledSure>>
SaveLeds(caller) ==
  \/ /\ ledLast # [now |-> ledNow, back |-> ledBack]
     /\ ledCfg' = [ledCfg EXCEPT !.now = ledNow]
     /\ \/ ledNvs' = [ledNvs EXCEPT !.now = ledNow] /\ UNCHANGED ledSure
        \/ LedNvsMayFail /\ ledSure' = FALSE /\ UNCHANGED ledNvs
     /\ ledSaving' = caller
     /\ UNCHANGED <<ledRunning, ledDirty>>
  \/ /\ ledLast = [now |-> ledNow, back |-> ledBack]
     /\ ledRunning' = (ledRunning /\ caller # "stop")
     /\ UNCHANGED <<ledDirty, ledCfg, ledNvs, ledSaving, ledSure>>

(* Its second setter, and the rest of it and of its caller.                 *)
SaveLedsEnd ==
  /\ ~Idle
  /\ ledCfg' = [ledCfg EXCEPT !.back = ledBack]
  /\ \/ ledNvs' = [ledNvs EXCEPT !.back = ledBack] /\ UNCHANGED ledSure
     \/ LedNvsMayFail /\ ledSure' = FALSE /\ UNCHANGED ledNvs
  /\ ledLast' = [now |-> ledNow, back |-> ledBack]
  /\ ledDirty' = FALSE
  /\ ledRunning' = (ledRunning /\ ledSaving # "stop")
  /\ ledSaving' = "no"
  /\ UNCHANGED <<ledNow, ledBack>>

StopLeds ==
  /\ Idle /\ ledRunning
  /\ SaveLeds("stop")
  /\ UNCHANGED <<ledNow, ledBack, ledLast>>

(* The 10 s stage, which does not ask whether the adapter runs.             *)
LedInterval ==
  /\ Idle /\ ledDirty
  /\ SaveLeds("interval")
  /\ UNCHANGED <<ledNow, ledBack, ledLast>>

(* led_set_brightness and led_fade_to.                                      *)
SetBrightness(i, b) ==
  /\ ledBack' = [ledBack EXCEPT ![i] = IF b > 0 THEN b ELSE @]
  /\ ledNow' = [ledNow EXCEPT ![i] = b]
  /\ ledDirty' = TRUE

(* led_turn_on.                                                             *)
TurnOn(i) == SetBrightness(i, IF ledBack[i] = 0 THEN Full ELSE ledBack[i])

(* led_handler: a number in range, on, off, or toggle.                      *)
CommandLed ==
  /\ Idle /\ ledRunning
  /\ \E i \in LedId :
       \/ \E b \in Brightness : SetBrightness(i, b)
       \/ TurnOn(i)
       \/ SetBrightness(i, 0)
       \/ /\ ledNow[i] > 0
          /\ SetBrightness(i, 0)
       \/ /\ ledNow[i] = 0
          /\ TurnOn(i)
  /\ UNCHANGED <<ledRunning, ledLast, ledCfg, ledNvs, ledSaving, ledSure>>

(* Any reset, in the middle of a save too; then config_manager_init, where  *)
(* reading may fail and gives the defaults.                                 *)
ResetLeds ==
  /\ ledRunning' = FALSE /\ ledNow' = AllOff /\ ledBack' = AllOff
  /\ ledLast' = Cleared /\ ledDirty' = FALSE
  /\ ledSaving' = "no"
  /\ \/ /\ ledCfg' = ledNvs
        /\ ledSure' = (ledSure /\ Idle)
     \/ /\ LedNvsMayFail
        /\ ledCfg' \in {Cleared, [ledNvs EXCEPT !.now = AllOff], [ledNvs EXCEPT !.back = AllOff]}
        /\ ledSure' = FALSE
  /\ UNCHANGED ledNvs

LedNext == \/ StartLeds \/ SaveLedsEnd \/ StopLeds \/ LedInterval \/ CommandLed
           \/ ResetLeds

LedSpec == LedInit /\ [][LedNext]_ledVars

-----------------------------------------------------------------------------
(* A lit LED comes on again as bright as it is, after it was turned off or  *)
(* the device was restarted (led.c:187, 216): last_brightness follows the   *)
(* brightness.  And when state_dirty is clear, NVS and the manager's copy   *)
(* hold both settings (led.c:113-127).  This is so over every early return, *)
(* unless a crash or NVS separated the two settings.                        *)
LedsKept ==
  ledRunning /\ ledSure =>
    /\ \A i \in LedId : ledNow[i] > 0 => ledBack[i] = ledNow[i]
    /\ Idle /\ ~ledDirty =>
         ledNvs = [now |-> ledNow, back |-> ledBack] /\ ledCfg = ledNvs
===============================================================================
