-------------------------------- MODULE Switch --------------------------------
(***************************************************************************)
(* The switch adapter: relays whose on/off states are kept in NVS, over    *)
(* restarts, power losses, switching the adapter off and on, updates that  *)
(* change the list of switches, and erasures of NVS.                       *)
(*                                                                         *)
(* A switch is its index in the list; the u16 bitmask is the set of the    *)
(* indices that are on, and a missing one reads as the empty set, as 0     *)
(* does.  Two lists have different fingerprints (no hash collision).  NVS  *)
(* is external: an operation on it may fail, and a set whose commit fails  *)
(* may or may not have reached the flash.  Names, pins and their levels    *)
(* (written with the state, in the same call), and the registration of     *)
(* commands (CommandDispatch) are left out.                                *)
(*                                                                         *)
(* A definition Name_Fault, before the definition Name, is Name with a     *)
(* fault seeded; nothing uses it but the mutants of PROJECT.json.          *)
(***************************************************************************)
EXTENDS Integers

CONSTANTS
  SwitchList,   \* the lists a build may configure (CONFIG_SWITCH_GPIO_LIST)
  SwitchCount,  \* SwitchCount[l]: number of switches in list l
  NoSwitchList, \* no fingerprint in NVS
  SwitchNvsMayFail

ASSUME SwitchListAssumption ==
  /\ SwitchCount \in [SwitchList -> Nat]
  /\ NoSwitchList \notin SwitchList
  /\ SwitchNvsMayFail \in BOOLEAN

VARIABLES
  swList,    \* CONFIG_SWITCH_GPIO_LIST of the running image
  swRunning, \* switch_initialized
  swOn,      \* the switches whose state is on
  swLast,    \* last_saved_state
  swPrint,   \* NVS: the fingerprint
  swSaved,   \* NVS: the state
  swAsked,   \* history: what the switches of this list were last told to be
  swSure     \* history: every NVS operation since the last save or restore
             \* that succeeded did so too, and the list is the same

swNvs == <<swPrint, swSaved>>
swVars == <<swList, swRunning, swOn, swLast, swPrint, swSaved, swAsked, swSure>>

Switches(l) == 1..SwitchCount[l]
Masks == UNION {SUBSET Switches(l) : l \in SwitchList}

SwitchTypeOK ==
  /\ swList \in SwitchList /\ swRunning \in BOOLEAN
  /\ swOn \in SUBSET Switches(swList)
  /\ swLast \in Masks /\ swSaved \in Masks
  /\ swPrint \in SwitchList \cup {NoSwitchList}
  /\ swAsked \in Masks /\ swSure \in BOOLEAN

SwitchInit ==
  /\ swList \in SwitchList /\ swRunning = FALSE
  /\ swOn = {} /\ swLast = {}
  /\ swPrint = NoSwitchList /\ swSaved = {}
  /\ swAsked = {} /\ swSure = TRUE

(* switch_save_state, of the states on.                                     *)
SaveSwitches(on) ==
  \/ /\ on = swLast
     /\ UNCHANGED <<swNvs, swLast, swSure>>
  \/ /\ on # swLast
     /\ swSaved' = on /\ swLast' = on
     /\ swSure' = (swPrint = swList)
     /\ UNCHANGED swPrint
  \/ /\ on # swLast /\ SwitchNvsMayFail
     /\ swSaved' \in {swSaved, on}
     /\ swSure' = FALSE
     /\ UNCHANGED <<swPrint, swLast>>

(* switch_restore_state, after the list was parsed.  After a mismatch the   *)
(* states stay off; only the fingerprint is written.                        *)
RestoreSwitches_ForgetsLast ==
  \/ /\ swPrint = swList
     /\ swOn' = swSaved \cap Switches(swList)
     /\ UNCHANGED <<swNvs, swLast, swAsked, swSure>>
  \/ /\ swPrint # swList
     /\ swPrint' = swList /\ swOn' = {}
     /\ swAsked' = {} /\ swSure' = (swSaved = {})
     /\ UNCHANGED <<swSaved, swLast>>
RestoreSwitches_AllBits ==
  \/ /\ swPrint = swList
     /\ swOn' = swSaved /\ swLast' = swSaved
     /\ UNCHANGED <<swNvs, swAsked, swSure>>
  \/ /\ swPrint # swList
     /\ swPrint' = swList /\ swOn' = {}
     /\ swAsked' = {} /\ swSure' = (swSaved = {})
     /\ UNCHANGED <<swSaved, swLast>>
RestoreSwitches ==
  \/ /\ swPrint = swList
     /\ swOn' = swSaved \cap Switches(swList)
     /\ swLast' = swSaved
     /\ UNCHANGED <<swNvs, swAsked, swSure>>
  \/ /\ swPrint # swList
     /\ swPrint' = swList /\ swOn' = {}
     /\ swAsked' = {} /\ swSure' = (swSaved = {} /\ swLast = {})
     /\ UNCHANGED <<swSaved, swLast>>
  \/ /\ SwitchNvsMayFail
     /\ swPrint' \in {swPrint, swList} /\ swOn' = {}
     /\ swAsked' = {} /\ swSure' = FALSE
     /\ UNCHANGED <<swSaved, swLast>>

(* switch_adapter_init.                                                     *)
StartSwitches ==
  /\ ~swRunning
  /\ RestoreSwitches
  /\ swRunning' = TRUE
  /\ UNCHANGED swList

StopSwitches ==
  /\ swRunning
  /\ swRunning' = FALSE
  /\ UNCHANGED <<swList, swOn, swLast, swNvs, swAsked, swSure>>

(* The command of switch i: on, off (also for what is neither) or toggle.   *)
SetSwitch(i, on) ==
  /\ swOn' = IF on THEN swOn \cup {i} ELSE swOn \ {i}
  /\ SaveSwitches(swOn')
  /\ swAsked' = swOn'
CommandSwitch ==
  /\ swRunning
  /\ \E i \in Switches(swList), state \in {"on", "off", "toggle"} :
       SetSwitch(i, IF state = "toggle" THEN i \notin swOn ELSE state = "on")
  /\ UNCHANGED <<swList, swRunning>>

(* The device restarts, for whatever reason; a new image may bring another  *)
(* list.                                                                    *)
ResetSwitches ==
  /\ swList' \in SwitchList
  /\ swRunning' = FALSE /\ swOn' = {} /\ swLast' = {}
  /\ UNCHANGED <<swNvs, swAsked, swSure>>

(* The resetconf command erases the NVS partition and restarts.             *)
EraseSwitches ==
  /\ swRunning
  /\ swPrint' = NoSwitchList /\ swSaved' = {}
  /\ swAsked' = {} /\ swSure' = TRUE
  /\ swRunning' = FALSE /\ swOn' = {} /\ swLast' = {}
  /\ UNCHANGED swList

SwitchNext == \/ StartSwitches \/ StopSwitches \/ CommandSwitch
              \/ ResetSwitches \/ EraseSwitches

SwitchSpec == SwitchInit /\ [][SwitchNext]_swVars

-----------------------------------------------------------------------------
(* A switch is in the state that it was last told to be in, over restarts   *)
(* of any kind and over switching the adapter off and on, as long as the    *)
(* list stays and NVS works: no save is left out by a stale                 *)
(* last_saved_state (switch.c:157-168).                                     *)
SwitchesComeBack == swRunning /\ swSure => swOn = swAsked

===============================================================================
