------------------------------- MODULE SafeMode -------------------------------
(***************************************************************************)
(* Safe mode, firmware validation and restarts of the supervisor, over any *)
(* number of boots: the boot counter in NVS, the check at start-up, the    *)
(* 5 s and 10 s intervals that clear the counter and validate the image,   *)
(* the restart callback of the network adapters, and the two OTA slots.    *)
(*                                                                         *)
(* The device can crash and lose power in every state.  The bootloader and *)
(* the rules of the OTA library (rollback enabled) are external.  Time is  *)
(* counted in periods of 5 s; the supervisor's loop serves a period before *)
(* the next one ends.  The period during a restart (0.7 s) is left out.    *)
(*                                                                         *)
(* A definition Name_Fault, before the definition Name, is Name with a     *)
(* fault seeded; nothing uses it but the mutants of PROJECT.json.          *)
(***************************************************************************)
EXTENDS Integers

CONSTANTS
  Slot,         \* the two OTA partitions
  FirstSlot,    \* the one flashed in production
  Threshold,    \* CONFIG_SUPERVISOR_SAFE_MODE_THRESHOLD
  StableTime,   \* CONFIG_SUPERVISOR_SAFE_MODE_STABLE_TIME_S, in periods
  NvsReliable,  \* FALSE: nvs_open, nvs_set and nvs_commit may fail
  ConfCounter,  \* values the setconf command gives boot_counter
  CrashBound    \* bound: crashes counted between two clearings

ASSUME SlotAssumption ==
  FirstSlot \in Slot /\ \A s \in Slot : \E t \in Slot : Slot = {s, t} /\ s # t
ASSUME NumberAssumption ==
  /\ Threshold \in Nat /\ Threshold > 1
  /\ StableTime \in Nat /\ StableTime > 0
  /\ ConfCounter \subseteq Nat
  /\ CrashBound \in Nat
ASSUME NvsAssumption == NvsReliable \in BOOLEAN

VARIABLES
  nvs,       \* boot_counter in flash
  ram,       \* config_data.boot_counter
  pc,        \* "off", "check" (before safe_mode_check), "init" (adapters),
             \* "run", "exit" (in esp_safe_restart, callback done)
  reset,     \* esp_reset_reason: "external", "software" or "abnormal"
  safe,      \* safe_mode_active
  validated, \* firmware_validated
  unread,    \* history: in this run the state of the image could not be read
  uptime,    \* periods since start-up, no further than StableTime + 2
  due,       \* the 5 s stage is due
  half,      \* the 10 s stage is due with this 5 s stage
  inet,      \* the network adapter runs: OTA service and restart callback
  hardware,  \* an adapter without enable_in_safe_mode runs
  booted,    \* the running partition
  boot,      \* the partition otadata selects
  image,     \* image[s]: the OTA state of the image in s
  row,       \* history: runs in a row that crashed before they were stable
  streak,    \* history: crashes since a 5 s stage of a stable run, or an exit
  before     \* history: how the previous run ended: "normal", "safe" (still
             \* in safe mode) or "left" (safe mode left by a restart)

counters == <<nvs, ram>>
validation == <<validated, unread>>
clock    == <<uptime, due, half>>
adapters == <<inet, hardware>>
slots    == <<booted, boot, image>>
history  == <<row, streak, before>>
vars == <<nvs, ram, pc, reset, safe, validated, unread, uptime, due, half,
          inet, hardware, booted, boot, image, row, streak, before>>

ImageState == {"valid", "new", "pending", "aborted", "writing", "partial"}

NumbersOK ==
  /\ nvs \in Nat /\ ram \in Nat
  /\ uptime \in 0..(StableTime + 2)
  /\ row \in Nat /\ streak \in Nat
FlagsOK ==
  /\ safe \in BOOLEAN /\ validated \in BOOLEAN /\ unread \in BOOLEAN
  /\ due \in BOOLEAN /\ half \in BOOLEAN
  /\ inet \in BOOLEAN /\ hardware \in BOOLEAN
StatesOK ==
  /\ pc \in {"off", "check", "init", "run", "exit"}
  /\ reset \in {"external", "software", "abnormal"}
  /\ booted \in Slot /\ boot \in Slot /\ image \in [Slot -> ImageState]
  /\ before \in {"normal", "safe", "left"}
TypeOK == NumbersOK /\ FlagsOK /\ StatesOK

Init ==
  /\ nvs = 0 /\ ram = 0
  /\ pc = "off" /\ reset = "external"
  /\ safe = FALSE /\ validated = FALSE /\ unread = FALSE
  /\ uptime = 0 /\ due = FALSE /\ half = FALSE
  /\ inet = FALSE /\ hardware = FALSE
  /\ booted = FirstSlot /\ boot = FirstSlot
  /\ image = [s \in Slot |-> IF s = FirstSlot THEN "valid" ELSE "partial"]
  /\ row = 0 /\ streak = 0
  /\ before = "normal"

Other(s) == CHOOSE t \in Slot : t # s

(* config_set_boot_counter: the RAM copy always, the flash if NVS works; a  *)
(* write that fails is logged, and nothing tries it again.                  *)
SetCounter(n) ==
  /\ ram' = n
  /\ nvs' = n \/ (~NvsReliable /\ nvs' = nvs)

-----------------------------------------------------------------------------
(* Start-up                                                                 *)

(* The bootloader: a new image becomes pending, one that is pending already *)
(* did not get validated in its first run and the other one is started.     *)
(* config_manager_init then loads the counter.                              *)
Boot ==
  /\ pc = "off"
  /\ pc' = "check"
  /\ LET rollback == image[boot] = "pending"
     IN /\ boot' = IF rollback THEN Other(boot) ELSE boot
        /\ image' = [image EXCEPT ![boot] = IF rollback THEN "aborted"
                                            ELSE IF @ = "new" THEN "pending" ELSE @]
  /\ booted' = boot'
  /\ ram' = nvs
  /\ safe' = FALSE /\ validated' = FALSE /\ unread' = FALSE
  /\ uptime' = 0 /\ due' = FALSE /\ half' = FALSE
  /\ inet' = FALSE /\ hardware' = FALSE
  /\ UNCHANGED <<nvs, reset, history>>

(* supervisor_validate_firmware.  A state that cannot be read counts as     *)
(* validated, whatever it is; a pending image is marked valid, which may    *)
(* fail and is then tried again in the next 10 s stage.                     *)
Unreadable == validated' = TRUE /\ unread' = TRUE /\ UNCHANGED image
Validate_Unchecked ==
  \/ Unreadable
  \/ /\ validated' = TRUE
     /\ \/ image' = [image EXCEPT ![booted] = "valid"]
        \/ UNCHANGED image
     /\ UNCHANGED unread
Validate ==
  \/ Unreadable
  \/ /\ image[booted] # "pending"
     /\ validated' = TRUE
     /\ UNCHANGED <<image, unread>>
  \/ /\ image[booted] = "pending"
     /\ \/ image' = [image EXCEPT ![booted] = "valid"] /\ validated' = TRUE
        \/ UNCHANGED <<image, validated>>
     /\ UNCHANGED unread

(* safe_mode_check, and the validation safe mode forces.                    *)
CheckSafeMode_CountsAll ==
  /\ pc = "check"
  /\ pc' = "init"
  /\ SetCounter(ram + 1)
  /\ safe' = (ram' >= Threshold)
  /\ IF safe' THEN Validate ELSE UNCHANGED <<image, validation>>
  /\ UNCHANGED <<reset, clock, adapters, booted, boot, history>>
CheckSafeMode_RamOnly ==
  /\ pc = "check"
  /\ pc' = "init"
  /\ ram' = IF reset = "abnormal" THEN ram + 1 ELSE ram
  /\ safe' = (ram' >= Threshold)
  /\ IF safe' THEN Validate ELSE UNCHANGED <<image, validation>>
  /\ UNCHANGED <<nvs, reset, clock, adapters, booted, boot, history>>
CheckSafeMode ==
  /\ pc = "check"
  /\ pc' = "init"
  /\ IF reset = "abnormal" THEN SetCounter(ram + 1) ELSE UNCHANGED counters
  /\ safe' = (ram' >= Threshold)
  /\ IF safe' THEN Validate ELSE UNCHANGED <<image, validation>>
  /\ UNCHANGED <<reset, clock, adapters, booted, boot, history>>

(* supervisor_platform_init: safe mode skips the adapters not enabled for   *)
(* it; the network adapter is, and sets the restart callback.               *)
InitAdapters ==
  /\ pc = "init"
  /\ pc' = "run"
  /\ inet' = TRUE
  /\ hardware' = ~safe
  /\ UNCHANGED <<counters, reset, safe, validation, clock, slots, history>>

-----------------------------------------------------------------------------
(* The running supervisor                                                   *)

(* Five more seconds of uptime.                                             *)
Elapse ==
  /\ pc = "run" /\ ~due
  /\ uptime' = IF uptime < StableTime + 2 THEN uptime + 1 ELSE uptime
  /\ due' = TRUE
  /\ half' = ~half
  /\ row' = IF uptime' > StableTime THEN 0 ELSE row
  /\ UNCHANGED <<counters, pc, reset, safe, validation, adapters, slots, streak, before>>

(* supervisor_on_interval: the 5 s stage, and every other time the 10 s one *)
(* behind it.                                                               *)
Intervals_NotInSafeMode ==
  /\ pc = "run" /\ due
  /\ due' = FALSE
  /\ IF ram > 0 /\ uptime > StableTime /\ ~safe THEN SetCounter(0) ELSE UNCHANGED counters
  /\ IF ~half /\ ~validated THEN Validate ELSE UNCHANGED <<image, validation>>
  /\ streak' = IF uptime > StableTime THEN 0 ELSE streak
  /\ UNCHANGED <<pc, reset, safe, uptime, half, adapters, booted, boot, row, before>>
Intervals ==
  /\ pc = "run" /\ due
  /\ due' = FALSE
  /\ IF ram > 0 /\ uptime > StableTime THEN SetCounter(0) ELSE UNCHANGED counters
  /\ IF ~half /\ ~validated THEN Validate ELSE UNCHANGED <<image, validation>>
  /\ streak' = IF uptime > StableTime THEN 0 ELSE streak
  /\ UNCHANGED <<pc, reset, safe, uptime, half, adapters, booted, boot, row, before>>

(* The "adapter" command, for an adapter safe mode skips and for the        *)
(* network adapter; it does not ask for safe mode.  Shutting the network    *)
(* adapter down waits for an update in progress and drops the callback.     *)
ControlAdapter ==
  /\ pc = "run"
  /\ \/ hardware' = ~hardware /\ UNCHANGED inet
     \/ inet' = ~inet /\ image[Other(booted)] # "writing" /\ UNCHANGED hardware
  /\ UNCHANGED <<counters, pc, reset, safe, validation, clock, slots, history>>

(* The "setconf" command with boot_counter among the fields.                *)
SetConf ==
  /\ pc = "run"
  /\ \E n \in ConfCounter :
       /\ SetCounter(n)
       /\ streak' = n
  /\ row' = 0
  /\ UNCHANGED <<pc, reset, safe, validation, clock, adapters, slots, before>>

-----------------------------------------------------------------------------
(* Restarts                                                                 *)

(* esp_safe_restart up to esp_restart: the callback of the network adapter, *)
(* which clears the counter in safe mode.                                   *)
SafeRestart_KeepsCounter ==
  /\ pc' = "exit"
  /\ UNCHANGED <<counters, row, streak>>
SafeRestart ==
  /\ pc' = "exit"
  /\ IF inet /\ safe
       THEN /\ SetCounter(0)
            /\ row' = 0 /\ streak' = 0
       ELSE UNCHANGED <<counters, row, streak>>

(* The "restart" command.                                                   *)
Restart ==
  /\ pc = "run"
  /\ SafeRestart
  /\ UNCHANGED <<reset, safe, validation, clock, adapters, slots, before>>

(* The "resetconf" command: NVS is erased, which may fail, the counter in   *)
(* RAM is not; the callback follows.                                        *)
ResetConf ==
  /\ pc = "run"
  /\ pc' = "exit"
  /\ \/ nvs' = 0 /\ row' = 0 /\ streak' = 0
     \/ ~NvsReliable /\ UNCHANGED <<nvs, row, streak>>
  /\ ram' = IF inet /\ safe THEN 0 ELSE ram
  /\ UNCHANGED <<reset, safe, validation, clock, adapters, slots, before>>

(* handle_ota, first part: esp_ota_begin erases the other partition; it     *)
(* refuses as long as the running image is pending.                         *)
BeginUpdate_SameSlot ==
  /\ pc = "run" /\ inet
  /\ image[booted] # "pending"
  /\ image' = [image EXCEPT ![booted] = "writing"]
  /\ UNCHANGED <<counters, pc, reset, safe, validation, clock, adapters, booted, boot, history>>
BeginUpdate ==
  /\ pc = "run" /\ inet
  /\ image[booted] # "pending"
  /\ image' = [image EXCEPT ![Other(booted)] = "writing"]
  /\ UNCHANGED <<counters, pc, reset, safe, validation, clock, adapters, booted, boot, history>>

(* handle_ota, last part: the image is complete and selected, the device    *)
(* restarts.                                                                *)
FinishUpdate ==
  /\ pc = "run" /\ inet
  /\ image[Other(booted)] = "writing"
  /\ image' = [image EXCEPT ![Other(booted)] = "new"]
  /\ boot' = Other(booted)
  /\ SafeRestart
  /\ UNCHANGED <<reset, safe, validation, clock, adapters, booted, before>>

(* What every reset does: RAM is gone, a half-written image stays one.      *)
Down ==
  /\ pc' = "off"
  /\ image' = [s \in Slot |-> IF image[s] = "writing" THEN "partial" ELSE image[s]]
  /\ before' = IF pc = "check" THEN before
               ELSE IF ~safe THEN "normal"
               ELSE IF pc = "exit" /\ inet THEN "left" ELSE "safe"
  /\ UNCHANGED <<counters, safe, validation, clock, adapters, booted, boot>>

(* esp_restart.                                                             *)
Reset ==
  /\ pc = "exit"
  /\ Down
  /\ reset' = "software"
  /\ row' = 0
  /\ UNCHANGED streak

(* A panic or a watchdog.                                                   *)
Crash ==
  /\ pc # "off" /\ streak < CrashBound
  /\ Down
  /\ reset' = "abnormal"
  /\ row' = IF pc = "check" THEN row ELSE row + 1
  /\ streak' = streak + 1

(* Power loss, or the reset button.                                         *)
PowerLoss ==
  /\ pc # "off"
  /\ Down
  /\ reset' = "external"
  /\ row' = 0
  /\ UNCHANGED streak

Next == \/ Boot \/ CheckSafeMode \/ InitAdapters
        \/ Elapse \/ Intervals \/ ControlAdapter \/ SetConf
        \/ Restart \/ ResetConf \/ BeginUpdate \/ FinishUpdate
        \/ Reset \/ Crash \/ PowerLoss

Spec == Init /\ [][Next]_vars

(* The start-up code runs, time passes, and the supervisor's loop comes     *)
(* round; nothing is assumed of crashes, commands and updates.              *)
FairSpec == Spec /\ WF_vars(Boot) /\ WF_vars(CheckSafeMode)
                 /\ WF_vars(InitAdapters) /\ WF_vars(Elapse)
                 /\ WF_vars(Intervals) /\ WF_vars(Reset)

-----------------------------------------------------------------------------
(* Properties                                                               *)

(* No false positive: a device enters safe mode only after Threshold        *)
(* crashes with no stable run, exit or reset of the settings in between,    *)
(* whatever other resets, restarts and updates happened meanwhile.          *)
SafeModeOnlyAfterCrashes == pc = "init" /\ safe => streak >= Threshold

(* No false negative: Threshold runs in a row that got past the check and   *)
(* crashed before they were stable put the device into safe mode, also if   *)
(* some boots in between crashed before they reached the check.             *)
CrashLoopCaught == pc = "init" /\ row >= Threshold => safe

(* A restart through esp_safe_restart leaves safe mode, even if the device  *)
(* crashes in the 500 ms the callback waits or in the next start-up.        *)
RestartLeavesSafeMode == pc = "init" /\ before = "left" => ~safe

(* The selected image can be started, and as long as it is not validated    *)
(* there is a validated one to fall back to, whenever the power fails       *)
(* during an update and however early the new image crashes.                *)
AlwaysBootable ==
  \/ image[boot] = "valid"
  \/ image[boot] \in {"new", "pending"} /\ image[Other(boot)] = "valid"

(* The supervisor stops trying to validate only when the running image is   *)
(* valid, or when it could not read the image's state in this run: a pending *)
(* image then stays pending until the next reset rolls it back, and only    *)
(* AlwaysBootable is left of the promise.                                   *)
ValidatedMeansValid ==
  pc # "off" /\ validated /\ ~unread => image[booted] = "valid"

(* A run that is not interrupted clears the counter, in safe mode as well.  *)
StableRunClears == pc = "run" ~> (pc # "run" \/ ram = 0)

(* The inductive invariant behind the first three: the counter lies between *)
(* the crashes in a row and the crashes of the streak; until the check has  *)
(* run, the crash that led to this boot is in neither counter.              *)
Uncounted == IF pc \in {"off", "check"} /\ reset = "abnormal" THEN 1 ELSE 0
CounterBetween == row <= nvs + Uncounted /\ nvs + Uncounted <= streak
=============================================================================
