--------------------------------- MODULE Light ---------------------------------
(***************************************************************************)
(* The light adapter: the lights a list configures and the LEDC channels   *)
(* they take, the command that changes a light and what it then emits, the *)
(* states saved in NVS every 10 s and restored at start-up, restarts of    *)
(* the device and of the adapter, and updates that change the list.        *)
(*                                                                         *)
(* A light has one of the shapes of light_shape_from_mask.  Its hue and    *)
(* saturation are one abstract tint: with a brightness of v, the brightest *)
(* of the three colours has v/100 of the full duty, whatever they are.     *)
(* Arguments are within their documented ranges, except the brightness.    *)
(* NVS, the LEDC driver and the reset reason are external; two lists have  *)
(* different fingerprints.  Names, pins, fading, parse errors of the list  *)
(* and of JSON, telemetry and discovery texts are left out.                *)
(*                                                                         *)
(* A definition Name_Fault, before the definition Name, is Name with a     *)
(* fault seeded; nothing uses it but the mutants of PROJECT.json.          *)
(***************************************************************************)
EXTENDS Integers, Sequences

CONSTANTS
  LightList,    \* the lists a build may configure: sequences of shapes
  LightMax,     \* CONFIG_LIGHT_MAX_COUNT
  LightChannel, \* SOC_LEDC_CHANNEL_NUM
  Level,        \* brightness arguments of a command
  Mix,          \* its cold/warm ratios
  Tint,         \* hues and saturations, as positive numbers
  DefaultTint,  \* red, saturated
  NoLightList,  \* no fingerprint in NVS
  LightNvsMayFail

(* light_shape_from_mask: what the channel roles of a light allow, and how  *)
(* many LEDC channels they take.                                            *)
Shape == {s \in [color : BOOLEAN, cold : BOOLEAN, warm : BOOLEAN, relay : BOOLEAN] :
            s.relay # (s.color \/ s.cold \/ s.warm)}
White(s) == s.cold \/ s.warm
Width(s) == (IF s.color THEN 3 ELSE 0) + (IF s.cold THEN 1 ELSE 0)
            + (IF s.warm THEN 1 ELSE 0)

ASSUME LightListAssumption ==
  /\ LightMax \in Nat /\ LightChannel \in Nat
  /\ LightList \subseteq Seq(Shape) /\ \A l \in LightList : Len(l) <= LightMax
  /\ NoLightList \notin LightList
ASSUME LightDataAssumption ==
  /\ Level \subseteq Int /\ Mix \subseteq 0..100
  /\ DefaultTint \in Tint /\ Tint \subseteq Nat \ {0}
  /\ LightNvsMayFail \in BOOLEAN

VARIABLES
  liList,    \* CONFIG_LIGHT_GPIO_LIST of the running image
  liRunning, \* light_initialized
  liPlanned, \* esp_reset_reason() = ESP_RST_SW
  liNext,    \* next_ledc_channel
  lights,    \* the lights in use: shape, color_mode, val, tint, cct
  liOn,      \* the slots whose light is on: parsing a list leaves them alone
  liDirty,   \* state_dirty
  liLast,    \* last_saved_state
  liPrint,   \* NVS: the fingerprint
  liSaved,   \* NVS: the state, or <<>> for none
  liFits,    \* history: the lights' values were meant for these lights
  liOrigin,  \* history: the shapes liSaved was meant for
  liSure,    \* history: liSaved is of this list, restored or saved since start
  liDark     \* history: restored without on/off, and not saved since

liNvs == <<liPrint, liSaved, liOrigin>>
lightVars == <<liList, liRunning, liPlanned, liNext, lights, liOn, liDirty, liLast,
               liPrint, liSaved, liFits, liOrigin, liSure, liDark>>

Slots == 1..LightMax

(* light_persist_entry_t; those of unused slots are all zeros.              *)
Entry == [on : BOOLEAN, color : BOOLEAN, val : 0..100, tint : Nat, cct : 0..100]
NoEntry == [on |-> FALSE, color |-> FALSE, val |-> 0, tint |-> 0, cct |-> 0]
Light == [shape : Shape, color : BOOLEAN, val : 0..100, tint : Nat, cct : 0..100]

LightTypeOK ==
  /\ liList \in LightList /\ liNext \in 0..LightChannel
  /\ {liRunning, liPlanned, liDirty, liFits, liSure, liDark} \subseteq BOOLEAN
  /\ DOMAIN lights \subseteq Slots /\ \A i \in DOMAIN lights : lights[i] \in Light
  /\ liOn \subseteq Slots
  /\ liLast \in [Slots -> Entry] /\ (liSaved = <<>> \/ liSaved \in [Slots -> Entry])
  /\ liPrint \in LightList \cup {NoLightList}

LightInit ==
  /\ liList \in LightList /\ liRunning = FALSE /\ liPlanned = FALSE
  /\ liNext = 0 /\ lights = <<>> /\ liOn = {}
  /\ liDirty = FALSE /\ liLast = [i \in Slots |-> NoEntry]
  /\ liPrint = NoLightList /\ liSaved = <<>> /\ liOrigin = <<>>
  /\ liFits = TRUE /\ liSure = TRUE /\ liDark = FALSE

-----------------------------------------------------------------------------
(* What the channels emit, as indices of the gamma table: 0 is dark, and    *)
(* everything above is lit (light_update_output).                           *)
Share(val, ratio) == (val * ratio) \div 100

ColorOut(l, on) == IF on /\ l.color /\ l.shape.color THEN l.val ELSE 0
WhiteOut(l, on) == on /\ ~(l.color /\ l.shape.color)
ColdOut_Truncated(l, on) ==
  IF ~WhiteOut(l, on) \/ ~l.shape.cold THEN 0
  ELSE IF ~l.shape.warm THEN l.val
  ELSE Share(l.val, l.cct)
ColdOut(l, on) ==
  IF ~WhiteOut(l, on) \/ ~l.shape.cold THEN 0
  ELSE IF ~l.shape.warm THEN l.val
  ELSE IF l.val > 0 /\ Share(l.val, l.cct) = 0 /\ Share(l.val, 100 - l.cct) = 0
          /\ l.cct >= 50 THEN 1
  ELSE Share(l.val, l.cct)
WarmOut(l, on) ==
  IF ~WhiteOut(l, on) \/ ~l.shape.warm THEN 0
  ELSE IF ~l.shape.cold THEN l.val
  ELSE IF l.val > 0 /\ Share(l.val, l.cct) = 0 /\ Share(l.val, 100 - l.cct) = 0
          /\ l.cct < 50 THEN 1
  ELSE Share(l.val, 100 - l.cct)
Lit(l, on) == \/ ColorOut(l, on) > 0 \/ ColdOut(l, on) > 0 \/ WarmOut(l, on) > 0
              \/ l.shape.relay /\ on

(* light_parse_list: a light takes the next channels, or is skipped when    *)
(* too few are left.  Nothing gives channels back.                          *)
Fresh(s) == [shape |-> s, color |-> s.color /\ ~White(s), val |-> 50,
             tint |-> DefaultTint, cct |-> 50]
TakeChannels(parsed, s) ==
  IF parsed.next + Width(s) > LightChannel THEN parsed
  ELSE [next |-> parsed.next + Width(s), use |-> Append(parsed.use, Fresh(s))]
ParseUpTo(list, next) ==
  LET parsed[n \in 0..Len(list)] ==
        IF n = 0 THEN [next |-> next, use |-> <<>>]
        ELSE TakeChannels(parsed[n - 1], list[n])
  IN parsed
Parse(list, next) == ParseUpTo(list, next)[Len(list)]

-----------------------------------------------------------------------------
(* light_save_state, after which the light_adapter_on_interval or the       *)
(* shutdown that called it has nothing else to do with NVS.                 *)
EntryOf(i) ==
  IF i \notin DOMAIN lights THEN NoEntry
  ELSE [on |-> i \in liOn, color |-> lights[i].color, val |-> lights[i].val,
        tint |-> lights[i].tint, cct |-> lights[i].cct]
Current == [i \in Slots |-> EntryOf(i)]
ShapesInUse == IF liFits THEN [i \in DOMAIN lights |-> lights[i].shape] ELSE <<>>

Skip == Current = liLast /\ UNCHANGED <<liNvs, liLast, liSure, liDark>>
Saved ==
  /\ Current # liLast
  /\ liSaved' = Current /\ liOrigin' = ShapesInUse /\ liLast' = Current
  /\ liSure' = (liPrint = liList) /\ liDark' = FALSE
  /\ UNCHANGED liPrint
NotSaved ==
  /\ Current # liLast /\ LightNvsMayFail
  /\ \/ UNCHANGED <<liSaved, liOrigin>>
     \/ liSaved' = Current /\ liOrigin' = ShapesInUse
  /\ UNCHANGED <<liPrint, liLast, liSure, liDark>>
SaveLights_ClearsFirst == (Skip \/ Saved \/ NotSaved) /\ liDirty' = FALSE
SaveLights ==
  \/ Skip /\ UNCHANGED liDirty
  \/ Saved /\ liDirty' = FALSE
  \/ NotSaved /\ UNCHANGED liDirty

(* light_restore_state, into the lights use that were just parsed.          *)
Restored(use) ==
  [i \in DOMAIN use |-> [shape |-> use[i].shape, color |-> liSaved[i].color,
                         val |-> liSaved[i].val, tint |-> liSaved[i].tint,
                         cct |-> liSaved[i].cct]]
RestoreLights(use) ==
  \/ /\ liPrint = liList /\ liSaved # <<>>
     /\ lights' = Restored(use)
     /\ liOn' = IF liPlanned
                THEN {i \in Slots : IF i \in DOMAIN use THEN liSaved[i].on ELSE i \in liOn}
                ELSE liOn
     /\ liLast' = liSaved
     /\ liFits' = \A i \in DOMAIN use : i \in DOMAIN liOrigin /\ liOrigin[i] = use[i].shape
     /\ liDark' = (liDark \/ ~liPlanned)
     /\ UNCHANGED <<liNvs, liSure>>
  \/ /\ liPrint # liList \/ liSaved = <<>>
     /\ lights' = use /\ liPrint' = liList
     /\ liFits' = TRUE /\ liSure' = (liSaved = <<>>)
     /\ UNCHANGED <<liOn, liLast, liSaved, liOrigin, liDark>>
  \/ /\ LightNvsMayFail
     /\ lights' = use /\ liPrint' \in {liPrint, liList}
     /\ liFits' = TRUE /\ liSure' = FALSE
     /\ UNCHANGED <<liOn, liLast, liSaved, liOrigin, liDark>>

(* light_adapter_init; the timer may fail to be configured, which leaves    *)
(* everything before it done.                                               *)
StartLights ==
  /\ ~liRunning
  /\ LET parsed == Parse(liList, liNext) IN
       RestoreLights(parsed.use) /\ liNext' = parsed.next
  /\ liRunning' \in BOOLEAN
  /\ UNCHANGED <<liList, liPlanned, liDirty>>

StopLights ==
  /\ liRunning
  /\ SaveLights
  /\ liRunning' = FALSE
  /\ UNCHANGED <<liList, liPlanned, liNext, lights, liOn, liFits>>

(* The 10 s stage of the supervisor.                                        *)
LightInterval ==
  /\ liDirty
  /\ SaveLights
  /\ UNCHANGED <<liList, liRunning, liPlanned, liNext, lights, liOn, liFits>>

-----------------------------------------------------------------------------
(* light_apply.                                                             *)

Maybe(S) == {{}} \cup {{x} : x \in S}
TheOne(option) == CHOOSE x \in option : TRUE

Clamp(v) == IF v < 1 THEN 1 ELSE IF v > 100 THEN 100 ELSE v

(* The arguments are v, cct, and h or s; a cct counts only for a light that *)
(* has white, and then h and s do not.                                      *)
Changed(l, v, mix, tint) ==
  LET white == mix # {} /\ White(l.shape)
      tinted == ~white /\ tint # {}
  IN [l EXCEPT !.val = IF v = {} THEN @ ELSE Clamp(TheOne(v)),
               !.cct = IF white THEN TheOne(mix) ELSE @,
               !.tint = IF tinted THEN TheOne(tint) ELSE @,
               !.color = tinted \/ (@ /\ ~white)]
TurnsOn(l, v, mix, tint) == v # {} \/ tint # {} \/ (mix # {} /\ White(l.shape))

Switched(i, on) == IF on THEN liOn \cup {i} ELSE liOn \ {i}
CommandLight ==
  /\ liRunning
  /\ \E i \in DOMAIN lights :
       \/ \E v \in Maybe(Level), mix \in Maybe(Mix), tint \in Maybe(Tint),
             on \in Maybe(BOOLEAN) :
            /\ lights' = [lights EXCEPT ![i] = Changed(@, v, mix, tint)]
            /\ liOn' = IF on # {} THEN Switched(i, TheOne(on))
                       ELSE IF TurnsOn(lights[i], v, mix, tint) THEN liOn \cup {i}
                       ELSE liOn
       \/ \E state \in {"on", "off", "toggle"} :
            /\ liOn' = Switched(i, IF state = "toggle" THEN i \notin liOn ELSE state = "on")
            /\ UNCHANGED lights
  /\ liDirty' = TRUE
  /\ UNCHANGED <<liList, liRunning, liPlanned, liNext, liLast, liNvs, liFits, liSure,
                 liDark>>

-----------------------------------------------------------------------------
(* RAM is lost with any reset; esp_safe_restart does not shut adapters      *)
(* down.                                                                    *)
LosesRam ==
  /\ liRunning' = FALSE /\ liNext' = 0 /\ lights' = <<>> /\ liOn' = {}
  /\ liDirty' = FALSE /\ liLast' = [i \in Slots |-> NoEntry]
  /\ liFits' = TRUE
ResetLights ==
  /\ LosesRam
  /\ liPlanned' \in BOOLEAN
  /\ liList' \in LightList
  /\ UNCHANGED <<liNvs, liSure, liDark>>
EraseLights ==
  /\ liRunning
  /\ LosesRam
  /\ liPlanned' = TRUE
  /\ liPrint' = NoLightList /\ liSaved' = <<>> /\ liOrigin' = <<>>
  /\ liSure' = TRUE /\ liDark' = FALSE
  /\ UNCHANGED liList

LightNext == \/ StartLights \/ StopLights \/ LightInterval \/ CommandLight
             \/ ResetLights \/ EraseLights

LightSpec == LightInit /\ [][LightNext]_lightVars

-----------------------------------------------------------------------------
(* "so 'on' and 'visibly lit' never disagree" (light.c:429-431): as long as *)
(* its values were meant for it, a light emits something exactly when it is *)
(* on, through every mode, ratio, rounding and restart.                     *)
LitWhenOn ==
  liRunning /\ liFits => \A i \in DOMAIN lights : Lit(lights[i], i \in liOn) = (i \in liOn)

(* When state_dirty is clear, NVS holds what the lights show, under the     *)
(* fingerprint of their list, so a restart loses nothing (light.c:534-563); *)
(* a failed write or commit leaves the flag set.  Only on/off may differ,   *)
(* after a restart that left the lights off and until the next save.        *)
CleanMeansSaved ==
  liRunning /\ ~liDirty /\ liSure /\ liSaved # <<>> =>
    /\ liPrint = liList
    /\ \A i \in DOMAIN lights :
         \/ liSaved[i] = EntryOf(i)
         \/ liDark /\ liSaved[i] = [EntryOf(i) EXCEPT !.on = TRUE]

===============================================================================
