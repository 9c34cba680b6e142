-------------------------------- MODULE Neopixel --------------------------------
(***************************************************************************)
(* The Neopixel adapter, its driver and its effects: one task that draws a *)
(* moving effect until it is asked to end, and the supervisor's task,      *)
(* which asks, waits for half a second, and then deletes it.  They share   *)
(* the handle, the request, the strip's buffer and the semaphore that      *)
(* guards its transmission.                                                *)
(*                                                                         *)
(* Colours are "dark", a plain "color", or "moving"; brightness and speed  *)
(* only matter here in that a slow effect may outlast the wait, in its     *)
(* delay.  There is memory for the task.  The led_strip library is         *)
(* external.                                                               *)
(*                                                                         *)
(* A definition Name_Fault, before the definition Name, is Name with a     *)
(* fault seeded; nothing uses it but the mutants of PROJECT.json.          *)
(***************************************************************************)
EXTENDS Integers, Sequences

VARIABLES
  npUp,     \* the adapter's initialized
  npStrip,  \* there is an s_strip
  npSem,    \* s_rmt_sem: "none", "free", or held by the "effect" or the "caller"
  npBuffer, \* what the strip's buffer holds
  npShown,  \* what the strip shows
  npHandle, \* s_effect_task is not NULL
  npQuit,   \* s_stop_requested
  npEffect, \* s_current_effect: "none", "solid" or "moving"
  npAt,     \* where the effect's task is; "none" if there is none
  npSlow,   \* its delay is as long as the wait of a stop
  npTodo,   \* what is left of the supervisor's call
  npRecent, \* an effect, or the program, was started in the last 100 ms
  npDead    \* history: a stop deleted the supervisor's task, or one that was
            \* gone

npPixels == <<npSem, npBuffer, npShown>>
npTask == <<npHandle, npQuit, npEffect, npAt, npSlow>>
npAdapter == <<npUp, npStrip, npRecent, npDead>>
neopixelVars == <<npPixels, npTask, npAdapter, npTodo>>

Pictures == {"dark", "color", "moving"}

NeopixelTypeOK ==
  /\ {npUp, npStrip, npHandle, npQuit, npSlow, npRecent, npDead} \subseteq BOOLEAN
  /\ npSem \in {"none", "free", "effect", "caller"}
  /\ npBuffer \in Pictures /\ npShown \in Pictures
  /\ npEffect \in {"none", "solid", "moving"}
  /\ npAt \in {"none", "loop", "take", "refresh", "delay", "leave"}

NeopixelInit ==
  /\ npUp = FALSE /\ npStrip = FALSE /\ npSem = "none"
  /\ npBuffer = "dark" /\ npShown = "dark"
  /\ npHandle = FALSE /\ npQuit = FALSE /\ npEffect = "none" /\ npAt = "none"
  /\ npSlow = FALSE /\ npTodo = <<>> /\ npRecent = TRUE /\ npDead = FALSE

-----------------------------------------------------------------------------
(* The supervisor's calls, as lists of steps                                *)

(* neopixel_show; neopixel_effect_stop; a plain colour.                     *)
Show == <<"take", "give">>
StopEffect_NoKill == <<"request", "wait", "none", "dark">> \o Show
StopEffect == <<"request", "wait", "test", "kill", "none", "dark">> \o Show
PlainColor == StopEffect \o <<"color">> \o Show

(* neopixel_effect_start: "solid" draws itself, "moving" creates a task.    *)
StartEffect(effect) ==
  IF npRecent THEN <<>>
  ELSE <<"recent">> \o StopEffect
       \o (IF effect = "solid" THEN <<"solid", "color">> \o Show ELSE <<"moving">>)

(* cmnd_neopixel: a colour, an effect, or both.                             *)
CommandSteps ==
  {c \o e : c \in {<<>>, PlainColor},
            e \in {<<>>, StopEffect, StartEffect("solid"), StartEffect("moving")}}

Calls ==
  /\ npTodo = <<>> /\ ~npDead
  /\ \/ npUp /\ npTodo' \in CommandSteps \cup {StopEffect \o <<"deinit">>}
     \/ ~npUp /\ npTodo' = <<"init">> \o StartEffect("solid") \o <<"up">>
     \/ npTodo' = StartEffect("solid")
  /\ UNCHANGED <<npPixels, npTask, npAdapter>>

-----------------------------------------------------------------------------
(* The next step of a call                                                  *)

NextIs(step) == npTodo # <<>> /\ Head(npTodo) = step /\ npTodo' = Tail(npTodo) /\ ~npDead

(* neopixel_init, after which the strip is dark, and neopixel_deinit.       *)
InitStrip ==
  /\ NextIs("init")
  /\ npStrip' = TRUE /\ npSem' = "free" /\ npBuffer' = "dark" /\ npShown' = "dark"
  /\ UNCHANGED <<npTask, npUp, npRecent, npDead>>
InitFails ==
  /\ npTodo # <<>> /\ Head(npTodo) = "init" /\ ~npDead
  /\ npTodo' = <<>>
  /\ UNCHANGED <<npPixels, npTask, npAdapter>>
AdapterUp ==
  /\ NextIs("up")
  /\ npUp' = TRUE
  /\ UNCHANGED <<npPixels, npTask, npStrip, npRecent, npDead>>
DeinitStrip ==
  /\ NextIs("deinit")
  /\ npUp' = FALSE /\ npStrip' = FALSE
  /\ npSem' = "none" /\ npBuffer' = "dark" /\ npShown' = "dark"
  /\ UNCHANGED <<npTask, npRecent, npDead>>

(* Without a task there is nothing to wait for and to delete: the call goes *)
(* on where it sets the effect.                                             *)
SkipEnd(todo) ==
  LET n == CHOOSE k \in 1..Len(todo) :
             todo[k] = "none" /\ \A j \in 1..k - 1 : todo[j] # "none"
  IN SubSeq(todo, n, Len(todo))
RequestEnd ==
  /\ npTodo # <<>> /\ Head(npTodo) = "request" /\ ~npDead
  /\ npQuit' = (npQuit \/ npHandle)
  /\ npTodo' = IF npHandle THEN Tail(npTodo) ELSE SkipEnd(npTodo)
  /\ UNCHANGED <<npPixels, npHandle, npEffect, npAt, npSlow, npAdapter>>

(* The wait ends with the handle, or with its 50 rounds of 10 ms.           *)
WaitForEffect ==
  /\ NextIs("wait")
  /\ ~npHandle \/ (npSlow /\ npAt \in {"delay", "leave"})
  /\ UNCHANGED <<npPixels, npTask, npAdapter>>

(* The handle is tested, and then read again to delete its task: if the     *)
(* task cleared it in between that is the caller, or a task that is gone.   *)
TestHandle ==
  /\ npTodo # <<>> /\ Head(npTodo) = "test" /\ ~npDead
  /\ npTodo' = IF npHandle THEN Tail(npTodo) ELSE Tail(Tail(npTodo))
  /\ UNCHANGED <<npPixels, npTask, npAdapter>>
KillEffect ==
  /\ NextIs("kill")
  /\ npDead' = ~npHandle
  /\ npHandle' = FALSE /\ npAt' = "none"
  /\ UNCHANGED <<npPixels, npQuit, npEffect, npSlow, npUp, npStrip, npRecent>>

SetEffect(effect) ==
  /\ NextIs(effect)
  /\ npEffect' = effect
  /\ \/ effect = "none" /\ UNCHANGED <<npHandle, npQuit, npAt, npSlow>>
     \/ effect = "solid" /\ npQuit' = FALSE /\ UNCHANGED <<npHandle, npAt, npSlow>>
     \/ /\ effect = "moving" /\ npQuit' = FALSE
        /\ npHandle' = TRUE /\ npAt' = "loop" /\ npSlow' \in BOOLEAN
  /\ UNCHANGED <<npPixels, npAdapter>>

Remember ==
  /\ NextIs("recent")
  /\ npRecent' = TRUE
  /\ UNCHANGED <<npPixels, npTask, npUp, npStrip, npDead>>
TimePasses ==
  /\ npRecent' = FALSE
  /\ UNCHANGED <<npPixels, npTask, npUp, npStrip, npDead, npTodo>>

(* neopixel_clear, neopixel_fill, and the two halves of neopixel_show,      *)
(* which is given up when the semaphore stays taken.                        *)
Draw(picture) ==
  /\ NextIs(picture)
  /\ npBuffer' = IF npStrip THEN picture ELSE npBuffer
  /\ UNCHANGED <<npSem, npShown, npTask, npAdapter>>
TakeShow ==
  /\ NextIs("take")
  /\ npSem' = IF npSem = "free" THEN "caller" ELSE npSem
  /\ UNCHANGED <<npBuffer, npShown, npTask, npAdapter>>
GiveShow ==
  /\ NextIs("give")
  /\ \/ npSem = "caller" /\ npSem' = "free" /\ npShown' = npBuffer
     \/ npSem # "caller" /\ UNCHANGED <<npSem, npShown>>
  /\ UNCHANGED <<npBuffer, npTask, npAdapter>>

SupervisorStep ==
  \/ InitStrip \/ InitFails \/ AdapterUp \/ DeinitStrip
  \/ RequestEnd \/ WaitForEffect \/ TestHandle \/ KillEffect
  \/ \E effect \in {"none", "solid", "moving"} : SetEffect(effect)
  \/ Remember
  \/ \E picture \in {"dark", "color"} : Draw(picture)
  \/ TakeShow \/ GiveShow

-----------------------------------------------------------------------------
(* effect_runner_task                                                       *)

EffectAt(from, to) == npAt = from /\ npAt' = to

Round ==
  /\ \/ npQuit /\ EffectAt("loop", "leave") /\ UNCHANGED npBuffer
     \/ /\ ~npQuit /\ EffectAt("loop", "take")
        /\ npBuffer' = IF npStrip THEN "moving" ELSE npBuffer
  /\ UNCHANGED <<npSem, npShown, npHandle, npQuit, npEffect, npSlow, npAdapter, npTodo>>
TakeRound ==
  /\ \/ npSem = "free" /\ npSem' = "effect" /\ EffectAt("take", "refresh")
     \/ npSem # "free" /\ EffectAt("take", "delay") /\ UNCHANGED npSem
  /\ UNCHANGED <<npBuffer, npShown, npHandle, npQuit, npEffect, npSlow, npAdapter, npTodo>>
Refresh ==
  /\ EffectAt("refresh", "delay")
  /\ npSem' = "free" /\ npShown' = npBuffer
  /\ UNCHANGED <<npBuffer, npHandle, npQuit, npEffect, npSlow, npAdapter, npTodo>>
Delay ==
  /\ EffectAt("delay", "loop")
  /\ UNCHANGED <<npPixels, npHandle, npQuit, npEffect, npSlow, npAdapter, npTodo>>
EffectEnds ==
  /\ EffectAt("leave", "none")
  /\ npHandle' = FALSE
  /\ UNCHANGED <<npPixels, npQuit, npEffect, npSlow, npAdapter, npTodo>>

NeopixelNext ==
  \/ Calls \/ SupervisorStep \/ TimePasses
  \/ Round \/ TakeRound \/ Refresh \/ Delay \/ EffectEnds

NeopixelSpec == NeopixelInit /\ [][NeopixelNext]_neopixelVars

-----------------------------------------------------------------------------
(* Between calls the task exists exactly while its effect is the current    *)
(* one; otherwise nothing of it is left on the strip, its deletion did not  *)
(* leave the semaphore taken, and the strip shows what its buffer holds.    *)
(* (A stop that deleted its own task is excepted; the comment at            *)
(* neopixel_effects.c:170 says that deleting does not happen.)              *)
EffectsEnd ==
  npTodo = <<>> /\ ~npDead =>
    /\ npHandle <=> npAt # "none"
    /\ npHandle <=> npEffect = "moving"
    /\ ~npHandle => npShown # "moving" /\ npBuffer = npShown /\ npSem # "effect"
===============================================================================
