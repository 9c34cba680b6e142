----------------------------- MODULE Outputs_proofs -----------------------------
(* Proofs about the adapters that drive outputs, for any configured lists,   *)
(* LEDs and brightness values, and whether or not NVS operations fail.       *)
EXTENDS MCOutputs, SequenceTheorems, WellFoundedInduction, TLAPS

-----------------------------------------------------------------------------
(* The switch adapter                                                       *)

(* What is in memory is of the present list, and masks are of some list.     *)
PlacesOK ==
  /\ swList \in SwitchList
  /\ swOn \subseteq Switches(swList)
  /\ swPrint \in SwitchList \cup {NoSwitchList}

(* As long as nothing failed and the list stayed: what was asked for is what *)
(* is saved, it is of the list whose fingerprint is saved, and a running     *)
(* adapter agrees with it, in its outputs and in its copy of the saved mask. *)
AskedIsSaved == swSure => swAsked = swSaved
SavedFits == swSure /\ swPrint \in SwitchList => swSaved \subseteq Switches(swPrint)
RunsAsSaved ==
  swSure /\ swRunning => swOn = swSaved /\ swLast = swSaved /\ swPrint = swList
SwitchInv == PlacesOK /\ AskedIsSaved /\ SavedFits /\ RunsAsSaved

(* It holds when the device is new.                                          *)
LEMMA InitSwitchInv == SwitchInit => SwitchInv
  BY SwitchListAssumption
  DEF SwitchInit, SwitchInv, PlacesOK, AskedIsSaved, SavedFits, RunsAsSaved

(* A command changes outputs, wish and saved mask together, or is not sure.  *)
LEMMA CommandKeepsSwitchInv == SwitchInv /\ CommandSwitch => SwitchInv'
<1> SUFFICES ASSUME SwitchInv, CommandSwitch PROVE SwitchInv'
  OBVIOUS
<1> USE DEF SwitchInv
<1>1. PICK i \in Switches(swList), on \in BOOLEAN : SetSwitch(i, on)
  <2>1. PICK i \in Switches(swList), state \in {"on", "off", "toggle"} :
          SetSwitch(i, IF state = "toggle" THEN i \notin swOn ELSE state = "on")
    BY DEF CommandSwitch
  <2>2. (IF state = "toggle" THEN i \notin swOn ELSE state = "on") \in BOOLEAN
    OBVIOUS
  <2> QED BY <2>1, <2>2
<1>2. UNCHANGED <<swList, swRunning>> /\ swRunning
  BY DEF CommandSwitch
<1>3. swOn' \subseteq Switches(swList) /\ swAsked' = swOn' /\ SaveSwitches(swOn')
  BY <1>1 DEF SetSwitch, PlacesOK
<1>4. Switches(swList)' = Switches(swList)
  BY <1>2 DEF Switches
<1>5. CASE swOn' = swLast /\ UNCHANGED <<swNvs, swLast, swSure>>
  BY <1>2, <1>3, <1>4, <1>5
  DEF swNvs, PlacesOK, AskedIsSaved, SavedFits, RunsAsSaved, Switches
<1>6. CASE /\ swSaved' = swOn' /\ swLast' = swOn'
           /\ swSure' = (swPrint = swList) /\ UNCHANGED swPrint
  BY <1>2, <1>3, <1>4, <1>6
  DEF PlacesOK, AskedIsSaved, SavedFits, RunsAsSaved, Switches
<1>7. CASE swSure' = FALSE /\ UNCHANGED <<swPrint, swLast>>
  BY <1>2, <1>3, <1>4, <1>7
  DEF PlacesOK, AskedIsSaved, SavedFits, RunsAsSaved, Switches
<1> QED BY <1>3, <1>5, <1>6, <1>7 DEF SaveSwitches

(* A start finds the mask that was asked for, or a list that is new to it.   *)
LEMMA StartKeepsSwitchInv == SwitchInv /\ StartSwitches => SwitchInv'
<1> SUFFICES ASSUME SwitchInv, StartSwitches PROVE SwitchInv'
  OBVIOUS
<1> USE DEF SwitchInv
<1>1. RestoreSwitches /\ swRunning' = TRUE /\ UNCHANGED swList
  BY DEF StartSwitches
<1>2. CASE /\ swPrint = swList
           /\ swOn' = swSaved \cap Switches(swList) /\ swLast' = swSaved
           /\ UNCHANGED <<swNvs, swAsked, swSure>>
  BY <1>1, <1>2 DEF swNvs, PlacesOK, AskedIsSaved, SavedFits, RunsAsSaved, Switches
<1>3. CASE /\ swPrint' = swList /\ swOn' = {}
           /\ swAsked' = {} /\ swSure' = (swSaved = {} /\ swLast = {})
           /\ UNCHANGED <<swSaved, swLast>>
  BY <1>1, <1>3 DEF PlacesOK, AskedIsSaved, SavedFits, RunsAsSaved, Switches
<1>4. CASE /\ swPrint' \in {swPrint, swList} /\ swOn' = {}
           /\ swAsked' = {} /\ swSure' = FALSE
           /\ UNCHANGED <<swSaved, swLast>>
  BY <1>1, <1>4 DEF PlacesOK, AskedIsSaved, SavedFits, RunsAsSaved, Switches
<1> QED BY <1>1, <1>2, <1>3, <1>4 DEF RestoreSwitches

(* A reset and an erasure take the state in memory away, and a stop leaves   *)
(* it alone.                                                                 *)
LEMMA OthersKeepSwitchInv ==
  SwitchInv /\ (StopSwitches \/ ResetSwitches \/ EraseSwitches \/ UNCHANGED swVars)
    => SwitchInv'
<1> SUFFICES ASSUME SwitchInv,
                    StopSwitches \/ ResetSwitches \/ EraseSwitches \/ UNCHANGED swVars
             PROVE  SwitchInv'
  OBVIOUS
<1> USE DEF SwitchInv, PlacesOK, AskedIsSaved, SavedFits, RunsAsSaved, Switches, swNvs
<1>1. CASE StopSwitches
  BY <1>1 DEF StopSwitches
<1>2. CASE ResetSwitches
  BY <1>2 DEF ResetSwitches
<1>3. CASE EraseSwitches
  BY <1>3, SwitchListAssumption DEF EraseSwitches
<1>4. CASE UNCHANGED swVars
  BY <1>4 DEF swVars
<1> QED BY <1>1, <1>2, <1>3, <1>4

(* The inductive invariant.                                                  *)
THEOREM SwitchInvariant == SwitchSpec => []SwitchInv
<1>1. SwitchInv /\ [SwitchNext]_swVars => SwitchInv'
  BY StartKeepsSwitchInv, CommandKeepsSwitchInv, OthersKeepSwitchInv DEF SwitchNext
<1> QED BY <1>1, InitSwitchInv, PTL DEF SwitchSpec

(* Every switch comes back as it was last told to be, for any lists.         *)
THEOREM SwitchesReturn == SwitchSpec => []SwitchesComeBack
<1>1. SwitchInv => SwitchesComeBack
  BY DEF SwitchInv, AskedIsSaved, RunsAsSaved, SwitchesComeBack
<1> QED BY <1>1, SwitchInvariant, PTL

-----------------------------------------------------------------------------
(* The LED adapter                                                          *)

(* The levels in memory, in the manager's copy and in NVS are duties.        *)
LevelsOK ==
  /\ ledNow \in Duties /\ ledBack \in Duties
  /\ ledCfg \in Pair /\ ledNvs \in Pair

(* An LED that is lit would come on again as bright.                         *)
Matched(now, back) == \A i \in LedId : now[i] > 0 => back[i] = now[i]

(* As long as nothing failed: the manager's copy is what NVS holds, and the  *)
(* two levels match in memory.  They match in NVS too, except between the    *)
(* two writes of a save, where the first level there is the one in memory.   *)
CopiesAgree == ledSure => ledCfg = ledNvs
LevelsMatch == ledSure => Matched(ledNow, ledBack)
NvsMatches == ledSure /\ Idle => Matched(ledNvs.now, ledNvs.back)
HalfSaved == ledSure /\ ~Idle => ledNvs.now = ledNow
CleanIsSaved ==
  ledSure /\ Idle /\ ledRunning /\ ~ledDirty => ledNvs.now = ledNow /\ ledNvs.back = ledBack
LedInv == LevelsOK /\ CopiesAgree /\ LevelsMatch /\ NvsMatches /\ HalfSaved /\ CleanIsSaved

(* Dark and full are duties, and dark matches anything.                      *)
LEMMA DutyFacts ==
  /\ AllOff \in Duties /\ [i \in LedId |-> Full] \in Duties
  /\ Cleared \in Pair /\ Cleared.now = AllOff /\ Cleared.back = AllOff
  /\ \A back : Matched(AllOff, back)
  BY DEF AllOff, Duties, Full, Cleared, Pair, Matched

(* It holds when the device is new.                                          *)
LEMMA InitLedInv == LedInit => LedInv
  BY DutyFacts
  DEF LedInit, LedInv, LevelsOK, CopiesAgree, LevelsMatch, NvsMatches, HalfSaved,
      CleanIsSaved, Idle

(* A start takes both levels from the copy, or matches them by itself.       *)
LEMMA StartKeepsLedInv == LedInv /\ StartLeds => LedInv'
<1> SUFFICES ASSUME LedInv, StartLeds PROVE LedInv'
  OBVIOUS
<1> USE DEF LedInv, LevelsOK, CopiesAgree, LevelsMatch, NvsMatches, HalfSaved, CleanIsSaved,
            Idle
<1>1. CASE ledNow' = ledCfg.now /\ ledBack' = ledCfg.back
  BY <1>1 DEF StartLeds, Pair
<1>2. CASE ledNow' = AllOff /\ ledBack' = [i \in LedId |-> Full] /\ UNCHANGED ledRunning
  BY <1>2, DutyFacts DEF StartLeds
<1> QED BY <1>1, <1>2 DEF StartLeds

(* A command sets both levels, and the flag.                                 *)
LEMMA CommandKeepsLedInv == LedInv /\ CommandLed => LedInv'
<1> SUFFICES ASSUME LedInv, CommandLed PROVE LedInv'
  OBVIOUS
<1> USE DEF LedInv
<1>1. PICK i \in LedId, b \in 0..Full : SetBrightness(i, b)
  <2>1. \A i \in LedId : ledBack[i] \in 0..Full
    BY DEF LevelsOK, Duties
  <2>2. 0 \in 0..Full /\ Full \in 0..Full /\ Brightness \subseteq 0..Full
    BY LedAssumption DEF Full
  <2>3. ASSUME NEW i \in LedId, TurnOn(i)
        PROVE  \E b \in 0..Full : SetBrightness(i, b)
    BY <2>1, <2>2, <2>3 DEF TurnOn
  <2> HIDE DEF LedInv
  <2> QED BY <2>2, <2>3 DEF CommandLed
<1>2. /\ ledNow' = [ledNow EXCEPT ![i] = b] /\ ledDirty' = TRUE
      /\ ledBack' = [ledBack EXCEPT ![i] = IF b > 0 THEN b ELSE @]
  BY <1>1 DEF SetBrightness
<1>3. Idle /\ ledRunning /\ UNCHANGED <<ledRunning, ledLast, ledCfg, ledNvs, ledSaving, ledSure>>
  BY DEF CommandLed
<1>4. ledNow' \in Duties /\ ledBack' \in Duties
  BY <1>2 DEF LevelsOK, Duties, Full
<1>5. Matched(ledNow, ledBack) => Matched(ledNow', ledBack')
  BY <1>2 DEF Matched, LevelsOK, Duties, Full
<1>6. LevelsOK' /\ CopiesAgree' /\ LevelsMatch'
  BY <1>3, <1>4, <1>5 DEF LevelsOK, CopiesAgree, LevelsMatch
<1>7. NvsMatches' /\ HalfSaved' /\ CleanIsSaved'
  BY <1>2, <1>3 DEF NvsMatches, HalfSaved, CleanIsSaved, Idle
<1> QED BY <1>6, <1>7

(* The first write brings the first level to NVS, unless nothing changed.    *)
LEMMA SaveKeepsLedInv ==
  ASSUME NEW caller \in {"interval", "stop"}, LedInv, Idle,
         caller = "interval" => ledDirty,
         SaveLeds(caller), UNCHANGED <<ledNow, ledBack, ledLast>>
  PROVE  LedInv'
<1> USE DEF LedInv
<1>1. CASE /\ ledCfg' = [ledCfg EXCEPT !.now = ledNow] /\ ledSaving' = caller
           /\ \/ ledNvs' = [ledNvs EXCEPT !.now = ledNow] /\ UNCHANGED ledSure
              \/ ledSure' = FALSE /\ UNCHANGED ledNvs
           /\ UNCHANGED <<ledRunning, ledDirty>>
  BY <1>1
  DEF LevelsOK, CopiesAgree, LevelsMatch, NvsMatches, HalfSaved, CleanIsSaved, Idle, Pair
<1>2. CASE /\ ledRunning' = (ledRunning /\ caller # "stop")
           /\ UNCHANGED <<ledDirty, ledCfg, ledNvs, ledSaving, ledSure>>
  BY <1>2
  DEF LevelsOK, CopiesAgree, LevelsMatch, NvsMatches, HalfSaved, CleanIsSaved, Idle
<1> QED BY <1>1, <1>2 DEF SaveLeds

(* The second write completes the pair.                                      *)
LEMMA SaveEndKeepsLedInv == LedInv /\ SaveLedsEnd => LedInv'
<1> SUFFICES ASSUME LedInv, SaveLedsEnd PROVE LedInv'
  OBVIOUS
<1>1. /\ ledCfg' = [ledCfg EXCEPT !.back = ledBack] /\ ~Idle /\ Idle'
      /\ \/ ledNvs' = [ledNvs EXCEPT !.back = ledBack] /\ UNCHANGED ledSure
         \/ ledSure' = FALSE /\ UNCHANGED ledNvs
      /\ UNCHANGED <<ledNow, ledBack>>
  BY DEF SaveLedsEnd, Idle
<1> QED
  BY <1>1
  DEF LedInv, LevelsOK, CopiesAgree, LevelsMatch, NvsMatches, HalfSaved, CleanIsSaved, Pair

(* A reset leaves what NVS holds.                                            *)
LEMMA ResetKeepsLedInv == LedInv /\ ResetLeds => LedInv'
<1> SUFFICES ASSUME LedInv, ResetLeds PROVE LedInv'
  OBVIOUS
<1> USE DEF LedInv
<1>1. /\ ledNow' = AllOff /\ ledBack' = AllOff /\ ledRunning' = FALSE
      /\ Idle' /\ UNCHANGED ledNvs
  BY DEF ResetLeds, Idle
<1>2. LevelsMatch' /\ HalfSaved' /\ CleanIsSaved'
  BY <1>1, DutyFacts DEF LevelsMatch, HalfSaved, CleanIsSaved
<1>3. CASE ledCfg' = ledNvs /\ ledSure' = (ledSure /\ Idle)
  BY <1>1, <1>2, <1>3, DutyFacts DEF LevelsOK, CopiesAgree, NvsMatches
<1>4. CASE /\ ledCfg' \in {Cleared, [ledNvs EXCEPT !.now = AllOff], [ledNvs EXCEPT !.back = AllOff]}
           /\ ledSure' = FALSE
  BY <1>1, <1>2, <1>4, DutyFacts DEF LevelsOK, CopiesAgree, NvsMatches, Pair
<1> QED BY <1>3, <1>4 DEF ResetLeds

(* The inductive invariant.                                                  *)
THEOREM LedInvariant == LedSpec => []LedInv
<1>1. LedInv /\ [LedNext]_ledVars => LedInv'
  <2> SUFFICES ASSUME LedInv, [LedNext]_ledVars PROVE LedInv'
    OBVIOUS
  <2>1. CASE StopLeds
    BY <2>1, SaveKeepsLedInv DEF StopLeds
  <2>2. CASE LedInterval
    BY <2>2, SaveKeepsLedInv DEF LedInterval
  <2>3. CASE UNCHANGED ledVars
    BY <2>3
    DEF ledVars, LedInv, LevelsOK, CopiesAgree, LevelsMatch, NvsMatches, HalfSaved,
        CleanIsSaved, Idle
  <2> QED
    BY <2>1, <2>2, <2>3, StartKeepsLedInv, CommandKeepsLedInv, SaveEndKeepsLedInv, ResetKeepsLedInv
    DEF LedNext
<1> QED BY <1>1, InitLedInv, PTL DEF LedSpec

(* Brightness and last brightness match, and with a clear state_dirty both  *)
(* are saved, for any LEDs and values.                                       *)
THEOREM LedsStayKept == LedSpec => []LedsKept
<1>1. LedInv => LedsKept
  BY DEF LedInv, LevelsOK, CopiesAgree, LevelsMatch, Matched, CleanIsSaved, LedsKept, Pair
<1> QED BY <1>1, LedInvariant, PTL

-----------------------------------------------------------------------------
(* The strip: its calls are lists of steps, with the effect's task between  *)
(* any two of them                                                          *)

(* The list todo begins with step, and what is left then is rest.           *)
Starts(todo, step, rest) == todo # <<>> /\ Head(todo) = step /\ Tail(todo) = rest

(* What is appended to a list does not change its first step,                *)
LEMMA Joined ==
  ASSUME NEW S, NEW s \in Seq(S), NEW t \in Seq(S), s # <<>>
  PROVE  /\ s \o t \in Seq(S) /\ s \o t # <<>>
         /\ Head(s \o t) = Head(s) /\ Tail(s \o t) = Tail(s) \o t
<1>1. /\ s \o t \in Seq(S) /\ s \o t # <<>> /\ Head(s \o t) = Head(s) /\ Tail(s) \in Seq(S)
      /\ Len(s \o t) = Len(s) + Len(t) /\ Len(Tail(s)) = Len(s) - 1
      /\ Len(s) \in Nat /\ Len(t) \in Nat
  OBVIOUS
<1> DEFINE u == Tail(s \o t)
           v == Tail(s) \o t
<1>2. u \in Seq(S) /\ v \in Seq(S) /\ Len(u) = Len(v) /\ Len(u) = Len(s) + Len(t) - 1
  BY <1>1
<1>3. \A i \in 1..Len(u) : u[i] = v[i]
  BY <1>1
<1>4. u = v
  BY <1>2, <1>3, SeqEqual
<1> QED BY <1>1, <1>4

(* so it still begins with it,                                               *)
LEMMA StartsJoined ==
  ASSUME NEW S, NEW s \in Seq(S), NEW t \in Seq(S), NEW a, NEW r, Starts(s, a, r)
  PROVE  s \o t \in Seq(S) /\ Starts(s \o t, a, r \o t)
  BY Joined DEF Starts

(* and a step put before a list is the first one then.                       *)
LEMMA StartsWith ==
  ASSUME NEW S, NEW a \in S, NEW s \in Seq(S)
  PROVE  <<a>> \o s \in Seq(S) /\ Starts(<<a>> \o s, a, s)
<1>1. <<a>> \in Seq(S) /\ Starts(<<a>>, a, <<>>)
  BY DEF Starts
<1>2. <<>> \o s = s
  BY ConcatEmptySeq
<1>3. <<a>> \o s \in Seq(S) /\ Starts(<<a>> \o s, a, <<>> \o s)
  BY <1>1, StartsJoined
<1> QED BY <1>2, <1>3

(* The steps, and what is left of a stop of the effect at each of them.      *)
NpSteps == {"request", "wait", "test", "kill", "none", "dark", "take", "give", "color", "solid",
            "moving", "recent", "init", "up", "deinit"}
FromWait == <<"wait", "test", "kill", "none", "dark", "take", "give">>
FromTest == <<"test", "kill", "none", "dark", "take", "give">>
FromKill == <<"kill", "none", "dark", "take", "give">>
FromNone == <<"none", "dark", "take", "give">>
FromDark == <<"dark", "take", "give">>

(* What may follow: the rest of the adapter's start, if that is under way;   *)
(* after a plain colour is shown, after a stop, and after the time of an     *)
(* effect's start is noted.                                                  *)
ColorThen(then) == <<"color">> \o (Show \o then)
SolidThen(then) == <<"solid">> \o ColorThen(then)
Begin(then) == <<"recent">> \o (StopEffect \o then)
ThenUp == IF npStrip /\ ~npUp THEN <<"up">> ELSE <<>>
AfterBegin == {SolidThen(ThenUp)} \cup IF npUp THEN {<<"moving">>} ELSE {}
AfterShow ==
  {ThenUp} \cup IF npUp THEN {StopEffect \o <<>>} \cup {Begin(t) : t \in AfterBegin} ELSE {}
AfterStop ==
  {SolidThen(ThenUp)}
  \cup IF npUp THEN {<<>>, <<"moving">>, <<"deinit">>} \cup {ColorThen(t) : t \in AfterShow} ELSE {}

(* At all times, unless a stop has deleted the wrong task.                   *)
NpShape ==
  /\ npHandle <=> npAt # "none"
  /\ npSem = "effect" <=> npAt = "refresh"
  /\ npStrip <=> npSem # "none"
  /\ ~npStrip => npBuffer = "dark" /\ npShown = "dark"
  /\ npHandle => npUp
  /\ npUp => npStrip

(* No effect is left; or one runs and nobody asks it to end.                 *)
Gone == ~npHandle /\ npSem # "caller"
Clean == Gone /\ npEffect # "moving" /\ npBuffer = npShown /\ npShown # "moving"
Drawn == ~npHandle /\ npEffect # "moving" /\ npBuffer # "moving"
Runs == npHandle /\ npEffect = "moving" /\ ~npQuit /\ npAt # "leave" /\ npSem # "caller"
AtPeace == Clean \/ Runs

(* A stop that is under way, followed by t.                                  *)
Leaving == npSem # "caller" /\ (npHandle => npQuit /\ npAt \in {"delay", "loop", "leave"})
InStop(t) ==
  \/ npTodo = StopEffect \o t /\ AtPeace
  \/ npTodo = FromWait \o t /\ npSem # "caller" /\ (npHandle => npQuit)
  \/ npTodo = FromTest \o t /\ Leaving
  \/ npTodo = FromKill \o t /\ Leaving
  \/ npTodo = FromNone \o t /\ Gone
  \/ npTodo = FromDark \o t /\ Gone /\ npEffect = "none"
InShow(t) ==
  \/ npTodo = Show \o t /\ Drawn /\ npSem # "caller"
  \/ npTodo = <<"give">> \o t /\ Drawn /\ (npStrip => npSem = "caller")
NpStage ==
  \/ npTodo = <<>> /\ AtPeace /\ (npUp <=> npStrip)
  \/ npTodo = <<"up">> /\ AtPeace /\ ~npUp /\ npStrip
  \/ /\ \E t \in {<<"up">>, Begin(SolidThen(<<"up">>))} : npTodo = <<"init">> \o t
     /\ AtPeace /\ ~npUp /\ ~npStrip
  \/ \E t \in AfterBegin : npTodo = Begin(t) /\ AtPeace
  \/ \E t \in AfterStop : InStop(t)
  \/ \E t \in AfterStop \cup AfterShow : InShow(t)
  \/ npTodo \in AfterStop /\ Clean
  \/ \E t \in AfterShow : npTodo = ColorThen(t) /\ Clean
NpInv == ~npDead => NpShape /\ NpStage
(* The calls of two lists, joined, are those of the one and of the other.    *)
LEMMA JoinedAt ==
  \A s, t \in Seq(NpSteps) :
    /\ s \o t \in Seq(NpSteps) /\ Len(s \o t) = Len(s) + Len(t)
    /\ \A i \in 1..Len(s) : (s \o t)[i] = s[i]
    /\ \A i \in 1..Len(t) : (s \o t)[Len(s) + i] = t[i]
  OBVIOUS

(* neopixel_effect_stop, step by step.                                       *)
LEMMA StopSteps ==
  StopEffect = <<"request", "wait", "test", "kill", "none", "dark", "take", "give">>
<1> DEFINE s == <<"request", "wait", "test", "kill", "none", "dark">>
           t == <<"take", "give">>
           u == <<"request", "wait", "test", "kill", "none", "dark", "take", "give">>
<1>1. /\ s \in Seq(NpSteps) /\ Len(s) = 6 /\ t \in Seq(NpSteps) /\ Len(t) = 2
      /\ u \in Seq(NpSteps) /\ Len(u) = 8
      /\ \A i \in 1..6 : u[i] = s[i]
      /\ u[6 + 1] = t[1] /\ u[6 + 2] = t[2]
  BY DEF NpSteps
<1>2. StopEffect = s \o t
  BY DEF StopEffect, Show
<1> HIDE DEF s, t, u
<1>3. /\ s \o t \in Seq(NpSteps) /\ Len(s \o t) = Len(s) + Len(t)
      /\ \A i \in 1..Len(s) : (s \o t)[i] = s[i]
      /\ \A i \in 1..Len(t) : (s \o t)[Len(s) + i] = t[i]
  BY <1>1, JoinedAt, Zenon
<1>4. /\ s \o t \in Seq(NpSteps) /\ Len(s \o t) = 6 + 2
      /\ \A i \in 1..6 : (s \o t)[i] = s[i]
      /\ \A i \in 1..2 : (s \o t)[6 + i] = t[i]
  BY <1>1, <1>3, Zenon
<1> DEFINE v == s \o t
<1> HIDE DEF v
<1>5. /\ v \in Seq(NpSteps) /\ Len(v) = 6 + 2
      /\ \A i \in 1..6 : v[i] = s[i]
      /\ \A i \in 1..2 : v[6 + i] = t[i]
  BY <1>4 DEF v
<1>6. \A i \in 1..8 : v[i] = u[i]
  <2>1. v[6 + 1] = t[1] /\ v[6 + 2] = t[2]
    BY <1>5
  <2> QED BY <1>1, <1>5, <2>1
<1>7. v = u
  <2>1. Len(v) = Len(u) /\ \A i \in 1..Len(v) : v[i] = u[i]
    BY <1>1, <1>5, <1>6
  <2> QED BY <1>1, <1>5, <2>1, SeqEqual, Zenon
<1> QED BY <1>2, <1>7 DEF u, v

(* The lists of a stop.                                                      *)
LEMMA StopLists ==
  /\ {StopEffect, FromWait, FromTest, FromKill, FromNone, FromDark, Show, <<"give">>, <<>>}
       \subseteq Seq(NpSteps)
  /\ Starts(StopEffect, "request", FromWait) /\ Starts(FromWait, "wait", FromTest)
  /\ Starts(FromTest, "test", FromKill) /\ Starts(FromKill, "kill", FromNone)
  /\ Starts(FromNone, "none", FromDark) /\ Starts(FromDark, "dark", Show)
  /\ Starts(Show, "take", <<"give">>) /\ Starts(<<"give">>, "give", <<>>)
<1> USE StopSteps DEF Starts, FromWait, FromTest, FromKill, FromNone, FromDark, Show
<1>1. /\ StopEffect \in Seq(NpSteps) /\ FromWait \in Seq(NpSteps) /\ FromTest \in Seq(NpSteps)
      /\ FromKill \in Seq(NpSteps) /\ FromNone \in Seq(NpSteps) /\ FromDark \in Seq(NpSteps)
      /\ Show \in Seq(NpSteps) /\ <<"give">> \in Seq(NpSteps) /\ <<>> \in Seq(NpSteps)
  BY DEF NpSteps
<1>2. Starts(StopEffect, "request", FromWait)
  OBVIOUS
<1>3. Starts(FromWait, "wait", FromTest)
  OBVIOUS
<1>4. Starts(FromTest, "test", FromKill) /\ Starts(FromKill, "kill", FromNone)
  OBVIOUS
<1>5. Starts(FromNone, "none", FromDark) /\ Starts(FromDark, "dark", Show)
  OBVIOUS
<1>6. Starts(Show, "take", <<"give">>) /\ Starts(<<"give">>, "give", <<>>)
  OBVIOUS
<1> HIDE StopSteps DEF Starts, FromWait, FromTest, FromKill, FromNone, FromDark, Show
<1> QED BY <1>1, <1>2, <1>3, <1>4, <1>5, <1>6

(* The same with something to follow; and what a stop leaves out.            *)
LEMMA StopThenLists ==
  ASSUME NEW t \in Seq(NpSteps)
  PROVE  /\ Starts(StopEffect \o t, "request", FromWait \o t)
         /\ Starts(FromWait \o t, "wait", FromTest \o t)
         /\ Starts(FromTest \o t, "test", FromKill \o t)
         /\ Starts(FromKill \o t, "kill", FromNone \o t)
         /\ Starts(FromNone \o t, "none", FromDark \o t)
         /\ Starts(FromDark \o t, "dark", Show \o t)
         /\ Starts(Show \o t, "take", <<"give">> \o t)
         /\ Starts(<<"give">> \o t, "give", t)
         /\ SkipEnd(StopEffect \o t) = FromNone \o t
<1>1. <<>> \o t = t
  BY ConcatEmptySeq
<1>2. ASSUME NEW s \in Seq(NpSteps), NEW a, NEW r, Starts(s, a, r)
      PROVE  Starts(s \o t, a, r \o t)
  BY <1>2, StartsJoined
<1>3. SkipEnd(StopEffect \o t) = FromNone \o t
  <2> DEFINE todo == StopEffect \o t
  <2>1. /\ todo \in Seq(NpSteps) /\ Len(todo) = 8 + Len(t) /\ Len(t) \in Nat
        /\ todo[1] = "request" /\ todo[2] = "wait" /\ todo[3] = "test" /\ todo[4] = "kill"
        /\ todo[5] = "none" /\ todo[6] = "dark" /\ todo[7] = "take" /\ todo[8] = "give"
        /\ \A i \in 1..Len(t) : todo[8 + i] = t[i]
    <3>1. /\ StopEffect \in Seq(NpSteps) /\ Len(StopEffect) = 8
          /\ StopEffect[1] = "request" /\ StopEffect[2] = "wait" /\ StopEffect[3] = "test"
          /\ StopEffect[4] = "kill" /\ StopEffect[5] = "none" /\ StopEffect[6] = "dark"
          /\ StopEffect[7] = "take" /\ StopEffect[8] = "give"
      BY StopSteps DEF NpSteps
    <3>2. /\ todo \in Seq(NpSteps) /\ Len(todo) = Len(StopEffect) + Len(t)
          /\ \A i \in 1..Len(StopEffect) : todo[i] = StopEffect[i]
          /\ \A i \in 1..Len(t) : todo[Len(StopEffect) + i] = t[i]
      BY <3>1, JoinedAt, Zenon
    <3>3. Len(t) \in Nat
      OBVIOUS
    <3> HIDE DEF todo
    <3> QED BY <3>1, <3>2, <3>3
  <2>2. FromNone \o t \in Seq(NpSteps) /\ Len(FromNone \o t) = 4 + Len(t)
        /\ (FromNone \o t)[1] = "none" /\ (FromNone \o t)[2] = "dark"
        /\ (FromNone \o t)[3] = "take" /\ (FromNone \o t)[4] = "give"
        /\ \A i \in 1..Len(t) : (FromNone \o t)[4 + i] = t[i]
    <3>1. FromNone \in Seq(NpSteps) /\ Len(FromNone) = 4
          /\ FromNone[1] = "none" /\ FromNone[2] = "dark" /\ FromNone[3] = "take"
          /\ FromNone[4] = "give"
      BY DEF FromNone, NpSteps
    <3> DEFINE rest == FromNone \o t
    <3>2. rest \in Seq(NpSteps) /\ Len(rest) = Len(FromNone) + Len(t)
          /\ (\A i \in 1..Len(FromNone) : rest[i] = FromNone[i])
          /\ \A i \in 1..Len(t) : rest[Len(FromNone) + i] = t[i]
      BY <3>1, JoinedAt
    <3> HIDE DEF rest
    <3>3. /\ rest \in Seq(NpSteps) /\ Len(rest) = 4 + Len(t)
          /\ rest[1] = "none" /\ rest[2] = "dark" /\ rest[3] = "take" /\ rest[4] = "give"
          /\ \A i \in 1..Len(t) : rest[4 + i] = t[i]
      BY <3>1, <3>2
    <3> QED BY <3>3 DEF rest
  <2> HIDE DEF todo
  <2> DEFINE First(k) == todo[k] = "none" /\ \A j \in 1..k - 1 : todo[j] # "none"
  <2>3. 5 \in 1..Len(todo) /\ First(5)
    BY <2>1
  <2>4. ASSUME NEW k \in 1..Len(todo), First(k) PROVE k = 5
    <3>1. k \notin 1..4
      BY <2>1, <2>4
    <3>2. ~(5 \in 1..k - 1)
      BY <2>1, <2>4
    <3> QED BY <3>1, <3>2, <2>1
  <2>5. (CHOOSE k \in 1..Len(todo) : First(k)) = 5
    <3> HIDE DEF First
    <3> QED BY <2>3, <2>4
  <2>6. SkipEnd(todo) = SubSeq(todo, 5, Len(todo))
    BY <2>5 DEF SkipEnd
  <2>7. /\ SubSeq(todo, 5, Len(todo)) \in Seq(NpSteps)
        /\ Len(SubSeq(todo, 5, Len(todo))) = 4 + Len(t)
        /\ \A i \in 1..4 + Len(t) : SubSeq(todo, 5, Len(todo))[i] = todo[4 + i]
    BY <2>1
  <2>8. \A i \in 1..4 + Len(t) : todo[4 + i] = (FromNone \o t)[i]
    <3> SUFFICES ASSUME NEW i \in 1..4 + Len(t) PROVE todo[4 + i] = (FromNone \o t)[i]
      OBVIOUS
    <3>1. CASE i \in 1..4
      BY <3>1, <2>1, <2>2
    <3>2. CASE i \notin 1..4
      <4>1. i - 4 \in 1..Len(t) /\ 4 + i = 8 + (i - 4) /\ i = 4 + (i - 4)
        BY <3>2, <2>1
      <4>2. todo[8 + (i - 4)] = t[i - 4] /\ (FromNone \o t)[4 + (i - 4)] = t[i - 4]
        BY <4>1, <2>1, <2>2
      <4> QED BY <4>1, <4>2
    <3> QED BY <3>1, <3>2
  <2> DEFINE left == SubSeq(todo, 5, Len(todo))
             rest == FromNone \o t
  <2>9. /\ left \in Seq(NpSteps) /\ rest \in Seq(NpSteps) /\ Len(left) = Len(rest)
        /\ \A i \in 1..Len(left) : left[i] = rest[i]
    <3>1. \A i \in 1..4 + Len(t) : left[i] = rest[i]
      BY <2>7, <2>8
    <3> HIDE DEF rest
    <3> QED BY <2>2, <2>7, <3>1 DEF rest
  <2>10. left = rest
    <3> HIDE DEF left, rest
    <3> QED BY <2>9, SeqEqual
  <2> QED BY <2>6, <2>10 DEF todo
<1> QED BY <1>1, <1>2, <1>3, StopLists

(* The lists that are put together of these.                                 *)
LEMMA ThenLists ==
  ASSUME NEW t \in Seq(NpSteps)
  PROVE  /\ ColorThen(t) \in Seq(NpSteps) /\ Starts(ColorThen(t), "color", Show \o t)
         /\ SolidThen(t) \in Seq(NpSteps) /\ Starts(SolidThen(t), "solid", ColorThen(t))
         /\ Begin(t) \in Seq(NpSteps) /\ Starts(Begin(t), "recent", StopEffect \o t)
<1>1. Show \o t \in Seq(NpSteps) /\ StopEffect \o t \in Seq(NpSteps)
  BY StopLists, StartsJoined
<1>2. "color" \in NpSteps /\ "solid" \in NpSteps /\ "recent" \in NpSteps
  BY DEF NpSteps
<1>3. ColorThen(t) \in Seq(NpSteps) /\ Starts(ColorThen(t), "color", Show \o t)
  BY <1>1, <1>2, StartsWith DEF ColorThen
<1>4. SolidThen(t) \in Seq(NpSteps) /\ Starts(SolidThen(t), "solid", ColorThen(t))
  BY <1>2, <1>3, StartsWith DEF SolidThen
<1>5. Begin(t) \in Seq(NpSteps) /\ Starts(Begin(t), "recent", StopEffect \o t)
  BY <1>1, <1>2, StartsWith DEF Begin
<1> QED BY <1>3, <1>4, <1>5

(* and the single steps.                                                     *)
LEMMA SingleLists ==
  /\ <<"up">> \in Seq(NpSteps) /\ Starts(<<"up">>, "up", <<>>)
  /\ <<"moving">> \in Seq(NpSteps) /\ Starts(<<"moving">>, "moving", <<>>)
  /\ <<"deinit">> \in Seq(NpSteps) /\ Starts(<<"deinit">>, "deinit", <<>>)
  /\ <<>> \in Seq(NpSteps)
  BY DEF Starts, NpSteps

LEMMA TailLists ==
  /\ ThenUp \in Seq(NpSteps)
  /\ AfterBegin \subseteq Seq(NpSteps) /\ AfterShow \subseteq Seq(NpSteps)
  /\ AfterStop \subseteq Seq(NpSteps) /\ AfterBegin \subseteq AfterStop
<1>1. ThenUp \in Seq(NpSteps)
  BY SingleLists DEF ThenUp
<1>2. AfterBegin \subseteq Seq(NpSteps)
  BY <1>1, SingleLists, ThenLists DEF AfterBegin
<1>3. AfterShow \subseteq Seq(NpSteps)
  <2>1. StopEffect \o <<>> \in Seq(NpSteps)
    BY StopLists, SingleLists, StartsJoined
  <2>2. ASSUME NEW t \in AfterBegin PROVE Begin(t) \in Seq(NpSteps)
    BY <1>2, ThenLists
  <2> QED BY <1>1, <2>1, <2>2 DEF AfterShow
<1>4. AfterStop \subseteq Seq(NpSteps)
  <2>1. ASSUME NEW t \in AfterShow PROVE ColorThen(t) \in Seq(NpSteps)
    BY <1>3, ThenLists
  <2>2. SolidThen(ThenUp) \in Seq(NpSteps)
    BY <1>1, ThenLists
  <2> QED BY <2>1, <2>2, SingleLists DEF AfterStop
<1>5. AfterBegin \subseteq AfterStop
  BY DEF AfterBegin, AfterStop
<1> QED BY <1>1, <1>2, <1>3, <1>4, <1>5

-----------------------------------------------------------------------------
(* The supervisor does the step that is next.                                *)
LEMMA StepIs ==
  ASSUME NEW step, NEW rest, Starts(npTodo, step, rest), SupervisorStep
  PROVE  /\ step = "request" => RequestEnd
         /\ step = "wait" => WaitForEffect /\ npTodo' = rest
         /\ step = "test" => TestHandle
         /\ step = "kill" => KillEffect /\ npTodo' = rest
         /\ step \in {"none", "solid", "moving"} => SetEffect(step) /\ npTodo' = rest
         /\ step \in {"dark", "color"} => Draw(step) /\ npTodo' = rest
         /\ step = "take" => TakeShow /\ npTodo' = rest
         /\ step = "give" => GiveShow /\ npTodo' = rest
         /\ step = "recent" => Remember /\ npTodo' = rest
         /\ step = "init" => (InitStrip /\ npTodo' = rest) \/ InitFails
         /\ step = "up" => AdapterUp /\ npTodo' = rest
         /\ step = "deinit" => DeinitStrip /\ npTodo' = rest
<1>1. npTodo # <<>> /\ Head(npTodo) = step /\ Tail(npTodo) = rest
  BY DEF Starts
<1>2. ASSUME NEW other, NextIs(other) PROVE other = step /\ npTodo' = rest
  BY <1>1, <1>2 DEF NextIs
<1>3. /\ InitStrip => NextIs("init")
      /\ AdapterUp => NextIs("up")
      /\ DeinitStrip => NextIs("deinit")
      /\ WaitForEffect => NextIs("wait")
      /\ KillEffect => NextIs("kill")
      /\ Remember => NextIs("recent")
      /\ TakeShow => NextIs("take")
      /\ GiveShow => NextIs("give")
  BY DEF InitStrip, AdapterUp, DeinitStrip, WaitForEffect, KillEffect, Remember, TakeShow, GiveShow
<1>4. /\ \A effect : SetEffect(effect) => NextIs(effect)
      /\ \A picture : Draw(picture) => NextIs(picture)
  BY DEF SetEffect, Draw
<1>5. /\ InitFails => step = "init"
      /\ RequestEnd => step = "request"
      /\ TestHandle => step = "test"
  BY <1>1 DEF InitFails, RequestEnd, TestHandle
<1> QED BY <1>2, <1>3, <1>4, <1>5 DEF SupervisorStep

(* A stop goes on, and then what follows it.                                 *)
LEMMA StopGoesOn ==
  ASSUME NpShape, NEW t \in Seq(NpSteps), InStop(t), SupervisorStep, ~npDead'
  PROVE  NpShape' /\ (InStop(t)' \/ InShow(t)') /\ UNCHANGED <<npUp, npStrip>>
<1> USE StopThenLists
<1>1. CASE npTodo = StopEffect \o t /\ AtPeace
  <2>1. RequestEnd
    BY <1>1, StepIs
  <2>2. /\ npQuit' = (npQuit \/ npHandle)
        /\ npTodo' = IF npHandle THEN FromWait \o t ELSE FromNone \o t
        /\ UNCHANGED <<npPixels, npHandle, npEffect, npAt, npSlow, npAdapter>>
    BY <1>1, <2>1 DEF RequestEnd, Starts
  <2>3. NpShape' /\ UNCHANGED <<npUp, npStrip>>
    BY <2>2 DEF NpShape, npPixels, npAdapter
  <2>4. CASE npHandle
    <3>1. npTodo' = FromWait \o t
      BY <2>2, <2>4
    <3>2. npSem' # "caller" /\ npQuit'
      BY <1>1, <2>2, <2>4 DEF AtPeace, Clean, Gone, Runs, npPixels
    <3> QED BY <2>3, <3>1, <3>2 DEF InStop
  <2>5. CASE ~npHandle
    <3>1. npTodo' = FromNone \o t
      BY <2>2, <2>5
    <3>2. Gone'
      BY <1>1, <2>2, <2>5 DEF AtPeace, Clean, Gone, Runs, npPixels
    <3> QED BY <2>3, <3>1, <3>2 DEF InStop
  <2> QED BY <2>4, <2>5
<1>2. CASE npTodo = FromWait \o t /\ npSem # "caller" /\ (npHandle => npQuit)
  <2>1. WaitForEffect /\ npTodo' = FromTest \o t
    BY <1>2, StepIs
  <2>2. (~npHandle \/ npAt \in {"delay", "leave"}) /\ UNCHANGED <<npPixels, npTask, npAdapter>>
    BY <2>1 DEF WaitForEffect
  <2> QED BY <1>2, <2>1, <2>2 DEF NpShape, InStop, Leaving, npPixels, npTask, npAdapter
<1>3. CASE npTodo = FromTest \o t /\ Leaving
  <2>1. TestHandle
    BY <1>3, StepIs
  <2>2. /\ npTodo' = IF npHandle THEN FromKill \o t ELSE FromNone \o t
        /\ UNCHANGED <<npPixels, npTask, npAdapter>>
    BY <1>3, <2>1 DEF TestHandle, Starts
  <2> QED BY <1>3, <2>2 DEF NpShape, InStop, Leaving, Gone, npPixels, npTask, npAdapter
<1>4. CASE npTodo = FromKill \o t /\ Leaving
  <2>1. KillEffect /\ npTodo' = FromNone \o t
    BY <1>4, StepIs
  <2>2. /\ npHandle /\ npHandle' = FALSE /\ npAt' = "none"
        /\ UNCHANGED <<npPixels, npUp, npStrip>>
    BY <2>1 DEF KillEffect
  <2> QED BY <1>4, <2>1, <2>2 DEF NpShape, InStop, Leaving, Gone, npPixels
<1>5. CASE npTodo = FromNone \o t /\ Gone
  <2>1. SetEffect("none") /\ npTodo' = FromDark \o t
    BY <1>5, StepIs
  <2>2. /\ npEffect' = "none" /\ UNCHANGED <<npHandle, npQuit, npAt, npSlow>>
        /\ UNCHANGED <<npPixels, npAdapter>>
    BY <2>1 DEF SetEffect
  <2> QED BY <1>5, <2>1, <2>2 DEF NpShape, InStop, Gone, npPixels, npAdapter
<1>6. CASE npTodo = FromDark \o t /\ Gone /\ npEffect = "none"
  <2>1. Draw("dark") /\ npTodo' = Show \o t
    BY <1>6, StepIs
  <2>2. /\ npBuffer' = (IF npStrip THEN "dark" ELSE npBuffer)
        /\ UNCHANGED <<npSem, npShown, npTask, npAdapter>>
    BY <2>1 DEF Draw
  <2> QED BY <1>6, <2>1, <2>2 DEF NpShape, InShow, Drawn, Gone, npTask, npAdapter
<1> QED BY <1>1, <1>2, <1>3, <1>4, <1>5, <1>6 DEF InStop

(* What is drawn is shown, and then comes what follows that.                 *)
LEMMA ShowGoesOn ==
  ASSUME NpShape, NeopixelTypeOK, NEW t \in Seq(NpSteps), InShow(t), SupervisorStep
  PROVE  NpShape' /\ (InShow(t)' \/ (npTodo' = t /\ Clean')) /\ UNCHANGED <<npUp, npStrip>>
<1> USE StopThenLists
<1>1. CASE npTodo = Show \o t /\ Drawn /\ npSem # "caller"
  <2>1. TakeShow /\ npTodo' = <<"give">> \o t
    BY <1>1, StepIs
  <2>2. /\ npSem' = (IF npSem = "free" THEN "caller" ELSE npSem)
        /\ UNCHANGED <<npBuffer, npShown, npTask, npAdapter>>
    BY <2>1 DEF TakeShow
  <2>3. npSem \in {"none", "free"}
    BY <1>1 DEF NeopixelTypeOK, NpShape, Drawn
  <2> QED BY <1>1, <2>1, <2>2, <2>3 DEF NpShape, InShow, Drawn, npTask, npAdapter
<1>2. CASE npTodo = <<"give">> \o t /\ Drawn /\ (npStrip => npSem = "caller")
  <2>1. GiveShow /\ npTodo' = t
    BY <1>2, StepIs
  <2>2. /\ \/ npSem = "caller" /\ npSem' = "free" /\ npShown' = npBuffer
           \/ npSem # "caller" /\ UNCHANGED <<npSem, npShown>>
        /\ UNCHANGED <<npBuffer, npTask, npAdapter>>
    BY <2>1 DEF GiveShow
  <2> QED BY <1>2, <2>1, <2>2 DEF NpShape, Clean, Gone, Drawn, npTask, npAdapter
<1> QED BY <1>1, <1>2 DEF InShow

(* What may follow depends on the adapter and the strip alone.               *)
LEMMA SameAfter ==
  ASSUME UNCHANGED <<npUp, npStrip>>
  PROVE  /\ ThenUp' = ThenUp /\ AfterBegin' = AfterBegin
         /\ AfterShow' = AfterShow /\ AfterStop' = AfterStop
<1>1. ThenUp' = ThenUp
  BY DEF ThenUp
<1>2. AfterBegin' = AfterBegin
  BY <1>1 DEF AfterBegin
<1>3. AfterShow' = AfterShow
  BY <1>1, <1>2 DEF AfterShow
<1>4. AfterStop' = AfterStop
  BY <1>1, <1>3 DEF AfterStop
<1> QED BY <1>1, <1>2, <1>3, <1>4

(* What follows a plain colour is a stage of its own, once that is shown.    *)
LEMMA AfterShowStage ==
  ASSUME NpShape', AtPeace', npTodo' \in AfterShow'
  PROVE  NpStage'
<1>1. CASE npTodo' = ThenUp'
  <2>1. CASE npStrip' /\ ~npUp'
    BY <1>1, <2>1 DEF ThenUp, NpStage
  <2>2. CASE ~(npStrip' /\ ~npUp')
    <3>1. npTodo' = <<>> /\ (npUp' <=> npStrip')
      BY <1>1, <2>2 DEF ThenUp, NpShape
    <3> QED BY <3>1 DEF NpStage
  <2> QED BY <2>1, <2>2
<1>2. CASE npUp' /\ npTodo' = StopEffect \o <<>>
  <2>1. InStop(<<>>)'
    BY <1>2 DEF InStop
  <2>2. <<>> \in AfterStop'
    BY <1>2 DEF AfterStop
  <2> QED BY <2>1, <2>2 DEF NpStage
<1>3. CASE \E t \in AfterBegin' : npTodo' = Begin(t)
  BY <1>3 DEF NpStage
<1> QED BY <1>1, <1>2, <1>3 DEF AfterShow

(* A plain colour is drawn, and then shown.                                  *)
LEMMA ColorGoesOn ==
  ASSUME NpShape, Clean, NEW t \in AfterShow, npTodo = ColorThen(t), SupervisorStep
  PROVE  NpShape' /\ NpStage'
<1>1. Draw("color") /\ npTodo' = Show \o t
  BY StepIs, ThenLists, TailLists
<1>2. /\ npBuffer' = IF npStrip THEN "color" ELSE npBuffer
      /\ UNCHANGED <<npSem, npShown, npTask, npAdapter>>
  BY <1>1 DEF Draw
<1>3. NpShape' /\ Drawn' /\ npSem' # "caller" /\ UNCHANGED <<npUp, npStrip>>
  BY <1>2 DEF NpShape, Clean, Gone, Drawn, npTask, npAdapter
<1>4. InShow(t)' /\ t \in AfterShow'
  BY <1>1, <1>3, SameAfter DEF InShow
<1> QED BY <1>3, <1>4 DEF NpStage

(* What follows a stop goes on.                                              *)
LEMMA StoppedGoesOn ==
  ASSUME NpShape, npTodo \in AfterStop, Clean, SupervisorStep
  PROVE  NpShape' /\ NpStage'
<1>0. npTodo # <<>>
  BY DEF SupervisorStep, InitStrip, InitFails, AdapterUp, DeinitStrip, RequestEnd, WaitForEffect,
         TestHandle, KillEffect, SetEffect, Remember, Draw, TakeShow, GiveShow, NextIs
<1>1. CASE npTodo = SolidThen(ThenUp)
  <2>1. SetEffect("solid") /\ npTodo' = ColorThen(ThenUp)
    BY <1>1, StepIs, ThenLists, TailLists
  <2>2. npEffect' = "solid" /\ UNCHANGED <<npHandle, npAt, npPixels, npAdapter>>
    BY <2>1 DEF SetEffect
  <2>3. NpShape' /\ Clean' /\ UNCHANGED <<npUp, npStrip>>
    BY <2>2 DEF NpShape, Clean, Gone, npPixels, npAdapter
  <2>4. ThenUp \in AfterShow' 
    BY <2>3, SameAfter DEF AfterShow
  <2> QED BY <2>1, <2>3, <2>4 DEF NpStage
<1>2. CASE npUp /\ npTodo = <<"moving">>
  <2>1. SetEffect("moving") /\ npTodo' = <<>>
    BY <1>2, StepIs, SingleLists
  <2>2. npEffect' = "moving" /\ ~npQuit' /\ npHandle' /\ npAt' = "loop"
        /\ UNCHANGED <<npPixels, npAdapter>>
    BY <2>1 DEF SetEffect
  <2>3. NpShape' /\ Runs' /\ (npUp' <=> npStrip')
    BY <1>2, <2>2 DEF NpShape, Runs, Clean, Gone, npPixels, npAdapter
  <2> QED BY <2>1, <2>3 DEF NpStage, AtPeace
<1>3. CASE npUp /\ npTodo = <<"deinit">>
  <2>1. DeinitStrip /\ npTodo' = <<>>
    BY <1>3, StepIs, SingleLists
  <2>2. /\ ~npUp' /\ ~npStrip' /\ npSem' = "none" /\ npBuffer' = "dark" /\ npShown' = "dark"
        /\ UNCHANGED npTask
    BY <2>1 DEF DeinitStrip
  <2>3. NpShape' /\ Clean'
    BY <2>2 DEF NpShape, Clean, Gone, npTask
  <2> QED BY <2>1, <2>2, <2>3 DEF NpStage, AtPeace
<1>4. CASE npUp /\ \E t \in AfterShow : npTodo = ColorThen(t)
  BY <1>4, ColorGoesOn
<1> QED BY <1>0, <1>1, <1>2, <1>3, <1>4 DEF AfterStop

(* Between two calls an effect runs or nothing of one is left.               *)
LEMMA IdleAtPeace ==
  ASSUME NpShape, NpStage, npTodo = <<>>
  PROVE  AtPeace /\ (npUp <=> npStrip)
<1>1. /\ <<"up">> # <<>>
      /\ \A t \in Seq(NpSteps) : /\ <<"init">> \o t # <<>> /\ Begin(t) # <<>> /\ ColorThen(t) # <<>>
                                 /\ ~InStop(t) /\ ~InShow(t)
  <2>1. <<"up">> # <<>>
    OBVIOUS
  <2> SUFFICES ASSUME NEW t \in Seq(NpSteps)
               PROVE  /\ <<"init">> \o t # <<>> /\ Begin(t) # <<>> /\ ColorThen(t) # <<>>
                      /\ ~InStop(t) /\ ~InShow(t)
    BY <2>1
  <2>2. "init" \in NpSteps
    BY DEF NpSteps
  <2>3. <<"init">> \o t # <<>> /\ Begin(t) # <<>> /\ ColorThen(t) # <<>>
    BY <2>2, StartsWith, ThenLists DEF Starts
  <2>4. ~InStop(t) /\ ~InShow(t)
    BY StopThenLists DEF Starts, InStop, InShow
  <2> QED BY <2>3, <2>4
<1>2. <<"up">> \in Seq(NpSteps) /\ Begin(SolidThen(<<"up">>)) \in Seq(NpSteps)
  BY SingleLists, ThenLists
<1>3. \/ AtPeace /\ (npUp <=> npStrip)
      \/ npTodo \in AfterStop /\ Clean
  BY <1>1, <1>2, TailLists DEF NpStage
<1>4. CASE npTodo \in AfterStop /\ Clean
  <2>1. SolidThen(ThenUp) # <<>>
    BY TailLists, ThenLists DEF Starts
  <2>2. npUp
    BY <1>4, <2>1 DEF AfterStop
  <2> QED BY <1>4, <2>2 DEF NpShape, AtPeace
<1> QED BY <1>3, <1>4

(* Whatever step is next, the call reaches another stage of it.              *)
LEMMA SupervisorGoesOn ==
  ASSUME NpShape, NpStage, NeopixelTypeOK, SupervisorStep, ~npDead'
  PROVE  NpShape' /\ NpStage'
<1>1. CASE npTodo = <<>>
  BY <1>1 DEF SupervisorStep, InitStrip, InitFails, AdapterUp, DeinitStrip, RequestEnd, WaitForEffect,
         TestHandle, KillEffect, SetEffect, Remember, Draw, TakeShow, GiveShow, NextIs
<1>2. CASE npTodo = <<"up">> /\ AtPeace /\ ~npUp /\ npStrip
  <2>1. AdapterUp /\ npTodo' = <<>>
    BY <1>2, StepIs, SingleLists
  <2>2. npUp' /\ UNCHANGED <<npPixels, npTask, npStrip>>
    BY <2>1 DEF AdapterUp
  <2>3. NpShape' /\ AtPeace' /\ (npUp' <=> npStrip')
    BY <1>2, <2>2 DEF NpShape, AtPeace, Clean, Gone, Runs, npPixels, npTask
  <2> QED BY <2>1, <2>3 DEF NpStage
<1>3. CASE /\ \E t \in {<<"up">>, Begin(SolidThen(<<"up">>))} : npTodo = <<"init">> \o t
           /\ AtPeace /\ ~npUp /\ ~npStrip
  <2>1. PICK t \in {<<"up">>, Begin(SolidThen(<<"up">>))} : npTodo = <<"init">> \o t
    BY <1>3
  <2>2. "init" \in NpSteps /\ t \in Seq(NpSteps)
    BY SingleLists, ThenLists DEF NpSteps
  <2>3. (InitStrip /\ npTodo' = t) \/ InitFails
    BY <2>1, <2>2, StepIs, StartsWith
  <2>4. CASE InitStrip /\ npTodo' = t
    <3>1. /\ npStrip' /\ npSem' = "free" /\ npBuffer' = "dark" /\ npShown' = "dark"
          /\ UNCHANGED <<npTask, npUp>>
      BY <2>4 DEF InitStrip
    <3>2. NpShape' /\ Clean' /\ ~npUp'
      BY <1>3, <3>1 DEF NpShape, AtPeace, Clean, Gone, Runs, npTask
    <3>3. ThenUp' = <<"up">>
      BY <3>1, <3>2 DEF ThenUp
    <3>4. SolidThen(<<"up">>) \in AfterBegin'
      BY <3>3 DEF AfterBegin
    <3> QED BY <2>4, <3>1, <3>2, <3>4 DEF NpStage, AtPeace
  <2>5. CASE InitFails
    <3>1. npTodo' = <<>> /\ UNCHANGED <<npPixels, npTask, npAdapter>>
      BY <2>5 DEF InitFails
    <3>2. NpShape' /\ AtPeace' /\ (npUp' <=> npStrip')
      BY <1>3, <3>1 DEF NpShape, AtPeace, Clean, Gone, Runs, npPixels, npTask, npAdapter
    <3> QED BY <3>1, <3>2 DEF NpStage
  <2> QED BY <2>3, <2>4, <2>5
<1>4. CASE AtPeace /\ \E t \in AfterBegin : npTodo = Begin(t)
  <2>1. PICK t \in AfterBegin : npTodo = Begin(t)
    BY <1>4
  <2>2. Remember /\ npTodo' = StopEffect \o t
    BY <2>1, StepIs, ThenLists, TailLists
  <2>3. UNCHANGED <<npPixels, npTask, npUp, npStrip>>
    BY <2>2 DEF Remember
  <2>4. NpShape' /\ AtPeace'
    BY <1>4, <2>3 DEF NpShape, AtPeace, Clean, Gone, Runs, npPixels, npTask
  <2>5. t \in AfterStop' /\ InStop(t)'
    BY <2>2, <2>3, <2>4, SameAfter, TailLists DEF InStop
  <2> QED BY <2>4, <2>5 DEF NpStage
<1>5. CASE \E t \in AfterStop : InStop(t)
  <2>1. PICK t \in AfterStop : InStop(t)
    BY <1>5
  <2>2. NpShape' /\ (InStop(t)' \/ InShow(t)') /\ UNCHANGED <<npUp, npStrip>>
    BY <2>1, StopGoesOn, TailLists
  <2>3. t \in AfterStop'
    BY <2>2, SameAfter
  <2> QED BY <2>2, <2>3 DEF NpStage
<1>6. CASE \E t \in AfterStop \cup AfterShow : InShow(t)
  <2>1. PICK t \in AfterStop \cup AfterShow : InShow(t)
    BY <1>6
  <2>2. NpShape' /\ (InShow(t)' \/ (npTodo' = t /\ Clean')) /\ UNCHANGED <<npUp, npStrip>>
    BY <2>1, ShowGoesOn, TailLists
  <2>3. t \in AfterStop' \cup AfterShow'
    BY <2>1, <2>2, SameAfter
  <2>4. CASE InShow(t)'
    BY <2>2, <2>3, <2>4 DEF NpStage
  <2>5. CASE npTodo' = t /\ Clean' /\ t \in AfterStop'
    BY <2>2, <2>5 DEF NpStage
  <2>6. CASE npTodo' = t /\ Clean' /\ t \in AfterShow'
    BY <2>2, <2>6, AfterShowStage DEF AtPeace
  <2> QED BY <2>2, <2>3, <2>4, <2>5, <2>6
<1>7. CASE npTodo \in AfterStop /\ Clean
  BY <1>7, StoppedGoesOn
<1>8. CASE Clean /\ \E t \in AfterShow : npTodo = ColorThen(t)
  BY <1>8, ColorGoesOn
<1> QED BY <1>1, <1>2, <1>3, <1>4, <1>5, <1>6, <1>7, <1>8 DEF NpStage

(* The effect's task runs on until it is asked to end, and then it ends.     *)
TaskStep == Round \/ TakeRound \/ Refresh \/ Delay \/ EffectEnds
LEMMA TaskGoesOn ==
  ASSUME NpShape, NeopixelTypeOK, TaskStep
  PROVE  /\ NpShape' /\ npHandle /\ UNCHANGED <<npAdapter, npTodo, npQuit>>
         /\ Runs => Runs'
         /\ Leaving => Leaving'
         /\ (npSem # "caller" => npSem' # "caller") /\ (npHandle' => npHandle)
<1>1. CASE Round
  BY <1>1 DEF Round, EffectAt, NpShape, Runs, Leaving, npAdapter
<1>2. CASE TakeRound
  BY <1>2 DEF TakeRound, EffectAt, NpShape, Runs, Leaving, npAdapter
<1>3. CASE Refresh
  BY <1>3 DEF Refresh, EffectAt, NpShape, Runs, Leaving, npAdapter
<1>4. CASE Delay
  BY <1>4 DEF Delay, EffectAt, NpShape, Runs, Leaving, npAdapter, npPixels
<1>5. CASE EffectEnds
  BY <1>5 DEF EffectEnds, EffectAt, NpShape, Runs, Leaving, npAdapter, npPixels
<1> QED BY <1>1, <1>2, <1>3, <1>4, <1>5 DEF TaskStep

(* The stage of the call stays the same meanwhile.                           *)
LEMMA TaskKeepsStage ==
  ASSUME NpShape, NpStage, NeopixelTypeOK, TaskStep
  PROVE  NpShape' /\ NpStage'
<1>1. /\ NpShape' /\ npHandle /\ npUp
      /\ UNCHANGED <<npTodo, npQuit, npUp, npStrip>>
      /\ Runs => Runs'
      /\ Leaving => Leaving'
      /\ (npSem # "caller" => npSem' # "caller") /\ (npHandle' => npHandle)
  BY TaskGoesOn DEF npAdapter, NpShape
<1>2. ~Clean /\ ~Drawn /\ ~Gone
  BY <1>1 DEF Clean, Drawn, Gone
<1>3. AtPeace => AtPeace'
  BY <1>1, <1>2 DEF AtPeace
<1>4. ASSUME NEW t, InStop(t) PROVE InStop(t)'
  BY <1>1, <1>2, <1>3, <1>4 DEF InStop
<1>5. ASSUME NEW t, InShow(t) PROVE FALSE
  BY <1>2, <1>5 DEF InShow
<1>6. AfterBegin' = AfterBegin /\ AfterStop' = AfterStop
  BY <1>1, SameAfter
<1> QED BY <1>1, <1>2, <1>3, <1>4, <1>5, <1>6 DEF NpStage

(* Concatenation is associative, and the empty list neutral.                 *)
LEMMA Associates ==
  ASSUME NEW s \in Seq(NpSteps), NEW t \in Seq(NpSteps), NEW u \in Seq(NpSteps)
  PROVE  /\ (s \o t) \o u = s \o (t \o u)
         /\ s \o t \in Seq(NpSteps)
         /\ <<>> \o s = s /\ s \o <<>> = s
  BY ConcatAssociative, ConcatEmptySeq, ConcatProperties

(* The start of an effect notes the time, stops the last one, and goes on.   *)
LEMMA StartLists ==
  ASSUME NEW t \in Seq(NpSteps)
  PROVE  /\ StartEffect("solid") = IF npRecent THEN <<>> ELSE Begin(SolidThen(<<>>))
         /\ StartEffect("moving") = IF npRecent THEN <<>> ELSE Begin(<<"moving">>)
         /\ Begin(SolidThen(<<>>)) \o t = Begin(SolidThen(t))
<1>1. /\ <<"recent">> \in Seq(NpSteps) /\ <<"solid">> \in Seq(NpSteps) /\ <<"color">> \in Seq(NpSteps)
      /\ <<"moving">> \in Seq(NpSteps) /\ <<"solid", "color">> \in Seq(NpSteps)
  BY DEF NpSteps
<1>2. StopEffect \in Seq(NpSteps) /\ Show \in Seq(NpSteps) /\ <<>> \in Seq(NpSteps)
  BY StopLists
<1>3. <<"solid", "color">> = <<"solid">> \o <<"color">>
  OBVIOUS
<1>4. <<"solid", "color">> \o Show = SolidThen(<<>>)
  <2>1. (<<"solid">> \o <<"color">>) \o Show = <<"solid">> \o (<<"color">> \o Show)
    BY <1>1, <1>2, Associates
  <2>2. Show \o <<>> = Show
    BY <1>2, Associates
  <2> QED BY <1>3, <2>1, <2>2 DEF SolidThen, ColorThen
<1>5. ASSUME NEW u \in Seq(NpSteps)
      PROVE  (<<"recent">> \o StopEffect) \o u = Begin(u)
  BY <1>1, <1>2, <1>5, Associates DEF Begin
<1>6. StartEffect("solid") = IF npRecent THEN <<>> ELSE Begin(SolidThen(<<>>))
  <2>1. SolidThen(<<>>) \in Seq(NpSteps)
    BY <1>2, ThenLists
  <2>2. (<<"recent">> \o StopEffect) \o SolidThen(<<>>) = Begin(SolidThen(<<>>))
    BY <1>5, <2>1
  <2>3. StartEffect("solid")
        = IF npRecent THEN <<>> ELSE (<<"recent">> \o StopEffect) \o (<<"solid", "color">> \o Show)
    BY DEF StartEffect
  <2> QED BY <1>4, <2>2, <2>3
<1>7. StartEffect("moving") = IF npRecent THEN <<>> ELSE Begin(<<"moving">>)
  <2>1. (<<"recent">> \o StopEffect) \o <<"moving">> = Begin(<<"moving">>)
    BY <1>1, <1>5
  <2> QED BY <2>1 DEF StartEffect
<1>8. SolidThen(<<>>) \o t = SolidThen(t)
  <2>1. Show \o t \in Seq(NpSteps) /\ Show \o <<>> = Show
    BY <1>2, Associates
  <2>2. <<"color">> \o Show \in Seq(NpSteps) /\ (<<"color">> \o Show) \o t = <<"color">> \o (Show \o t)
    BY <1>1, <1>2, Associates
  <2>3. (<<"solid">> \o (<<"color">> \o Show)) \o t = <<"solid">> \o ((<<"color">> \o Show) \o t)
    BY <1>1, <2>2, Associates
  <2> QED BY <2>1, <2>2, <2>3 DEF SolidThen, ColorThen
<1>9. Begin(SolidThen(<<>>)) \o t = Begin(SolidThen(t))
  <2> DEFINE s == SolidThen(<<>>)
  <2>1. s \in Seq(NpSteps)
    BY <1>2, ThenLists
  <2>2. s \o t = SolidThen(t)
    BY <1>8
  <2> HIDE DEF s
  <2>3. StopEffect \o s \in Seq(NpSteps) /\ (StopEffect \o s) \o t = StopEffect \o (s \o t)
    <3> DEFINE e == StopEffect
    <3>1. e \in Seq(NpSteps)
      BY <1>2
    <3> HIDE DEF e
    <3>2. e \o s \in Seq(NpSteps) /\ (e \o s) \o t = e \o (s \o t)
      BY <2>1, <3>1, Associates
    <3> QED BY <3>2 DEF e
  <2>4. (<<"recent">> \o (StopEffect \o s)) \o t = <<"recent">> \o ((StopEffect \o s) \o t)
    BY <1>1, <2>3, Associates
  <2>5. Begin(s) \o t = Begin(SolidThen(t))
    BY <2>2, <2>3, <2>4 DEF Begin
  <2> QED BY <2>5 DEF s
<1> QED BY <1>6, <1>7, <1>9

(* A plain colour stops the effect first.                                    *)
LEMMA PlainLists ==
  ASSUME NEW t \in Seq(NpSteps)
  PROVE  PlainColor \o t = StopEffect \o ColorThen(t)
<1>1. <<"color">> \in Seq(NpSteps) /\ StopEffect \in Seq(NpSteps) /\ Show \in Seq(NpSteps)
  BY StopLists DEF NpSteps
<1>2. /\ <<"color">> \o Show \in Seq(NpSteps)
      /\ (StopEffect \o <<"color">>) \o Show = StopEffect \o (<<"color">> \o Show)
      /\ (<<"color">> \o Show) \o t = <<"color">> \o (Show \o t)
  BY <1>1, Associates
<1>3. (StopEffect \o (<<"color">> \o Show)) \o t = StopEffect \o ((<<"color">> \o Show) \o t)
  BY <1>1, <1>2, Associates
<1> QED BY <1>2, <1>3 DEF PlainColor, ColorThen

(* A call begins at one of the stages.                                       *)
LEMMA CallBegins ==
  ASSUME NpShape, NpStage, Calls
  PROVE  NpShape' /\ NpStage'
<1> DEFINE Effects == {<<>>, StopEffect, StartEffect("solid"), StartEffect("moving")}
<1>1. npTodo = <<>> /\ UNCHANGED <<npPixels, npTask, npAdapter>>
  BY DEF Calls
<1>2. AtPeace /\ (npUp <=> npStrip)
  BY <1>1, IdleAtPeace
<1>3. NpShape' /\ AtPeace' /\ UNCHANGED <<npUp, npStrip>>
  BY <1>1, <1>2 DEF NpShape, AtPeace, Clean, Gone, Runs, npPixels, npTask, npAdapter
<1>4. AfterBegin' = AfterBegin /\ AfterShow' = AfterShow /\ AfterStop' = AfterStop
  BY <1>3, SameAfter
<1>5. ThenUp = <<>> /\ ThenUp \in AfterShow
  BY <1>2 DEF ThenUp, AfterShow
<1>6. SolidThen(<<>>) \in AfterBegin
  BY <1>5 DEF AfterBegin
<1>7. ASSUME NEW todo \in AfterShow, npTodo' = todo
      PROVE  NpStage'
  BY <1>3, <1>4, <1>7, AfterShowStage
<1>8. ASSUME NEW t \in AfterStop, npTodo' = StopEffect \o t
      PROVE  NpStage'
  <2>1. InStop(t)' /\ t \in AfterStop'
    BY <1>3, <1>4, <1>8 DEF InStop
  <2> QED BY <2>1 DEF NpStage
<1>9. npTodo' = StartEffect("solid") => NpStage'
  <2>1. CASE npTodo' = <<>>
    BY <2>1, <1>5, <1>7
  <2>2. CASE npTodo' = Begin(SolidThen(<<>>))
    BY <2>2, <1>3, <1>4, <1>6 DEF NpStage
  <2> QED BY <2>1, <2>2, StartLists, SingleLists
<1>10. CASE npUp /\ npTodo' \in CommandSteps
  <2>1. Effects \subseteq AfterShow
    <3>1. StopEffect = StopEffect \o <<>>
      BY StopLists, Associates
    <3>2. <<"moving">> \in AfterBegin
      BY <1>10 DEF AfterBegin
    <3>3. Begin(SolidThen(<<>>)) \in AfterShow /\ Begin(<<"moving">>) \in AfterShow
          /\ StopEffect \o <<>> \in AfterShow
      BY <1>6, <1>10, <3>2 DEF AfterShow
    <3>4. StartEffect("solid") \in AfterShow /\ StartEffect("moving") \in AfterShow
      BY <1>5, <3>3, StartLists, SingleLists
    <3> QED BY <1>5, <3>1, <3>3, <3>4
  <2>2. PICK c \in {<<>>, PlainColor}, e \in Effects : npTodo' = c \o e
    BY <1>10 DEF CommandSteps
  <2>3. e \in AfterShow /\ e \in Seq(NpSteps)
    BY <2>1, TailLists
  <2>4. CASE c = <<>>
    <3>1. npTodo' = e
      BY <2>2, <2>3, <2>4, Associates
    <3> QED BY <1>3, <1>7, <2>3, <3>1
  <2>5. CASE c = PlainColor
    <3>1. npTodo' = StopEffect \o ColorThen(e)
      BY <2>2, <2>3, <2>5, PlainLists
    <3>2. ColorThen(e) \in AfterStop
      BY <1>10, <2>3 DEF AfterStop
    <3> QED BY <1>3, <1>8, <3>1, <3>2
  <2> QED BY <2>4, <2>5
<1>11. CASE npUp /\ npTodo' = StopEffect \o <<"deinit">>
  <2>1. <<"deinit">> \in AfterStop
    BY <1>11 DEF AfterStop
  <2> QED BY <1>8, <1>11, <2>1, <1>3
<1>12. CASE ~npUp /\ npTodo' = (<<"init">> \o StartEffect("solid")) \o <<"up">>
  <2>1. <<"init">> \in Seq(NpSteps) /\ <<"up">> \in Seq(NpSteps) /\ <<>> \in Seq(NpSteps)
    BY DEF NpSteps
  <2>2. StartEffect("solid") \in Seq(NpSteps)
    BY <2>1, StartLists, ThenLists
  <2>3. npTodo' = <<"init">> \o (StartEffect("solid") \o <<"up">>)
    BY <1>12, <2>1, <2>2, Associates
  <2>4. StartEffect("solid") \o <<"up">> \in {<<"up">>, Begin(SolidThen(<<"up">>))}
    BY <2>1, StartLists, Associates
  <2> QED BY <1>2, <1>3, <1>12, <2>3, <2>4 DEF NpStage
<1> QED BY <1>3, <1>9, <1>10, <1>11, <1>12 DEF Calls

(* Nothing else depends on when an effect was started.                       *)
LEMMA StageKept ==
  ASSUME NpShape, NpStage,
         UNCHANGED <<npUp, npStrip, npTodo, npSem, npBuffer, npShown,
                     npHandle, npQuit, npEffect, npAt>>
  PROVE  NpShape' /\ NpStage'
<1>1. NpShape' /\ (AtPeace => AtPeace') /\ (Clean => Clean')
  BY DEF NpShape, AtPeace, Clean, Gone, Runs
<1>2. \A t : (InStop(t) => InStop(t)') /\ (InShow(t) => InShow(t)')
  BY <1>1 DEF InStop, InShow, Leaving, Gone, Drawn
<1>3. AfterBegin' = AfterBegin /\ AfterShow' = AfterShow /\ AfterStop' = AfterStop
  BY SameAfter
<1> QED BY <1>1, <1>2, <1>3 DEF NpStage

-----------------------------------------------------------------------------
(* Every variable has the type of its C counterpart.                         *)
THEOREM NeopixelTypes == NeopixelSpec => []NeopixelTypeOK
<1>1. NeopixelInit => NeopixelTypeOK
  BY DEF NeopixelInit, NeopixelTypeOK, Pictures
<1>2. NeopixelTypeOK /\ [NeopixelNext]_neopixelVars => NeopixelTypeOK'
  <2> SUFFICES ASSUME NeopixelTypeOK, [NeopixelNext]_neopixelVars PROVE NeopixelTypeOK'
    OBVIOUS
  <2> USE DEF NeopixelTypeOK, Pictures, npPixels, npTask, npAdapter
  <2>1. CASE Calls
    BY <2>1 DEF Calls
  <2>2. CASE InitStrip \/ InitFails \/ AdapterUp \/ DeinitStrip
    BY <2>2 DEF InitStrip, InitFails, AdapterUp, DeinitStrip
  <2>3. CASE RequestEnd \/ WaitForEffect \/ TestHandle \/ KillEffect
    BY <2>3 DEF RequestEnd, WaitForEffect, TestHandle, KillEffect
  <2>4. ASSUME NEW effect \in {"none", "solid", "moving"}, SetEffect(effect)
        PROVE  NeopixelTypeOK'
    BY <2>4 DEF SetEffect
  <2>5. CASE Remember \/ TakeShow \/ GiveShow \/ TimePasses
    BY <2>5 DEF Remember, TakeShow, GiveShow, TimePasses
  <2>6. ASSUME NEW picture \in {"dark", "color"}, Draw(picture)
        PROVE  NeopixelTypeOK'
    BY <2>6 DEF Draw
  <2>7. CASE Round \/ TakeRound \/ Refresh \/ Delay \/ EffectEnds
    BY <2>7 DEF Round, TakeRound, Refresh, Delay, EffectEnds, EffectAt
  <2>8. CASE UNCHANGED neopixelVars
    BY <2>8 DEF neopixelVars
  <2> QED BY <2>1, <2>2, <2>3, <2>4, <2>5, <2>6, <2>7, <2>8 DEF NeopixelNext, SupervisorStep
<1> QED BY <1>1, <1>2, PTL DEF NeopixelSpec

(* As long as no stop has deleted the wrong task: the call is at one of its  *)
(* stages, and effect, strip and semaphore are what the stage says.          *)
THEOREM NeopixelInvariant == NeopixelSpec => []NpInv
<1>1. NeopixelInit => NpInv
  BY DEF NeopixelInit, NpInv, NpShape, NpStage, AtPeace, Clean, Gone
<1>2. NpInv /\ NeopixelTypeOK /\ [NeopixelNext]_neopixelVars => NpInv'
  <2> SUFFICES ASSUME NpInv, NeopixelTypeOK, [NeopixelNext]_neopixelVars, ~npDead'
               PROVE  NpShape' /\ NpStage'
    BY DEF NpInv
  <2>1. ~npDead
    <3>1. SupervisorStep => ~npDead
      BY DEF SupervisorStep, InitStrip, InitFails, AdapterUp, DeinitStrip, RequestEnd,
             WaitForEffect, TestHandle, KillEffect, SetEffect, Remember, Draw, TakeShow, GiveShow,
             NextIs
    <3>2. Calls => ~npDead
      BY DEF Calls
    <3>3. TimePasses \/ TaskStep => UNCHANGED npDead
      BY DEF TimePasses, TaskStep, Round, TakeRound, Refresh, Delay, EffectEnds, npAdapter
    <3>4. UNCHANGED neopixelVars => UNCHANGED npDead
      BY DEF neopixelVars, npAdapter
    <3> QED BY <3>1, <3>2, <3>3, <3>4 DEF NeopixelNext, TaskStep
  <2>2. NpShape /\ NpStage
    BY <2>1 DEF NpInv
  <2>3. CASE Calls
    BY <2>2, <2>3, CallBegins
  <2>4. CASE SupervisorStep
    BY <2>2, <2>4, SupervisorGoesOn
  <2>5. CASE TimePasses
    <3>1. UNCHANGED <<npUp, npStrip, npTodo, npSem, npBuffer, npShown,
                      npHandle, npQuit, npEffect, npAt>>
      BY <2>5 DEF TimePasses, npPixels, npTask
    <3> QED BY <2>2, <3>1, StageKept
  <2>6. CASE TaskStep
    BY <2>2, <2>6, TaskKeepsStage
  <2>7. CASE UNCHANGED neopixelVars
    <3>1. UNCHANGED <<npUp, npStrip, npTodo, npSem, npBuffer, npShown,
                      npHandle, npQuit, npEffect, npAt>>
      BY <2>7 DEF neopixelVars, npPixels, npTask, npAdapter
    <3> QED BY <2>2, <3>1, StageKept
  <2> QED BY <2>3, <2>4, <2>5, <2>6, <2>7 DEF NeopixelNext, TaskStep
<1> QED BY <1>1, <1>2, NeopixelTypes, PTL DEF NeopixelSpec

(* So an effect runs between calls exactly if it is the current one, and     *)
(* nothing of it outlives its stop, however slow it is.                      *)
THEOREM EffectsAreOver == NeopixelSpec => []EffectsEnd
<1>1. NpInv => EffectsEnd
  <2> SUFFICES ASSUME NpInv, npTodo = <<>>, ~npDead
               PROVE  /\ npHandle <=> npAt # "none"
                      /\ npHandle <=> npEffect = "moving"
                      /\ ~npHandle => npShown # "moving" /\ npBuffer = npShown /\ npSem # "effect"
    BY DEF EffectsEnd
  <2>1. NpShape /\ AtPeace
    BY IdleAtPeace DEF NpInv
  <2> QED BY <2>1 DEF NpShape, AtPeace, Clean, Gone, Runs
<1> QED BY <1>1, NeopixelInvariant, PTL

-----------------------------------------------------------------------------
(* The light adapter                                                        *)

(* A light whose values were meant for it: lit when on, and one that has     *)
(* only colours shows these.                                                 *)
Fit(shape, color, val) == val >= 1 /\ (shape.color /\ ~White(shape) => color)
LightsFit == liFits => \A i \in DOMAIN lights : Fit(lights[i].shape, lights[i].color, lights[i].val)
SavedFitOrigin ==
  liSaved # <<>> =>
    /\ DOMAIN liOrigin \subseteq Slots
    /\ \A i \in DOMAIN liOrigin : /\ liOrigin[i] \in Shape
                                  /\ Fit(liOrigin[i], liSaved[i].color, liSaved[i].val)

(* After a reset nothing is in memory; afterwards the lights are those that  *)
(* found channels, and what is left of these serves none but them.           *)
JustReset == lights = <<>> /\ liOn = {} /\ ~liRunning /\ ~liDirty
ChannelsTaken ==
  \/ JustReset
  \/ \E next \in 0..LightChannel : /\ liNext = Parse(liList, next).next
                                   /\ DOMAIN lights = DOMAIN Parse(liList, next).use

(* Unless a restore failed and nothing was saved since, NVS has the          *)
(* fingerprint of the list, and unless something changed since, what was     *)
(* saved or restored is what the lights show.                                *)
PrintInNvs == liSure => JustReset \/ liPrint = liList
ShownInNvs ==
  liSure /\ liSaved # <<>> /\ ~liDirty =>
    \A i \in DOMAIN lights :
      \/ liSaved[i] = EntryOf(i)
      \/ liDark /\ liSaved[i] = [EntryOf(i) EXCEPT !.on = TRUE]
LightInv ==
  LightTypeOK /\ LightsFit /\ SavedFitOrigin /\ ChannelsTaken /\ PrintInNvs /\ ShownInNvs

-----------------------------------------------------------------------------
(* Lists of lights, and the channels they find                              *)

(* A set of numbers that has the first and with each the next has all.       *)
LEMMA AllNumbers ==
  ASSUME NEW S, 0 \in S, \A n \in Nat : n \in S => n + 1 \in S
  PROVE  Nat \subseteq S
<1> SUFFICES ASSUME Nat \ S # {} PROVE FALSE
  OBVIOUS
<1> DEFINE less == OpToRel(<, Nat)
<1>1. \A x, y \in Nat : y < x => <<y, x>> \in less
  BY DEF OpToRel
<1>2. IsWellFoundedOn(less, Nat)
  BY NatLessThanWellFounded
<1> HIDE DEF less
<1>3. PICK x \in Nat \ S : \A y \in Nat \ S : ~(<<y, x>> \in less)
  BY <1>2, WFMin
<1>4. x - 1 \in Nat /\ x - 1 < x /\ (x - 1) + 1 = x
  BY <1>3
<1>5. x - 1 \in S
  BY <1>1, <1>3, <1>4
<1> QED BY <1>3, <1>4, <1>5

(* Parsing a list goes light by light.                                       *)
NoneParsed(next) == [next |-> next, use |-> <<>>]
ParseStep(list, next, f, n) ==
  IF n = 0 THEN NoneParsed(next) ELSE TakeChannels(f[n - 1], list[n])
LEMMA ParseSteps ==
  ASSUME NEW list, NEW next, Len(list) \in Nat
  PROVE  /\ ParseUpTo(list, next)[0] = NoneParsed(next)
         /\ \A n \in 1..Len(list) :
              ParseUpTo(list, next)[n] = TakeChannels(ParseUpTo(list, next)[n - 1], list[n])
<1> DEFINE Parsed(f, m) == f = [n \in 0..m |-> ParseStep(list, next, f, n)]
           S == {m \in Nat : \E f : Parsed(f, m)}
<1>1. 0 \in S
  <2> DEFINE f == [n \in 0..0 |-> NoneParsed(next)]
  <2>1. Parsed(f, 0)
    BY DEF ParseStep
  <2> QED BY <2>1
<1>2. ASSUME NEW m \in Nat, m \in S PROVE m + 1 \in S
  <2>1. PICK f : Parsed(f, m)
    BY <1>2
  <2> DEFINE g == [n \in 0..(m + 1) |-> IF n <= m THEN f[n] ELSE TakeChannels(f[m], list[m + 1])]
  <2>2. ASSUME NEW n \in 0..(m + 1) PROVE g[n] = ParseStep(list, next, g, n)
    <3>1. CASE n <= m
      <4>1. n \in 0..m /\ g[n] = f[n]
        BY <3>1
      <4>2. f[n] = ParseStep(list, next, f, n)
        BY <2>1, <4>1
      <4>3. n # 0 => g[n - 1] = f[n - 1]
        BY <3>1
      <4> HIDE DEF g
      <4> QED BY <4>1, <4>2, <4>3 DEF ParseStep
    <3>2. CASE n = m + 1
      <4>1. g[n] = TakeChannels(f[m], list[m + 1]) /\ g[m] = f[m]
        BY <3>2
      <4>2. n # 0 /\ n - 1 = m
        BY <3>2
      <4> HIDE DEF g
      <4> QED BY <3>2, <4>1, <4>2 DEF ParseStep
    <3> QED BY <3>1, <3>2
  <2>3. Parsed(g, m + 1)
    <3>1. g = [n \in 0..(m + 1) |-> g[n]]
      OBVIOUS
    <3> HIDE DEF g
    <3> QED BY <2>2, <3>1
  <2> HIDE DEF g
  <2>4. \E h : Parsed(h, m + 1)
    BY <2>3
  <2> QED BY <2>4
<1>3. Len(list) \in S
  <2> HIDE DEF S
  <2>1. Nat \subseteq S
    BY <1>1, <1>2, AllNumbers
  <2> QED BY <2>1
<1>4. \E f : Parsed(f, Len(list))
  BY <1>3
<1>5. ParseUpTo(list, next)
      = CHOOSE f : f = [n \in 0..Len(list) |-> IF n = 0 THEN NoneParsed(next)
                                                ELSE TakeChannels(f[n - 1], list[n])]
  BY DEF ParseUpTo, NoneParsed
<1>6. ParseUpTo(list, next) = CHOOSE f : Parsed(f, Len(list))
  BY <1>5 DEF ParseStep
<1>7. Parsed(ParseUpTo(list, next), Len(list))
  <2> HIDE DEF Parsed
  <2> QED BY <1>4, <1>6
<1> DEFINE all == ParseUpTo(list, next)
<1>8. all = [n \in 0..Len(list) |-> ParseStep(list, next, all, n)]
  BY <1>7
<1> HIDE DEF all
<1>9. \A n \in 0..Len(list) : all[n] = ParseStep(list, next, all, n)
  BY <1>8
<1>10. all[0] = NoneParsed(next) /\ \A n \in 1..Len(list) : all[n] = TakeChannels(all[n - 1], list[n])
  BY <1>9 DEF ParseStep
<1> QED BY <1>10 DEF all

(* So the first lights found channels, as defaults that fit them,            *)
FreshLight == {Fresh(s) : s \in Shape}
LEMMA FreshFits ==
  ASSUME NEW l \in FreshLight
  PROVE  l \in Light /\ Fit(l.shape, l.color, l.val)
<1>1. PICK s \in Shape : l = Fresh(s)
  BY DEF FreshLight
<1>2. /\ l = [shape |-> s, color |-> s.color /\ ~White(s), val |-> 50, tint |-> DefaultTint, cct |-> 50]
  BY <1>1 DEF Fresh
<1>3. DefaultTint \in Nat
  BY LightDataAssumption
<1>4. (s.color /\ ~White(s)) \in BOOLEAN
  OBVIOUS
<1>5. l \in Light
  BY <1>2, <1>3, <1>4 DEF Light
<1>6. l.shape = s /\ l.val = 50 /\ (s.color /\ ~White(s) => l.color)
  BY <1>2
<1> QED BY <1>5, <1>6 DEF Fit

LEMMA WidthIsNat == \A s \in Shape : Width(s) \in Nat
  BY DEF Width

LEMMA TakeOne ==
  ASSUME NEW parsed, parsed.next \in 0..LightChannel, parsed.use \in Seq(FreshLight), NEW s \in Shape
  PROVE  LET taken == TakeChannels(parsed, s)
         IN /\ taken.next \in parsed.next..LightChannel
            /\ taken.use \in Seq(FreshLight)
            /\ Len(taken.use) \in {Len(parsed.use), Len(parsed.use) + 1}
            /\ Len(taken.use) = Len(parsed.use) => taken = parsed
            /\ Len(taken.use) # Len(parsed.use) => taken.next = parsed.next + Width(s)
            /\ parsed.next + Width(s) <= LightChannel => Len(taken.use) = Len(parsed.use) + 1
<1> DEFINE more == [next |-> parsed.next + Width(s), use |-> Append(parsed.use, Fresh(s))]
<1>1. Width(s) \in Nat /\ LightChannel \in Nat
  BY WidthIsNat, LightListAssumption
<1>2. Fresh(s) \in FreshLight
  BY DEF FreshLight
<1>3. /\ Append(parsed.use, Fresh(s)) \in Seq(FreshLight)
      /\ Len(Append(parsed.use, Fresh(s))) = Len(parsed.use) + 1
      /\ Len(parsed.use) \in Nat
  BY <1>2
<1>4. CASE parsed.next + Width(s) > LightChannel
  <2>1. TakeChannels(parsed, s) = parsed
    BY <1>4 DEF TakeChannels
  <2> QED BY <1>1, <1>3, <1>4, <2>1
<1>5. CASE ~(parsed.next + Width(s) > LightChannel)
  <2>1. TakeChannels(parsed, s) = more
    BY <1>5 DEF TakeChannels
  <2>2. more.next = parsed.next + Width(s) /\ more.use = Append(parsed.use, Fresh(s))
    OBVIOUS
  <2> QED BY <1>1, <1>3, <1>5, <2>1, <2>2
<1> QED BY <1>4, <1>5

LEMMA ParsedTo ==
  ASSUME NEW list \in LightList, NEW next \in 0..LightChannel
  PROVE  \A n \in 0..Len(list) :
           LET parsed == ParseUpTo(list, next)[n]
           IN /\ parsed.next \in next..LightChannel
              /\ parsed.use \in Seq(FreshLight)
              /\ Len(parsed.use) <= n
<1> DEFINE all == ParseUpTo(list, next)
           OK(n) == /\ all[n].next \in next..LightChannel
                    /\ all[n].use \in Seq(FreshLight)
                    /\ Len(all[n].use) <= n
           S == {n \in Nat : n <= Len(list) => OK(n)}
<1>1. list \in Seq(Shape) /\ Len(list) \in Nat /\ LightChannel \in Nat
  BY LightListAssumption
<1>2. all[0] = NoneParsed(next) /\ \A n \in 1..Len(list) : all[n] = TakeChannels(all[n - 1], list[n])
  BY <1>1, ParseSteps
<1> HIDE DEF all
<1>3. 0 \in S
  <2>1. all[0].next = next /\ all[0].use = <<>>
    BY <1>2 DEF NoneParsed
  <2>2. <<>> \in Seq(FreshLight) /\ Len(<<>>) <= 0
    OBVIOUS
  <2>3. next \in next..LightChannel
    BY <1>1
  <2>4. OK(0)
    BY <2>1, <2>2, <2>3
  <2> QED BY <2>4
<1>4. ASSUME NEW n \in Nat, n \in S PROVE n + 1 \in S
  <2> SUFFICES ASSUME n + 1 <= Len(list) PROVE OK(n + 1)
    OBVIOUS
  <2>1. OK(n) /\ list[n + 1] \in Shape /\ all[n + 1] = TakeChannels(all[n], list[n + 1])
    <3>1. n + 1 \in 1..Len(list) /\ (n + 1) - 1 = n /\ n <= Len(list)
      BY <1>1
    <3>2. all[n + 1] = TakeChannels(all[(n + 1) - 1], list[n + 1]) /\ list[n + 1] \in Shape
      BY <1>1, <1>2, <3>1
    <3> QED BY <1>4, <3>1, <3>2
  <2> DEFINE parsed == all[n]
             taken == TakeChannels(parsed, list[n + 1])
  <2>2. /\ parsed.next \in next..LightChannel /\ parsed.use \in Seq(FreshLight)
        /\ Len(parsed.use) <= n
    BY <2>1
  <2> HIDE DEF parsed
  <2>3. /\ taken.next \in parsed.next..LightChannel /\ taken.use \in Seq(FreshLight)
        /\ Len(taken.use) \in {Len(parsed.use), Len(parsed.use) + 1}
    <3>1. parsed.next \in 0..LightChannel
      BY <1>1, <2>2
    <3> QED BY <2>1, <2>2, <3>1, TakeOne
  <2> HIDE DEF taken
  <2>4. /\ taken.next \in next..LightChannel /\ taken.use \in Seq(FreshLight)
        /\ Len(taken.use) <= n + 1
    BY <1>1, <2>2, <2>3
  <2> QED BY <2>1, <2>4 DEF parsed, taken
<1>5. Nat \subseteq S
  <2> HIDE DEF S
  <2> QED BY <1>3, <1>4, AllNumbers
<1> QED BY <1>1, <1>5 DEF all

LEMMA ParsedWhole ==
  ASSUME NEW list \in LightList, NEW next \in 0..LightChannel
  PROVE  /\ Parse(list, next).next \in next..LightChannel
         /\ Parse(list, next).use \in Seq(FreshLight)
         /\ DOMAIN Parse(list, next).use = 1..Len(Parse(list, next).use)
         /\ DOMAIN Parse(list, next).use \subseteq Slots
<1>1. Len(list) \in 0..Len(list) /\ Len(list) <= LightMax /\ LightMax \in Nat /\ Len(list) \in Nat
  BY LightListAssumption
<1> DEFINE parsed == ParseUpTo(list, next)[Len(list)]
<1>2. parsed.next \in next..LightChannel /\ parsed.use \in Seq(FreshLight) /\ Len(parsed.use) <= Len(list)
  BY <1>1, ParsedTo
<1>3. parsed = Parse(list, next)
  BY DEF Parse
<1> HIDE DEF parsed
<1>4. DOMAIN parsed.use = 1..Len(parsed.use) /\ DOMAIN parsed.use \subseteq 1..LightMax
  BY <1>1, <1>2
<1> QED BY <1>2, <1>3, <1>4 DEF Slots

(* and a second parsing, with the channels the first has left, finds no more *)
(* lights.                                                                   *)
LEMMA ParsedAgain ==
  ASSUME NEW list \in LightList, NEW next \in 0..LightChannel
  PROVE  DOMAIN Parse(list, Parse(list, next).next).use \subseteq DOMAIN Parse(list, next).use
<1> DEFINE left == Parse(list, next).next
           all == ParseUpTo(list, next)
           again == ParseUpTo(list, left)
           OK(n) == Len(again[n].use) <= Len(all[n].use)
           S == {n \in Nat : n <= Len(list) => OK(n)}
<1>1. list \in Seq(Shape) /\ Len(list) \in Nat /\ LightChannel \in Nat
  BY LightListAssumption
<1>2. left \in 0..LightChannel /\ left = all[Len(list)].next
  BY <1>1, ParsedWhole DEF Parse
<1> HIDE DEF left
<1>3. /\ all[0] = NoneParsed(next) /\ \A n \in 1..Len(list) : all[n] = TakeChannels(all[n - 1], list[n])
      /\ again[0] = NoneParsed(left)
      /\ \A n \in 1..Len(list) : again[n] = TakeChannels(again[n - 1], list[n])
  BY <1>1, ParseSteps
<1>4. \A n \in 0..Len(list) : /\ all[n].next \in 0..LightChannel /\ all[n].use \in Seq(FreshLight)
                              /\ again[n].next \in left..LightChannel /\ again[n].use \in Seq(FreshLight)
  <2> SUFFICES ASSUME NEW n \in 0..Len(list)
               PROVE  /\ all[n].next \in 0..LightChannel /\ all[n].use \in Seq(FreshLight)
                      /\ again[n].next \in left..LightChannel /\ again[n].use \in Seq(FreshLight)
    OBVIOUS
  <2>1. all[n].next \in next..LightChannel /\ all[n].use \in Seq(FreshLight)
    BY ParsedTo
  <2>2. again[n].next \in left..LightChannel /\ again[n].use \in Seq(FreshLight)
    BY <1>2, ParsedTo
  <2> HIDE DEF all, again
  <2> QED BY <1>1, <2>1, <2>2
<1> HIDE DEF all, again
<1>5. \A n \in 0..Len(list) : all[n].next <= left
  <2> DEFINE Below == {k \in Nat : k <= Len(list) => all[Len(list) - k].next <= left}
  <2>1. 0 \in Below
    BY <1>1, <1>2
  <2>2. ASSUME NEW k \in Nat, k \in Below PROVE k + 1 \in Below
    <3> SUFFICES ASSUME k + 1 <= Len(list) PROVE all[Len(list) - (k + 1)].next <= left
      OBVIOUS
    <3> DEFINE n == Len(list) - k
    <3>1. n \in 1..Len(list) /\ n - 1 = Len(list) - (k + 1) /\ n - 1 \in 0..Len(list)
      BY <1>1
    <3>2. all[n].next <= left
      BY <2>2
    <3> HIDE DEF n
    <3>3. all[n].next \in all[n - 1].next..LightChannel
      <4>1. list[n] \in Shape /\ all[n] = TakeChannels(all[n - 1], list[n])
        BY <1>1, <1>3, <3>1
      <4>2. all[n - 1].next \in 0..LightChannel /\ all[n - 1].use \in Seq(FreshLight)
        BY <1>4, <3>1
      <4> QED BY <4>1, <4>2, TakeOne
    <3>4. all[n - 1].next <= left
      BY <1>1, <1>2, <1>4, <3>1, <3>2, <3>3
    <3> QED BY <3>1, <3>4
  <2>3. Nat \subseteq Below
    <3> HIDE DEF Below
    <3> QED BY <2>1, <2>2, AllNumbers
  <2> SUFFICES ASSUME NEW n \in 0..Len(list) PROVE all[n].next <= left
    OBVIOUS
  <2>4. Len(list) - n \in Nat /\ Len(list) - n <= Len(list) /\ Len(list) - (Len(list) - n) = n
    BY <1>1
  <2> QED BY <2>3, <2>4
<1>6. 0 \in S
  BY <1>1, <1>3 DEF NoneParsed
<1>7. ASSUME NEW m \in Nat, m \in S PROVE m + 1 \in S
  <2> SUFFICES ASSUME m + 1 <= Len(list) PROVE OK(m + 1)
    OBVIOUS
  <2> DEFINE n == m + 1
             a == all[m]
             b == again[m]
  <2>1. n \in 1..Len(list) /\ n - 1 = m /\ m \in 0..Len(list)
    BY <1>1
  <2>2. list[n] \in Shape /\ all[n] = TakeChannels(a, list[n]) /\ again[n] = TakeChannels(b, list[n])
    BY <1>1, <1>3, <2>1
  <2>3. /\ a.next \in 0..LightChannel /\ a.use \in Seq(FreshLight) /\ a.next <= left
        /\ b.next \in left..LightChannel /\ b.use \in Seq(FreshLight)
        /\ Len(b.use) <= Len(a.use)
    BY <1>4, <1>5, <1>7, <2>1
  <2> HIDE DEF n, a, b
  <2> DEFINE w == Width(list[n])
             a1 == TakeChannels(a, list[n])
             b1 == TakeChannels(b, list[n])
  <2>4. /\ Len(a1.use) \in {Len(a.use), Len(a.use) + 1}
        /\ a.next + w <= LightChannel => Len(a1.use) = Len(a.use) + 1
    BY <2>2, <2>3, TakeOne
  <2>5. /\ Len(b1.use) \in {Len(b.use), Len(b.use) + 1}
        /\ Len(b1.use) # Len(b.use) => b1.next = b.next + w
        /\ b1.next <= LightChannel
    <3>1. b.next \in 0..LightChannel
      BY <1>1, <1>2, <2>3
    <3>2. b1.next \in b.next..LightChannel
      BY <2>2, <2>3, <3>1, TakeOne
    <3>3. Len(b1.use) \in {Len(b.use), Len(b.use) + 1}
          /\ (Len(b1.use) # Len(b.use) => b1.next = b.next + w)
      BY <2>2, <2>3, <3>1, TakeOne
    <3> HIDE DEF b1
    <3> QED BY <3>1, <3>2, <3>3
  <2>6. w \in Nat /\ Len(a.use) \in Nat /\ Len(b.use) \in Nat
    BY <2>2, <2>3, WidthIsNat
  <2> HIDE DEF a1, b1, w
  <2>7. Len(b1.use) <= Len(a1.use)
    <3>1. CASE Len(b1.use) = Len(b.use)
      BY <2>3, <2>4, <2>6, <3>1
    <3>2. CASE Len(b1.use) # Len(b.use)
      <4>1. b.next + w <= LightChannel
        BY <2>5, <3>2
      <4>2. a.next + w <= LightChannel
        <5>1. a.next \in Nat /\ b.next \in Nat /\ a.next <= b.next /\ LightChannel \in Nat
          BY <1>1, <1>2, <2>3
        <5> QED BY <2>6, <4>1, <5>1
      <4>3. Len(b1.use) = Len(b.use) + 1 /\ Len(a1.use) = Len(a.use) + 1
        BY <2>4, <2>5, <3>2, <4>2
      <4> QED BY <2>3, <2>6, <4>3
    <3> QED BY <3>1, <3>2
  <2> QED BY <2>2, <2>7 DEF n, a1, b1
<1>8. Nat \subseteq S
  <2> HIDE DEF S
  <2> QED BY <1>6, <1>7, AllNumbers
<1>9. Len(again[Len(list)].use) <= Len(all[Len(list)].use)
  BY <1>1, <1>8
<1>10. /\ Parse(list, next).use = all[Len(list)].use /\ Parse(list, left).use = again[Len(list)].use
  BY DEF Parse, all, again
<1>11. 1..Len(Parse(list, left).use) \subseteq 1..Len(Parse(list, next).use)
  BY <1>1, <1>4, <1>9, <1>10
<1>12. /\ DOMAIN Parse(list, next).use = 1..Len(Parse(list, next).use)
       /\ DOMAIN Parse(list, left).use = 1..Len(Parse(list, left).use)
  BY <1>2, ParsedWhole
<1> QED BY <1>11, <1>12 DEF left

-----------------------------------------------------------------------------
(* What a light emits, and what a command does to it                        *)

LEMMA ShareIsNat == \A val, ratio \in Nat : Share(val, ratio) \in Nat
<1> SUFFICES ASSUME NEW val \in Nat, NEW ratio \in Nat PROVE Share(val, ratio) \in Nat
  OBVIOUS
<1>1. val * ratio \in Nat
  OBVIOUS
<1>2. \A x \in Nat : x \div 100 \in Nat
  OBVIOUS
<1> QED BY <1>1, <1>2 DEF Share

(* A light that fits emits something exactly when it is on, whatever its     *)
(* mode and ratio.                                                           *)
LEMMA FitIsLit ==
  ASSUME NEW l \in Light, Fit(l.shape, l.color, l.val), NEW on \in BOOLEAN
  PROVE  Lit(l, on) <=> on
<1>1. /\ l.shape \in Shape /\ l.val \in 0..100 /\ l.cct \in 0..100
      /\ l.val >= 1 /\ (l.shape.color /\ ~White(l.shape) => l.color)
  BY DEF Light, Fit
<1>2. l.shape.relay # (l.shape.color \/ l.shape.cold \/ l.shape.warm)
      /\ l.shape.relay \in BOOLEAN /\ l.shape.color \in BOOLEAN
      /\ l.shape.cold \in BOOLEAN /\ l.shape.warm \in BOOLEAN
  BY <1>1 DEF Shape
<1>3. CASE ~on
  <2>1. ColorOut(l, on) = 0 /\ ColdOut(l, on) = 0 /\ WarmOut(l, on) = 0
    BY <1>3 DEF ColorOut, ColdOut, WarmOut, WhiteOut
  <2>2. ~(0 > 0)
    OBVIOUS
  <2>3. ~Lit(l, on)
    BY <1>3, <2>1, <2>2, Zenon DEF Lit
  <2> QED BY <1>3, <2>3, Zenon
<1>4. CASE on /\ l.shape.relay
  BY <1>4 DEF Lit
<1>5. CASE on /\ l.color /\ l.shape.color
  <2>1. ColorOut(l, on) = l.val
    BY <1>5 DEF ColorOut
  <2>2. l.val > 0
    BY <1>1
  <2>3. Lit(l, on)
    BY <2>1, <2>2, Zenon DEF Lit
  <2> QED BY <1>5, <2>3
<1>6. CASE on /\ ~l.shape.relay /\ ~(l.color /\ l.shape.color)
  <2>1. WhiteOut(l, on) /\ (l.shape.cold \/ l.shape.warm)
    BY <1>1, <1>2, <1>6 DEF WhiteOut, White
  <2>2. CASE ~l.shape.warm \/ ~l.shape.cold
    <3>1. ColdOut(l, on) = l.val \/ WarmOut(l, on) = l.val
      BY <2>1, <2>2 DEF ColdOut, WarmOut
    <3>2. l.val > 0
      BY <1>1
    <3>3. Lit(l, on)
      BY <3>1, <3>2, Zenon DEF Lit
    <3> QED BY <1>6, <3>3
  <2>3. CASE l.shape.warm /\ l.shape.cold
    <3> DEFINE c == Share(l.val, l.cct)
               w == Share(l.val, 100 - l.cct)
    <3>1. c \in Nat /\ w \in Nat
      <4>1. l.val \in Nat /\ l.cct \in Nat /\ 100 - l.cct \in Nat
        BY <1>1
      <4> QED BY <4>1, ShareIsNat
    <3>2. ColdOut(l, on) = IF l.val > 0 /\ c = 0 /\ w = 0 /\ l.cct >= 50 THEN 1 ELSE c
      BY <2>1, <2>3 DEF ColdOut
    <3>3. WarmOut(l, on) = IF l.val > 0 /\ c = 0 /\ w = 0 /\ l.cct < 50 THEN 1 ELSE w
      BY <2>1, <2>3 DEF WarmOut
    <3> HIDE DEF c, w
    <3>4. ColdOut(l, on) > 0 \/ WarmOut(l, on) > 0
      BY <1>1, <3>1, <3>2, <3>3
    <3> QED BY <1>6, <3>4 DEF Lit
  <2> QED BY <2>2, <2>3
<1> QED BY <1>3, <1>4, <1>5, <1>6

(* A command leaves the light one that fits.                                 *)
LEMMA TheOneIs ==
  ASSUME NEW S, NEW option \in Maybe(S), option # {}
  PROVE  TheOne(option) \in S
<1>1. PICK x \in S : option = {x}
  BY DEF Maybe
<1> QED BY <1>1 DEF TheOne

LEMMA ChangedFits ==
  ASSUME NEW l \in Light, NEW v \in Maybe(Level), NEW mix \in Maybe(Mix), NEW tint \in Maybe(Tint)
  PROVE  /\ Changed(l, v, mix, tint) \in Light
         /\ Fit(l.shape, l.color, l.val) =>
              Fit(Changed(l, v, mix, tint).shape, Changed(l, v, mix, tint).color,
                  Changed(l, v, mix, tint).val)
<1> DEFINE white == mix # {} /\ White(l.shape)
           tinted == ~white /\ tint # {}
           val == IF v = {} THEN l.val ELSE Clamp(TheOne(v))
           cct == IF white THEN TheOne(mix) ELSE l.cct
           hue == IF tinted THEN TheOne(tint) ELSE l.tint
           color == tinted \/ (l.color /\ ~white)
           changed == Changed(l, v, mix, tint)
<1>1. /\ l.shape \in Shape /\ l.color \in BOOLEAN /\ l.val \in 0..100 /\ l.tint \in Nat
      /\ l.cct \in 0..100
      /\ l = [shape |-> l.shape, color |-> l.color, val |-> l.val, tint |-> l.tint, cct |-> l.cct]
  BY DEF Light
<1>2. /\ changed.shape = l.shape /\ changed.val = val /\ changed.cct = cct /\ changed.tint = hue
      /\ changed = [shape |-> l.shape, color |-> changed.color, val |-> val, tint |-> hue, cct |-> cct]
  <2>1. changed = [[[[l EXCEPT !.val = val] EXCEPT !.cct = cct] EXCEPT !.tint = hue]
                    EXCEPT !.color = color]
    <3>1. changed = [l EXCEPT !.val = IF v = {} THEN l.val ELSE Clamp(TheOne(v)),
                              !.cct = IF white THEN TheOne(mix) ELSE l.cct,
                              !.tint = IF tinted THEN TheOne(tint) ELSE l.tint,
                              !.color = tinted \/ (l.color /\ ~white)]
      BY <1>1 DEF Changed
    <3> QED BY <3>1
  <2> HIDE DEF changed, val, cct, hue, color
  <2> QED BY <1>1, <2>1
<1>3. changed.color = color
  BY <1>1 DEF Changed
<1>4. v # {} => Clamp(TheOne(v)) \in 1..100
  <2>1. v # {} => TheOne(v) \in Int
    BY TheOneIs, LightDataAssumption
  <2> QED BY <2>1 DEF Clamp
<1>5. val \in 0..100 /\ (l.val >= 1 => val >= 1)
  BY <1>1, <1>4
<1>6. cct \in 0..100 /\ hue \in Nat
  <2>1. mix # {} => TheOne(mix) \in 0..100
    BY TheOneIs, LightDataAssumption
  <2>2. tint # {} => TheOne(tint) \in Nat
    BY TheOneIs, LightDataAssumption
  <2> QED BY <1>1, <2>1, <2>2
<1>7. color \in BOOLEAN
  OBVIOUS
<1>8. l.color /\ ~White(l.shape) => color
  OBVIOUS
<1> HIDE DEF val, cct, hue, color, changed
<1>9. changed \in Light
  BY <1>1, <1>2, <1>3, <1>5, <1>6, <1>7 DEF Light
<1>10. Fit(l.shape, l.color, l.val) => Fit(changed.shape, changed.color, changed.val)
  BY <1>2, <1>3, <1>5, <1>8 DEF Fit
<1> QED BY <1>9, <1>10 DEF changed

-----------------------------------------------------------------------------
(* The steps                                                                *)

LEMMA EntryTyped ==
  ASSUME LightTypeOK
  PROVE  /\ Current \in [Slots -> Entry]
         /\ \A i \in Slots : Current[i] = EntryOf(i)
         /\ \A i \in DOMAIN lights : /\ i \in Slots
                                     /\ EntryOf(i).on = (i \in liOn)
                                     /\ EntryOf(i).color = lights[i].color
                                     /\ EntryOf(i).val = lights[i].val
<1>1. NoEntry \in Entry
  BY DEF NoEntry, Entry
<1>2. ASSUME NEW i \in DOMAIN lights
      PROVE  /\ EntryOf(i) \in Entry
             /\ EntryOf(i).on = (i \in liOn) /\ EntryOf(i).color = lights[i].color
             /\ EntryOf(i).val = lights[i].val
  <2>1. lights[i] \in Light
    BY DEF LightTypeOK
  <2>2. lights[i].color \in BOOLEAN /\ lights[i].val \in 0..100 /\ lights[i].tint \in Nat
        /\ lights[i].cct \in 0..100
    BY <2>1 DEF Light
  <2>3. EntryOf(i) = [on |-> i \in liOn, color |-> lights[i].color, val |-> lights[i].val,
                      tint |-> lights[i].tint, cct |-> lights[i].cct]
    BY DEF EntryOf
  <2>4. (i \in liOn) \in BOOLEAN
    OBVIOUS
  <2> QED BY <2>2, <2>3, <2>4 DEF Entry
<1>3. ASSUME NEW i \in Slots PROVE EntryOf(i) \in Entry
  <2>1. CASE i \notin DOMAIN lights
    BY <1>1, <2>1 DEF EntryOf
  <2> QED BY <1>2, <2>1
<1>4. DOMAIN lights \subseteq Slots
  BY DEF LightTypeOK
<1>5. Current \in [Slots -> Entry] /\ \A i \in Slots : Current[i] = EntryOf(i)
  BY <1>3 DEF Current
<1> QED BY <1>2, <1>4, <1>5

(* A reset.                                                                  *)
LEMMA LosesRamKeeps ==
  ASSUME LightInv, LosesRam, liPlanned' \in BOOLEAN, liList' \in LightList,
         liPrint' \in LightList \cup {NoLightList},
         liSure' \in BOOLEAN, liDark' \in BOOLEAN,
         UNCHANGED <<liSaved, liOrigin>> \/ liSaved' = <<>>
  PROVE  LightInv'
<1>1. /\ liRunning' = FALSE /\ liNext' = 0 /\ lights' = <<>> /\ liOn' = {}
      /\ liDirty' = FALSE /\ liLast' = [i \in Slots |-> NoEntry] /\ liFits' = TRUE
  BY DEF LosesRam
<1>2. DOMAIN lights' = {}
  BY <1>1
<1>3. LightTypeOK'
  <2>1. [i \in Slots |-> NoEntry] \in [Slots -> Entry]
    BY DEF NoEntry, Entry
  <2>2. liSaved' = <<>> \/ liSaved' \in [Slots -> Entry]
    BY DEF LightInv, LightTypeOK
  <2>3. 0 \in 0..LightChannel
    BY LightListAssumption
  <2> QED BY <1>1, <1>2, <2>1, <2>2, <2>3 DEF LightTypeOK
<1>4. LightsFit' /\ ChannelsTaken' /\ PrintInNvs' /\ ShownInNvs'
  BY <1>1, <1>2 DEF LightsFit, ChannelsTaken, JustReset, PrintInNvs, ShownInNvs
<1>5. SavedFitOrigin'
  BY DEF LightInv, SavedFitOrigin
<1> QED BY <1>3, <1>4, <1>5 DEF LightInv

LEMMA ResetKeepsLightInv == LightInv /\ (ResetLights \/ EraseLights) => LightInv'
<1> SUFFICES ASSUME LightInv, ResetLights \/ EraseLights PROVE LightInv'
  OBVIOUS
<1>1. /\ liList \in LightList /\ liPrint \in LightList \cup {NoLightList}
      /\ liSure \in BOOLEAN /\ liDark \in BOOLEAN
  BY DEF LightInv, LightTypeOK
<1>2. CASE ResetLights
  BY <1>1, <1>2, LosesRamKeeps DEF ResetLights, liNvs
<1>3. CASE EraseLights
  BY <1>1, <1>3, LosesRamKeeps DEF EraseLights
<1> QED BY <1>2, <1>3

(* A command.                                                                *)
LEMMA CommandKeepsLightInv == LightInv /\ CommandLight => LightInv'
<1> SUFFICES ASSUME LightInv, CommandLight PROVE LightInv'
  OBVIOUS
<1>1. /\ liRunning /\ liDirty' = TRUE
      /\ UNCHANGED <<liList, liRunning, liPlanned, liNext, liLast, liNvs, liFits, liSure, liDark>>
  BY DEF CommandLight
<1>2. /\ DOMAIN lights' = DOMAIN lights /\ liOn' \subseteq Slots
      /\ \A i \in DOMAIN lights :
           /\ lights'[i] \in Light
           /\ Fit(lights[i].shape, lights[i].color, lights[i].val)
                => Fit(lights'[i].shape, lights'[i].color, lights'[i].val)
  <2>1. /\ liOn \subseteq Slots /\ DOMAIN lights \subseteq Slots
        /\ \A i \in DOMAIN lights : lights[i] \in Light
    BY DEF LightInv, LightTypeOK
  <2>2. \A i \in Slots : \A on : Switched(i, on) \subseteq Slots
    BY <2>1 DEF Switched
  <2>3. PICK i \in DOMAIN lights :
          \/ \E v \in Maybe(Level), mix \in Maybe(Mix), tint \in Maybe(Tint), on \in Maybe(BOOLEAN) :
               /\ lights' = [lights EXCEPT ![i] = Changed(@, v, mix, tint)]
               /\ liOn' = IF on # {} THEN Switched(i, TheOne(on))
                          ELSE IF TurnsOn(lights[i], v, mix, tint) THEN liOn \cup {i}
                          ELSE liOn
          \/ \E state \in {"on", "off", "toggle"} :
               /\ liOn' = Switched(i, IF state = "toggle" THEN i \notin liOn ELSE state = "on")
               /\ UNCHANGED lights
    BY DEF CommandLight
  <2>4. CASE \E state \in {"on", "off", "toggle"} :
               /\ liOn' = Switched(i, IF state = "toggle" THEN i \notin liOn ELSE state = "on")
               /\ UNCHANGED lights
    BY <2>1, <2>2, <2>4
  <2>5. ASSUME NEW v \in Maybe(Level), NEW mix \in Maybe(Mix), NEW tint \in Maybe(Tint),
               NEW on \in Maybe(BOOLEAN),
               lights' = [lights EXCEPT ![i] = Changed(@, v, mix, tint)],
               liOn' = IF on # {} THEN Switched(i, TheOne(on))
                       ELSE IF TurnsOn(lights[i], v, mix, tint) THEN liOn \cup {i}
                       ELSE liOn
        PROVE  /\ DOMAIN lights' = DOMAIN lights /\ liOn' \subseteq Slots
               /\ \A j \in DOMAIN lights :
                    /\ lights'[j] \in Light
                    /\ Fit(lights[j].shape, lights[j].color, lights[j].val)
                         => Fit(lights'[j].shape, lights'[j].color, lights'[j].val)
    <3>1. liOn' \subseteq Slots
      BY <2>1, <2>2, <2>5
    <3> DEFINE changed == Changed(lights[i], v, mix, tint)
    <3>2. /\ changed \in Light
          /\ Fit(lights[i].shape, lights[i].color, lights[i].val)
               => Fit(changed.shape, changed.color, changed.val)
      BY <2>1, ChangedFits
    <3>3. DOMAIN lights' = DOMAIN lights
          /\ \A j \in DOMAIN lights : lights'[j] = IF j = i THEN changed ELSE lights[j]
      BY <2>5
    <3> HIDE DEF changed
    <3> QED BY <2>1, <3>1, <3>2, <3>3
  <2> QED BY <2>3, <2>4, <2>5
<1>3. LightTypeOK'
  BY <1>1, <1>2 DEF LightInv, LightTypeOK, liNvs
<1>4. LightsFit'
  BY <1>1, <1>2 DEF LightInv, LightsFit
<1>5. SavedFitOrigin'
  BY <1>1 DEF LightInv, SavedFitOrigin, liNvs
<1>6. ChannelsTaken'
  BY <1>1, <1>2 DEF LightInv, ChannelsTaken, JustReset
<1>7. PrintInNvs' /\ ShownInNvs'
  BY <1>1 DEF LightInv, PrintInNvs, ShownInNvs, JustReset, liNvs
<1> QED BY <1>3, <1>4, <1>5, <1>6, <1>7 DEF LightInv

(* What is saved is of the lights that it was meant for.                     *)
LEMMA CurrentFits ==
  ASSUME LightInv
  PROVE  /\ DOMAIN ShapesInUse \subseteq Slots
         /\ \A i \in DOMAIN ShapesInUse :
              /\ ShapesInUse[i] \in Shape
              /\ Fit(ShapesInUse[i], Current[i].color, Current[i].val)
<1>1. CASE ~liFits
  BY <1>1 DEF ShapesInUse
<1>2. CASE liFits
  <2>1. ShapesInUse = [i \in DOMAIN lights |-> lights[i].shape]
    BY <1>2 DEF ShapesInUse
  <2>2. DOMAIN lights \subseteq Slots /\ \A i \in DOMAIN lights : lights[i] \in Light
    BY DEF LightInv, LightTypeOK
  <2>3. \A i \in DOMAIN lights : lights[i].shape \in Shape
    BY <2>2 DEF Light
  <2>4. \A i \in DOMAIN lights : Fit(lights[i].shape, lights[i].color, lights[i].val)
    BY <1>2 DEF LightInv, LightsFit
  <2>5. \A i \in DOMAIN lights : Current[i].color = lights[i].color /\ Current[i].val = lights[i].val
    BY <2>2, EntryTyped DEF LightInv
  <2> QED BY <2>1, <2>2, <2>3, <2>4, <2>5
<1> QED BY <1>1, <1>2

(* A save.                                                                   *)
LEMMA SaveKeepsLightInv ==
  ASSUME LightInv, SaveLights, liRunning \/ liDirty, liRunning' \in BOOLEAN,
         UNCHANGED <<liList, liPlanned, liNext, lights, liOn, liFits>>
  PROVE  LightInv'
<1>1. ~JustReset
  BY DEF JustReset
<1>2. LightsFit'
  BY DEF LightInv, LightsFit
<1>3. UNCHANGED ChannelsTaken \/ ChannelsTaken'
  <2>1. \E next \in 0..LightChannel : /\ liNext = Parse(liList, next).next
                                      /\ DOMAIN lights = DOMAIN Parse(liList, next).use
    BY <1>1 DEF LightInv, ChannelsTaken
  <2> QED BY <2>1 DEF ChannelsTaken
<1>4. ChannelsTaken'
  BY <1>3 DEF LightInv
<1>5. \A i : EntryOf(i)' = EntryOf(i)
  BY DEF EntryOf
<1>6. CASE Skip /\ UNCHANGED liDirty
  <2> USE DEF Skip
  <2>1. LightTypeOK' /\ SavedFitOrigin'
    BY <1>6 DEF LightInv, LightTypeOK, SavedFitOrigin, liNvs
  <2>2. PrintInNvs'
    BY <1>1, <1>6 DEF LightInv, PrintInNvs, liNvs
  <2>3. ShownInNvs'
    BY <1>5, <1>6 DEF LightInv, ShownInNvs, liNvs
  <2> QED BY <1>2, <1>4, <2>1, <2>2, <2>3 DEF LightInv
<1>7. ASSUME liSaved' = Current, liOrigin' = ShapesInUse, UNCHANGED liPrint,
             liSure' \in BOOLEAN, liDark' \in BOOLEAN, liDirty' \in BOOLEAN,
             liLast' \in [Slots -> Entry], liSure' => liSure \/ liPrint = liList
      PROVE  LightInv'
  <2>1. /\ Current \in [Slots -> Entry]
        /\ \A i \in DOMAIN lights : i \in Slots /\ Current[i] = EntryOf(i)
    BY EntryTyped DEF LightInv
  <2>2. LightTypeOK'
    BY <1>7, <2>1 DEF LightInv, LightTypeOK
  <2>3. SavedFitOrigin'
    BY <1>7, CurrentFits DEF SavedFitOrigin
  <2>4. PrintInNvs'
    BY <1>1, <1>7 DEF LightInv, PrintInNvs
  <2>5. ShownInNvs'
    <3> SUFFICES ASSUME NEW i \in DOMAIN lights PROVE liSaved'[i] = EntryOf(i)'
      BY DEF ShownInNvs
    <3> QED BY <1>5, <1>7, <2>1
  <2> QED BY <1>2, <1>4, <2>2, <2>3, <2>4, <2>5 DEF LightInv
<1>8. CASE NotSaved /\ UNCHANGED <<liSaved, liOrigin, liDirty>>
  <2>1. UNCHANGED <<liNvs, liLast, liDirty, liSure, liDark>>
    BY <1>8 DEF NotSaved, liNvs
  <2>2. LightTypeOK' /\ SavedFitOrigin'
    BY <2>1 DEF LightInv, LightTypeOK, SavedFitOrigin, liNvs
  <2>3. PrintInNvs'
    BY <1>1, <2>1 DEF LightInv, PrintInNvs, liNvs
  <2>4. ShownInNvs'
    BY <1>5, <2>1 DEF LightInv, ShownInNvs, liNvs
  <2> QED BY <1>2, <1>4, <2>2, <2>3, <2>4 DEF LightInv
<1>9. CASE NotSaved /\ liSaved' = Current /\ liOrigin' = ShapesInUse /\ UNCHANGED liDirty
  BY <1>7, <1>9 DEF NotSaved, LightInv, LightTypeOK
<1>10. CASE Saved /\ liDirty' = FALSE
  <2>1. Current \in [Slots -> Entry] /\ (liPrint = liList) \in BOOLEAN
    BY EntryTyped DEF LightInv
  <2> QED BY <1>7, <1>10, <2>1 DEF Saved
<1> QED BY <1>6, <1>8, <1>9, <1>10 DEF SaveLights, NotSaved

(* What a restore puts into the lights that were parsed.                     *)
LEMMA RestoredLights ==
  ASSUME LightInv, liSaved # <<>>, NEW use \in Seq(FreshLight), DOMAIN use \subseteq Slots
  PROVE  /\ DOMAIN Restored(use) = DOMAIN use
         /\ \A i \in DOMAIN use :
              /\ liSaved[i] \in Entry
              /\ Restored(use)[i] \in Light
              /\ Restored(use)[i].shape = use[i].shape
              /\ Restored(use)[i].color = liSaved[i].color
              /\ Restored(use)[i].val = liSaved[i].val
              /\ Restored(use)[i].tint = liSaved[i].tint
              /\ Restored(use)[i].cct = liSaved[i].cct
<1>1. liSaved \in [Slots -> Entry]
  BY DEF LightInv, LightTypeOK
<1>2. DOMAIN Restored(use) = DOMAIN use
  BY DEF Restored
<1>3. ASSUME NEW i \in DOMAIN use
      PROVE  /\ liSaved[i] \in Entry
             /\ Restored(use)[i] \in Light
             /\ Restored(use)[i].shape = use[i].shape
             /\ Restored(use)[i].color = liSaved[i].color
             /\ Restored(use)[i].val = liSaved[i].val
             /\ Restored(use)[i].tint = liSaved[i].tint
             /\ Restored(use)[i].cct = liSaved[i].cct
  <2>1. liSaved[i] \in Entry
    BY <1>1
  <2>2. Restored(use)[i] = [shape |-> use[i].shape, color |-> liSaved[i].color, val |-> liSaved[i].val,
                            tint |-> liSaved[i].tint, cct |-> liSaved[i].cct]
    BY DEF Restored
  <2>3. use[i] \in FreshLight
    BY ElementOfSeq
  <2>4. use[i].shape \in Shape
    BY <2>3, FreshFits DEF Light
  <2> QED BY <2>1, <2>2, <2>4 DEF Entry, Light
<1> QED BY <1>2, <1>3

(* A start.                                                                  *)
LEMMA StartKeepsLightInv == LightInv /\ StartLights => LightInv'
<1> SUFFICES ASSUME LightInv, StartLights PROVE LightInv'
  OBVIOUS
<1> DEFINE parsed == Parse(liList, liNext)
           use == parsed.use
<1>1. /\ ~liRunning /\ RestoreLights(use) /\ liNext' = parsed.next /\ liRunning' \in BOOLEAN
      /\ UNCHANGED <<liList, liPlanned, liDirty>>
  BY DEF StartLights
<1>2. /\ parsed.next \in 0..LightChannel /\ use \in Seq(FreshLight) /\ DOMAIN use \subseteq Slots
  <2>1. liList \in LightList /\ liNext \in 0..LightChannel /\ LightChannel \in Nat
    BY LightListAssumption DEF LightInv, LightTypeOK
  <2>2. liNext..LightChannel \subseteq 0..LightChannel
    BY <2>1
  <2> QED BY <2>1, <2>2, ParsedWhole
<1>3. JustReset \/ DOMAIN use \subseteq DOMAIN lights
  <2>1. SUFFICES ASSUME ~JustReset PROVE DOMAIN use \subseteq DOMAIN lights
    OBVIOUS
  <2>2. PICK next \in 0..LightChannel : /\ liNext = Parse(liList, next).next
                                        /\ DOMAIN lights = DOMAIN Parse(liList, next).use
    BY <2>1 DEF LightInv, ChannelsTaken
  <2>3. liList \in LightList
    BY DEF LightInv, LightTypeOK
  <2> QED BY <2>2, <2>3, ParsedAgain
<1>4. \A i \in DOMAIN use : use[i] \in Light /\ Fit(use[i].shape, use[i].color, use[i].val)
  BY <1>2, ElementOfSeq, FreshFits
<1>5. ASSUME DOMAIN lights' = DOMAIN use PROVE ChannelsTaken'
  <2>1. liNext \in 0..LightChannel
    BY DEF LightInv, LightTypeOK
  <2> QED BY <1>1, <1>5, <2>1 DEF ChannelsTaken
<1> HIDE DEF parsed, use
<1>6. CASE /\ liPrint = liList /\ liSaved # <<>>
           /\ lights' = Restored(use)
           /\ liOn' = IF liPlanned
                      THEN {i \in Slots : IF i \in DOMAIN use THEN liSaved[i].on ELSE i \in liOn}
                      ELSE liOn
           /\ liLast' = liSaved
           /\ liFits' = \A i \in DOMAIN use : i \in DOMAIN liOrigin /\ liOrigin[i] = use[i].shape
           /\ liDark' = (liDark \/ ~liPlanned)
           /\ UNCHANGED <<liNvs, liSure>>
  <2>1. /\ DOMAIN lights' = DOMAIN use
        /\ \A i \in DOMAIN use :
              /\ liSaved[i] \in Entry
              /\ lights'[i] \in Light
              /\ lights'[i].shape = use[i].shape
              /\ lights'[i].color = liSaved[i].color
              /\ lights'[i].val = liSaved[i].val
              /\ lights'[i].tint = liSaved[i].tint
              /\ lights'[i].cct = liSaved[i].cct
    BY <1>2, <1>6, RestoredLights
  <2>2. UNCHANGED <<liSaved, liOrigin, liPrint, liSure>>
    BY <1>6 DEF liNvs
  <2>3. LightTypeOK'
    <3>1. liOn' \subseteq Slots
      BY <1>6 DEF LightInv, LightTypeOK
    <3>2. liFits' \in BOOLEAN /\ liDark' \in BOOLEAN
      <4>1. liFits' \in BOOLEAN
        BY <1>6
      <4>2. liDark' \in BOOLEAN
        BY <1>6
      <4> QED BY <4>1, <4>2
    <3>3. liLast' \in [Slots -> Entry]
      BY <1>6 DEF LightInv, LightTypeOK
    <3> QED BY <1>1, <1>2, <2>1, <2>2, <3>1, <3>2, <3>3 DEF LightInv, LightTypeOK
  <2>4. LightsFit'
    <3> SUFFICES ASSUME liFits', NEW i \in DOMAIN use
                 PROVE  Fit(lights'[i].shape, lights'[i].color, lights'[i].val)
      BY <2>1 DEF LightsFit
    <3>1. i \in DOMAIN liOrigin /\ liOrigin[i] = use[i].shape
      BY <1>6
    <3>2. Fit(liOrigin[i], liSaved[i].color, liSaved[i].val)
      BY <1>6, <3>1 DEF LightInv, SavedFitOrigin
    <3> QED BY <2>1, <3>1, <3>2
  <2>5. SavedFitOrigin'
    BY <2>2 DEF LightInv, SavedFitOrigin
  <2>6. PrintInNvs'
    BY <1>1, <1>6, <2>2 DEF PrintInNvs
  <2>7. ShownInNvs'
    <3> SUFFICES ASSUME liSure', ~liDirty', NEW i \in DOMAIN lights'
                 PROVE  \/ liSaved'[i] = EntryOf(i)'
                        \/ liDark' /\ liSaved'[i] = [EntryOf(i)' EXCEPT !.on = TRUE]
      BY DEF ShownInNvs
    <3>1. EntryOf(i)' = [on |-> i \in liOn', color |-> liSaved[i].color, val |-> liSaved[i].val,
                         tint |-> liSaved[i].tint, cct |-> liSaved[i].cct]
      BY <2>1 DEF EntryOf
    <3>2. /\ liSaved[i] = [on |-> liSaved[i].on, color |-> liSaved[i].color, val |-> liSaved[i].val,
                           tint |-> liSaved[i].tint, cct |-> liSaved[i].cct]
          /\ liSaved[i].on \in BOOLEAN
      BY <2>1 DEF Entry
    <3>3. i \in DOMAIN use /\ i \in Slots
      BY <1>2, <2>1
    <3>4. CASE liPlanned
      <4>1. i \in liOn' <=> liSaved[i].on
        BY <1>6, <3>3, <3>4
      <4> QED BY <2>2, <3>1, <3>2, <4>1
    <3>5. CASE ~liPlanned
      <4>1. liDark' /\ liOn' = liOn
        BY <1>6, <3>5
      <4>2. i \in liOn => liSaved[i].on
        <5>1. CASE JustReset
          BY <5>1 DEF JustReset
        <5>2. CASE i \in DOMAIN lights
          <6>1. \/ liSaved[i] = EntryOf(i)
                \/ liSaved[i] = [EntryOf(i) EXCEPT !.on = TRUE]
            BY <1>1, <1>6, <2>2, <5>2 DEF LightInv, ShownInNvs
          <6>2. EntryOf(i).on = (i \in liOn)
                /\ EntryOf(i) = [on |-> i \in liOn, color |-> lights[i].color, val |-> lights[i].val,
                                 tint |-> lights[i].tint, cct |-> lights[i].cct]
            BY <5>2 DEF EntryOf
          <6> QED BY <6>1, <6>2
        <5> QED BY <1>3, <3>3, <5>1, <5>2
      <4>3. CASE i \in liOn \/ ~liSaved[i].on
        <5>1. i \in liOn' <=> liSaved[i].on
          BY <4>1, <4>2, <4>3
        <5> QED BY <2>2, <3>1, <3>2, <5>1
      <4>4. CASE i \notin liOn /\ liSaved[i].on
        <5>1. [EntryOf(i)' EXCEPT !.on = TRUE]
              = [on |-> TRUE, color |-> liSaved[i].color, val |-> liSaved[i].val,
                 tint |-> liSaved[i].tint, cct |-> liSaved[i].cct]
          <6> DEFINE lit == i \in liOn'
                     yes == TRUE
                     entry == [on |-> lit, color |-> liSaved[i].color, val |-> liSaved[i].val,
                               tint |-> liSaved[i].tint, cct |-> liSaved[i].cct]
          <6>1. EntryOf(i)' = entry
            BY <3>1
          <6> HIDE DEF lit, yes
          <6>2. [entry EXCEPT !.on = yes]
                = [on |-> yes, color |-> liSaved[i].color, val |-> liSaved[i].val,
                   tint |-> liSaved[i].tint, cct |-> liSaved[i].cct]
            OBVIOUS
          <6>3. [EntryOf(i)' EXCEPT !.on = yes]
                = [on |-> yes, color |-> liSaved[i].color, val |-> liSaved[i].val,
                   tint |-> liSaved[i].tint, cct |-> liSaved[i].cct]
            <7> HIDE DEF entry
            <7> QED BY <6>1, <6>2 DEF entry
          <6> QED BY <6>3 DEF yes
        <5>2. liSaved[i].on = TRUE
          BY <3>2, <4>4
        <5> QED BY <2>2, <3>2, <4>1, <5>1, <5>2
      <4> QED BY <4>3, <4>4
    <3> QED BY <3>4, <3>5
  <2> QED BY <1>5, <2>1, <2>3, <2>4, <2>5, <2>6, <2>7 DEF LightInv
<1>7. CASE /\ lights' = use /\ liFits' = TRUE /\ liPrint' \in {liPrint, liList}
           /\ liSure' \in BOOLEAN /\ (liSure' => liSaved = <<>> /\ liPrint' = liList)
           /\ UNCHANGED <<liOn, liLast, liSaved, liOrigin, liDark>>
  <2>1. LightTypeOK'
    BY <1>1, <1>2, <1>4, <1>7 DEF LightInv, LightTypeOK
  <2>2. LightsFit' /\ SavedFitOrigin'
    BY <1>4, <1>7 DEF LightInv, LightsFit, SavedFitOrigin
  <2>3. PrintInNvs' /\ ShownInNvs'
    BY <1>1, <1>7 DEF PrintInNvs, ShownInNvs
  <2> QED BY <1>5, <1>7, <2>1, <2>2, <2>3 DEF LightInv
<1>8. (liSaved = <<>>) \in BOOLEAN
  OBVIOUS
<1> QED BY <1>1, <1>6, <1>7, <1>8 DEF RestoreLights

-----------------------------------------------------------------------------
(* Lights fit, NVS holds what a clean light shows, and the channels are      *)
(* those of the lights, whatever fails and whenever the device is reset.     *)
THEOREM LightInvariant == LightSpec => []LightInv
<1>1. LightInit => LightInv
  <2> SUFFICES ASSUME LightInit PROVE LightInv
    OBVIOUS
  <2> USE DEF LightInit
  <2>1. LightTypeOK
    <3>1. [i \in Slots |-> NoEntry] \in [Slots -> Entry]
      BY DEF NoEntry, Entry
    <3>2. 0 \in 0..LightChannel
      BY LightListAssumption
    <3>3. DOMAIN lights \subseteq Slots /\ \A i \in DOMAIN lights : lights[i] \in Light
      OBVIOUS
    <3>4. {liRunning, liPlanned, liDirty, liFits, liSure, liDark} \subseteq BOOLEAN
      OBVIOUS
    <3> QED BY <3>1, <3>2, <3>3, <3>4 DEF LightTypeOK
  <2>2. LightsFit /\ SavedFitOrigin /\ ChannelsTaken /\ PrintInNvs /\ ShownInNvs
    BY DEF LightsFit, SavedFitOrigin, ChannelsTaken, JustReset, PrintInNvs, ShownInNvs
  <2> QED BY <2>1, <2>2 DEF LightInv
<1>2. LightInv /\ [LightNext]_lightVars => LightInv'
  <2> SUFFICES ASSUME LightInv, [LightNext]_lightVars PROVE LightInv'
    OBVIOUS
  <2>1. CASE StopLights
    BY <2>1, SaveKeepsLightInv DEF StopLights
  <2>2. CASE LightInterval
    <3>1. liRunning \in BOOLEAN
      BY DEF LightInv, LightTypeOK
    <3> QED BY <2>2, <3>1, SaveKeepsLightInv DEF LightInterval
  <2>3. CASE UNCHANGED lightVars
    <3>1. LightTypeOK' /\ LightsFit' /\ SavedFitOrigin'
      BY <2>3 DEF LightInv, lightVars, LightTypeOK, LightsFit, SavedFitOrigin
    <3>2. ChannelsTaken' /\ PrintInNvs'
      BY <2>3 DEF LightInv, lightVars, ChannelsTaken, JustReset, PrintInNvs
    <3>3. ShownInNvs'
      BY <2>3 DEF LightInv, lightVars, ShownInNvs, EntryOf
    <3> QED BY <3>1, <3>2, <3>3 DEF LightInv
  <2> QED
    BY <2>1, <2>2, <2>3, StartKeepsLightInv, CommandKeepsLightInv, ResetKeepsLightInv DEF LightNext
<1> QED BY <1>1, <1>2, PTL DEF LightSpec

(* "so 'on' and 'visibly lit' never disagree" (light.c:429-431).             *)
THEOREM LightsLit == LightSpec => []LitWhenOn
<1>1. LightInv => LitWhenOn
  <2> SUFFICES ASSUME LightInv, liFits, NEW i \in DOMAIN lights
               PROVE  Lit(lights[i], i \in liOn) = (i \in liOn)
    BY DEF LitWhenOn
  <2> DEFINE on == i \in liOn
  <2>1. lights[i] \in Light /\ Fit(lights[i].shape, lights[i].color, lights[i].val) /\ on \in BOOLEAN
    BY DEF LightInv, LightTypeOK, LightsFit
  <2> HIDE DEF on
  <2>2. Lit(lights[i], on) <=> on
    BY <2>1, FitIsLit
  <2>3. Lit(lights[i], on) = on
    BY <2>1, <2>2 DEF Lit
  <2> QED BY <2>3 DEF on
<1> QED BY <1>1, LightInvariant, PTL

(* A clear state_dirty means that a restart loses nothing but, after a       *)
(* restart that left the lights off, on/off.                                 *)
THEOREM LightsSaved == LightSpec => []CleanMeansSaved
<1>1. LightInv => CleanMeansSaved
  <2>1. LightInv /\ liRunning /\ liSure => liPrint = liList
    BY DEF LightInv, PrintInNvs, JustReset
  <2> QED BY <2>1 DEF LightInv, ShownInNvs, CleanMeansSaved
<1> QED BY <1>1, LightInvariant, PTL

-----------------------------------------------------------------------------
(* The telemetry registry                                                    *)

CoreCount == Len(CoreTele)
Words == Teles \cup {NoTele}
NotCore == Teles \ CoreTeles

(* The edit going on: what it has still to handle is of no core entry, and   *)
(* an element half written is a new one or one of those being moved up.      *)
EditShape ==
  /\ teWork \in Seq(NotCore) /\ (teOp = "none" <=> teWork = <<>>)
  /\ teShift # 0 => teOp = "unregister" /\ teShift \in (CoreCount + 1)..teCount
  /\ teHalf /\ teOp # "unregister" =>
       /\ teOp = "register" /\ teCount < TeleMax
       /\ teIds[teCount + 1] = Head(teWork) /\ ~Taken(Head(teWork))
  /\ teHalf /\ teOp = "unregister" =>
       teShift \in 1..(teCount - 1) /\ teIds[teShift] = teIds[teShift + 1]

(* No edit reaches the core entries, and their words are nowhere else.       *)
IsCore(i, name) == IF i <= CoreCount THEN name = CoreTele[i] ELSE name \notin CoreTeles
CoreFirst ==
  /\ CoreCount <= teCount
  /\ \A i \in 1..TeleMax : IsCore(i, teIds[i]) /\ IsCore(i, teFns[i])

(* But for the element that is being overwritten, each name is there once,   *)
(* with its own appender, and is of an adapter that is on or going off.      *)
Kept == (1..teCount) \ {teShift}
Known == Live \cup IF teOp = "unregister" THEN Range(teWork) ELSE {}
EntriesAgree ==
  /\ \A i \in Kept : teFns[i] = teIds[i] /\ teIds[i] \in Known
  /\ \A i, j \in Kept : teIds[i] = teIds[j] => i = j
  /\ teShift # 0 => \A i \in Kept : teIds[i] # Head(teWork)
  /\ teOp = "register" => Range(teWork) \subseteq Live

(* Of any walk, the core part is right.                                      *)
WalkShape ==
  /\ teCalls \in Seq([fn : Words, id : Words]) /\ Len(teCalls) = tePos - 1
  /\ teAt = "none" => tePos = 1
  /\ teAt \in {"fn", "id"} => tePos <= TeleMax
  /\ teAt = "id" => teFn \in Words /\ IsCore(tePos, teFn)
  /\ \A k \in DOMAIN teCalls : IsCore(k, teCalls[k].fn) /\ IsCore(k, teCalls[k].id)

(* Of one that no removal touched, everything is.                            *)
WalkRight ==
  teAt # "none" /\ ~teMoved =>
    /\ teOp # "unregister" /\ tePos - 1 <= teCount
    /\ \A k \in DOMAIN teCalls : teCalls[k].id = teIds[k] /\ teCalls[k].fn = teIds[k]
    /\ teAt \in {"fn", "id"} => tePos <= teCount
    /\ teAt = "id" => teFn = teFns[tePos]

TeleInv == TeleTypeOK /\ EditShape /\ CoreFirst /\ EntriesAgree /\ WalkShape /\ WalkRight

-----------------------------------------------------------------------------
(* The names of the core entries, and those of the other groups.             *)
LEMMA CoreFacts ==
  /\ CoreCount \in 0..TeleMax
  /\ \A i \in 1..CoreCount : CoreTele[i] \in CoreTeles
  /\ \A i, j \in 1..CoreCount : CoreTele[i] = CoreTele[j] => i = j
  /\ CoreTeles \subseteq Teles /\ NoTele \notin Teles /\ MdnsTele \in Teles
<1>1. CoreTele \in Seq(CoreTeles) /\ IsInjective(CoreTele)
  BY TeleAssumption
<1>2. CoreCount \in Nat /\ DOMAIN CoreTele = 1..CoreCount /\ CoreTele \in [1..CoreCount -> CoreTeles]
  BY <1>1 DEF CoreCount
<1> QED BY <1>1, <1>2, TeleAssumption DEF CoreCount, IsInjective, Teles

(* A group to register or unregister has none of the core names.             *)
LEMMA GroupFacts ==
  ASSUME NEW g, g \in TeleGroup \/ g = <<MdnsTele>>
  PROVE  g \in Seq(NotCore)
<1>1. CASE g \in TeleGroup
  <2>1. g \in Seq(Teles) /\ Range(g) \cap CoreTeles = {}
    BY <1>1, TeleAssumption
  <2>2. \A i \in 1..Len(g) : g[i] \in NotCore
    BY <2>1 DEF NotCore, Range
  <2> QED BY <2>1, <2>2
<1>2. CASE g = <<MdnsTele>>
  <2>1. MdnsTele \in NotCore
    <3>1. MdnsTele \notin CoreTeles
      BY TeleAssumption
    <3>2. MdnsTele \in Teles
      BY CoreFacts
    <3> QED BY <3>1, <3>2 DEF NotCore
  <2> QED BY <1>2, <2>1
<1> QED BY <1>1, <1>2

(* A group, taken apart name by name.                                        *)
LEMMA NamesLeft ==
  ASSUME NEW s \in Seq(NotCore), s # <<>>
  PROVE  /\ Head(s) \in NotCore /\ Tail(s) \in Seq(NotCore)
         /\ Range(s) = {Head(s)} \cup Range(Tail(s))
<1>1. /\ Head(s) \in NotCore /\ Tail(s) \in Seq(NotCore) /\ Len(Tail(s)) = Len(s) - 1
      /\ \A i \in 1..Len(Tail(s)) : Tail(s)[i] = s[i + 1]
  BY HeadTailProperties
<1>2. Len(s) \in Nat \ {0} /\ Head(s) = s[1]
  BY EmptySeq
<1>3. DOMAIN s = 1..Len(s) /\ DOMAIN Tail(s) = 1..Len(Tail(s))
  BY <1>1
<1>4. ASSUME NEW i \in 1..Len(s) PROVE s[i] \in {Head(s)} \cup Range(Tail(s))
  <2>1. i # 1 => i - 1 \in 1..Len(Tail(s)) /\ s[i] = Tail(s)[i - 1]
    BY <1>1, <1>2
  <2> QED BY <1>2, <1>3, <2>1 DEF Range
<1>5. ASSUME NEW i \in 1..Len(Tail(s)) PROVE Tail(s)[i] \in Range(s)
  <2>1. i + 1 \in 1..Len(s) /\ Tail(s)[i] = s[i + 1]
    BY <1>1, <1>2
  <2> QED BY <1>3, <2>1 DEF Range
<1>6. Head(s) \in Range(s)
  BY <1>2, <1>3 DEF Range
<1> QED BY <1>1, <1>3, <1>4, <1>5, <1>6 DEF Range

(* What handling one name leaves of the edit.                                *)
LEMMA NextNameShape ==
  ASSUME EditShape, teOp # "none", NextName
  PROVE  /\ teWork' \in Seq(NotCore) /\ (teOp' = "none" <=> teWork' = <<>>)
         /\ teOp' \in {"none", teOp} /\ teWork' = Tail(teWork)
         /\ Range(teWork) = {Head(teWork)} \cup Range(teWork')
         /\ Head(teWork) \in NotCore
  BY NamesLeft DEF EditShape, NextName

-----------------------------------------------------------------------------
(* At first there are the core entries, and nothing walks.                   *)
LEMMA InitTeleInv == TeleInit => TeleInv
<1> SUFFICES ASSUME TeleInit PROVE TeleInv
  OBVIOUS
<1> USE CoreFacts DEF TeleInit
<1>0. /\ teIds = [i \in 1..TeleMax |-> IF i <= CoreCount THEN CoreTele[i] ELSE NoTele]
      /\ teFns = teIds /\ teCount = CoreCount /\ TeleMax \in Nat
  BY TeleAssumption DEF CoreCount
<1>1. TeleTypeOK
  <2>1. \A i \in 1..TeleMax : (IF i <= CoreCount THEN CoreTele[i] ELSE NoTele) \in Teles \cup {NoTele}
    BY <1>0
  <2>2. teIds \in [1..TeleMax -> Teles \cup {NoTele}]
    BY <1>0, <2>1
  <2>3. teHalf \in BOOLEAN /\ teMoved \in BOOLEAN
    OBVIOUS
  <2>4. teCount \in 0..TeleMax /\ teShift \in 0..TeleMax /\ tePos \in 1..(TeleMax + 1)
    BY <1>0
  <2> QED BY <1>0, <2>2, <2>3, <2>4 DEF TeleTypeOK
<1>2. EditShape
  BY EmptySeq DEF EditShape
<1>3. CoreFirst
  BY <1>0 DEF CoreFirst, IsCore
<1>4. EntriesAgree
  <2>1. Kept = 1..CoreCount /\ CoreTeles \subseteq Known
    BY DEF Kept, CoreCount, Known, Live
  <2>2. \A i \in 1..CoreCount : teIds[i] = CoreTele[i] /\ teFns[i] = CoreTele[i]
    BY <1>0
  <2>3. \A i \in Kept : teFns[i] = teIds[i] /\ teIds[i] \in Known
    BY <2>1, <2>2
  <2>4. \A i, j \in Kept : teIds[i] = teIds[j] => i = j
    BY <2>1, <2>2
  <2> QED BY <2>3, <2>4 DEF EntriesAgree
<1>5. WalkShape
  BY EmptySeq DEF WalkShape
<1>6. WalkRight
  BY DEF WalkRight
<1> QED BY <1>1, <1>2, <1>3, <1>4, <1>5, <1>6 DEF TeleInv

(* An edit begins, and keeps the invariant.                                  *)
LEMMA EditBegins ==
  ASSUME TeleInv, NEW kind \in {"register", "unregister"}, NEW g \in Seq(NotCore),
         Edit(kind, g), teOn' \subseteq TeleGroup,
         Live \subseteq Live' \cup IF kind = "unregister" THEN Range(g) ELSE {},
         kind = "register" => Range(g) \subseteq Live'
  PROVE  TeleInv'
<1> USE DEF TeleInv
<1>0. /\ teOp = "none" /\ g # <<>> /\ teOp' = kind /\ teWork' = g
      /\ teMoved' = (teMoved \/ (kind = "unregister" /\ teAt # "none"))
      /\ UNCHANGED <<teIds, teFns, teCount, teShift, teHalf, teAt, tePos, teFn, teCalls>>
  BY DEF Edit, teArray, teWalk
<1>1. teShift = 0 /\ teHalf = FALSE /\ teWork = <<>>
  BY <1>0 DEF EditShape, TeleTypeOK
<1>2. TeleTypeOK'
  BY <1>0 DEF TeleTypeOK
<1>3. EditShape'
  BY <1>0, <1>1 DEF EditShape
<1>4. CoreFirst'
  BY <1>0 DEF CoreFirst
<1>5. EntriesAgree'
  <2>1. Kept' = Kept /\ Known \subseteq Known'
    BY <1>0 DEF Kept, Known
  <2> QED BY <1>0, <1>1, <2>1 DEF EntriesAgree
<1>6. WalkShape'
  BY <1>0 DEF WalkShape
<1>7. WalkRight'
  BY <1>0, <1>1 DEF WalkRight
<1> QED BY <1>2, <1>3, <1>4, <1>5, <1>6, <1>7

(* So do adapters that go on or off, and network adapters.                   *)
LEMMA SwitchKeepsTeleInv == TeleInv /\ (SwitchGroup \/ RegisterMdns) => TeleInv'
<1> SUFFICES ASSUME TeleInv, SwitchGroup \/ RegisterMdns PROVE TeleInv'
  OBVIOUS
<1>0. teOn \subseteq TeleGroup
  BY DEF TeleInv, TeleTypeOK
<1>1. ASSUME NEW g \in TeleGroup \ teOn, Edit("register", g), teOn' = teOn \cup {g}
      PROVE  TeleInv'
  <2>1. Live \subseteq Live' /\ Range(g) \subseteq Live'
    BY <1>1 DEF Live
  <2> QED BY <1>0, <1>1, <2>1, GroupFacts, EditBegins
<1>2. ASSUME NEW g \in teOn, Edit("unregister", g), teOn' = teOn \ {g}
      PROVE  TeleInv'
  <2>1. Live \subseteq Live' \cup Range(g)
    BY <1>2 DEF Live
  <2> QED BY <1>0, <1>2, <2>1, GroupFacts, EditBegins
<1>3. CASE RegisterMdns
  <2>1. teOn' = teOn /\ Edit("register", <<MdnsTele>>)
    BY <1>3 DEF RegisterMdns
  <2>2. Live' = Live /\ Range(<<MdnsTele>>) \subseteq Live
    BY <2>1 DEF Live, Range
  <2> QED BY <1>0, <2>1, <2>2, GroupFacts, EditBegins
<1> QED BY <1>1, <1>2, <1>3 DEF SwitchGroup

(* A name is registered, or not, because it is there or the array is full.   *)
LEMMA RegisterKeepsTeleInv == TeleInv /\ RegisterTele => TeleInv'
<1> SUFFICES ASSUME TeleInv, RegisterTele PROVE TeleInv'
  OBVIOUS
<1> DEFINE name == Head(teWork)
<1>1. /\ teOp = "register" /\ teShift = 0
      /\ UNCHANGED <<teOn, teShift, teAt, tePos, teFn, teCalls, teMoved>>
  BY DEF TeleInv, RegisterTele, EditShape, teWalk
<1>2. /\ teWork \in Seq(NotCore) /\ teWork # <<>> /\ name \in NotCore
      /\ name \in Range(teWork) /\ name \in Words
  <2>1. teWork \in Seq(NotCore) /\ teWork # <<>>
    BY <1>1 DEF TeleInv, EditShape
  <2> QED BY <2>1, NamesLeft DEF NotCore, Words
<1>3. /\ teCount \in 0..TeleMax /\ TeleMax \in Nat /\ tePos \in 1..(TeleMax + 1)
      /\ teIds \in [1..TeleMax -> Words] /\ teFns \in [1..TeleMax -> Words]
  BY TeleAssumption DEF TeleInv, TeleTypeOK, Words
<1>4. DOMAIN teCalls = 1..(tePos - 1)
  BY <1>3 DEF TeleInv, WalkShape
<1>5. Kept = 1..teCount /\ Known = Live /\ Live' = Live /\ CoreCount \in Nat /\ CoreCount <= teCount
  BY <1>1, <1>3, CoreFacts DEF Kept, Known, Live, TeleInv, CoreFirst
<1> HIDE DEF name
<1>6. ASSUME NextName
      PROVE  /\ teWork' \in Seq(NotCore) /\ (teOp' = "none" <=> teWork' = <<>>)
             /\ teOp' \in {"none", "register"} /\ Range(teWork') \subseteq Range(teWork)
             /\ Known' = Live
  <2>1. /\ teWork' \in Seq(NotCore) /\ (teOp' = "none" <=> teWork' = <<>>)
        /\ teOp' \in {"none", teOp} /\ Range(teWork') \subseteq Range(teWork)
    BY <1>1, <1>6, NextNameShape DEF TeleInv
  <2> QED BY <1>1, <1>5, <2>1 DEF Known
<1>7. CASE /\ teCount >= TeleMax \/ (Taken(name) /\ ~teHalf)
           /\ NextName /\ UNCHANGED <<teIds, teFns, teCount, teHalf>>
  <2>1. ~teHalf
    BY <1>1, <1>3, <1>7 DEF TeleInv, EditShape
  <2>2. TeleTypeOK'
    BY <1>1, <1>6, <1>7 DEF TeleInv, TeleTypeOK
  <2>3. EditShape'
    BY <1>1, <1>6, <1>7, <2>1 DEF EditShape
  <2>4. CoreFirst'
    BY <1>7 DEF TeleInv, CoreFirst
  <2>5. Kept' = Kept
    BY <1>1, <1>7 DEF Kept
  <2>6. EntriesAgree'
    BY <1>1, <1>5, <1>6, <1>7, <2>5 DEF TeleInv, EntriesAgree
  <2>7. WalkShape'
    BY <1>1, <1>7 DEF TeleInv, WalkShape
  <2>8. WalkRight'
    BY <1>1, <1>6, <1>7 DEF TeleInv, WalkRight
  <2> QED BY <2>2, <2>3, <2>4, <2>6, <2>7, <2>8 DEF TeleInv
<1>8. CASE /\ teCount < TeleMax /\ ~Taken(name) /\ ~teHalf
           /\ teIds' = [teIds EXCEPT ![teCount + 1] = name]
           /\ teHalf' = TRUE
           /\ UNCHANGED <<teFns, teCount, teOp, teWork>>
  <2>1. /\ teIds' \in [1..TeleMax -> Words] /\ teCount + 1 \in 1..TeleMax
        /\ teIds'[teCount + 1] = name
        /\ \A i \in 1..TeleMax : i # teCount + 1 => teIds'[i] = teIds[i]
    BY <1>2, <1>3, <1>8
  <2>2. TeleTypeOK'
    <3>1. {teHalf', teMoved'} \subseteq BOOLEAN
      BY <1>1, <1>8 DEF TeleInv, TeleTypeOK
    <3> QED BY <1>1, <1>3, <1>8, <2>1, <3>1 DEF TeleInv, TeleTypeOK, Words
  <2>3. EditShape'
    <3>1. ~Taken(name)'
      BY <1>3, <1>8, <2>1 DEF Taken, name
    <3> QED BY <1>1, <1>2, <1>8, <2>1, <3>1 DEF TeleInv, EditShape, name
  <2>4. CoreFirst'
    BY <1>2, <1>3, <1>5, <1>8, <2>1 DEF TeleInv, CoreFirst, IsCore, NotCore
  <2>5. Kept' = 1..teCount /\ Known' = Live
    BY <1>1, <1>5, <1>8 DEF Kept, Known, Live
  <2>6. EntriesAgree'
    BY <1>1, <1>3, <1>5, <1>8, <2>1, <2>5 DEF TeleInv, EntriesAgree
  <2>7. WalkShape'
    BY <1>1, <1>8 DEF TeleInv, WalkShape
  <2>8. WalkRight'
    BY <1>1, <1>3, <1>4, <1>8, <2>1 DEF TeleInv, WalkRight
  <2> QED BY <2>2, <2>3, <2>4, <2>6, <2>7, <2>8 DEF TeleInv
<1>9. CASE /\ teHalf
           /\ teFns' = [teFns EXCEPT ![teCount + 1] = name]
           /\ teCount' = teCount + 1
           /\ teHalf' = FALSE
           /\ NextName
           /\ UNCHANGED teIds
  <2>1. teCount < TeleMax /\ teIds[teCount + 1] = name /\ ~Taken(name)
    BY <1>1, <1>9 DEF TeleInv, EditShape, name
  <2>2. /\ teFns' \in [1..TeleMax -> Words] /\ teCount + 1 \in 1..TeleMax
        /\ teFns'[teCount + 1] = name
        /\ \A i \in 1..TeleMax : i # teCount + 1 => teFns'[i] = teFns[i]
    BY <1>2, <1>3, <1>9, <2>1
  <2>3. TeleTypeOK'
    <3>1. {teHalf', teMoved'} \subseteq BOOLEAN
      BY <1>1, <1>9 DEF TeleInv, TeleTypeOK
    <3> QED BY <1>1, <1>3, <1>6, <1>9, <2>2, <3>1 DEF TeleInv, TeleTypeOK, Words
  <2>4. EditShape'
    BY <1>1, <1>6, <1>9 DEF EditShape
  <2>5. CoreFirst'
    BY <1>2, <1>3, <1>5, <1>9, <2>2 DEF TeleInv, CoreFirst, IsCore, NotCore
  <2>6. Kept' = (1..teCount) \cup {teCount + 1}
    BY <1>1, <1>3, <1>9 DEF Kept
  <2>7. EntriesAgree'
    <3>1. \A i \in 1..teCount : /\ teFns'[i] = teIds'[i] /\ teIds'[i] \in Live
                                /\ teIds'[i] # name
      BY <1>3, <1>5, <1>9, <2>1, <2>2 DEF TeleInv, EntriesAgree, Taken
    <3>2. teFns'[teCount + 1] = teIds'[teCount + 1] /\ teIds'[teCount + 1] = name /\ name \in Live
      BY <1>1, <1>2, <1>9, <2>1, <2>2 DEF TeleInv, EntriesAgree
    <3>3. \A i, j \in 1..teCount : teIds'[i] = teIds'[j] => i = j
      BY <1>5, <1>9 DEF TeleInv, EntriesAgree
    <3>4. teOp' = "register" => Range(teWork') \subseteq Live'
      BY <1>1, <1>5, <1>6, <1>9 DEF TeleInv, EntriesAgree
    <3> QED BY <1>1, <1>6, <1>9, <2>6, <3>1, <3>2, <3>3, <3>4 DEF EntriesAgree
  <2>8. WalkShape'
    BY <1>1, <1>9 DEF TeleInv, WalkShape
  <2>9. WalkRight'
    BY <1>1, <1>3, <1>4, <1>6, <1>9, <2>2 DEF TeleInv, WalkRight
  <2> QED BY <2>3, <2>4, <2>5, <2>7, <2>8, <2>9 DEF TeleInv
<1> QED BY <1>7, <1>8, <1>9 DEF RegisterTele, teArray, name

(* The search for a name removes nothing yet: either it is not there, or its *)
(* only entry is now the one to be overwritten.                              *)
LEMMA FindKeepsTeleInv == TeleInv /\ FindTele => TeleInv'
<1> SUFFICES ASSUME TeleInv, FindTele PROVE TeleInv'
  OBVIOUS
<1> DEFINE name == Head(teWork)
<1>1. /\ teOp = "unregister" /\ teShift = 0
      /\ UNCHANGED <<teIds, teFns, teCount, teOn, teHalf, teAt, tePos, teFn, teCalls, teMoved>>
  BY DEF FindTele, teArray, teWalk
<1>2. /\ teHalf = FALSE /\ teWork \in Seq(NotCore) /\ teWork # <<>> /\ name \in NotCore
      /\ Range(teWork) = {name} \cup Range(Tail(teWork))
  <2>1. teWork \in Seq(NotCore) /\ teWork # <<>>
    BY <1>1 DEF TeleInv, EditShape
  <2>2. teHalf \in BOOLEAN /\ ~teHalf
    BY <1>1 DEF TeleInv, EditShape, TeleTypeOK
  <2> QED BY <2>1, <2>2, NamesLeft
<1>3. /\ teCount \in 0..TeleMax /\ TeleMax \in Nat /\ CoreCount \in Nat
      /\ Kept = 1..teCount /\ Known = Live \cup Range(teWork) /\ Live' = Live
  BY <1>1, TeleAssumption, CoreFacts DEF TeleInv, TeleTypeOK, Kept, Known, Live
<1>4. CoreFirst' /\ WalkShape'
  BY <1>1 DEF TeleInv, CoreFirst, WalkShape
<1> HIDE DEF name
<1>5. CASE \E i \in 1..teCount :
             /\ teIds[i] = name
             /\ \A j \in 1..(i - 1) : teIds[j] # name
             /\ teShift' = i
             /\ UNCHANGED <<teOp, teWork>>
  <2>1. PICK i \in 1..teCount : teIds[i] = name /\ teShift' = i /\ UNCHANGED <<teOp, teWork>>
    BY <1>5
  <2>2. i \in (CoreCount + 1)..teCount
    BY <1>2, <1>3, <2>1, CoreFacts DEF TeleInv, CoreFirst, IsCore, NotCore
  <2>3. TeleTypeOK'
    BY <1>1, <1>3, <2>1 DEF TeleInv, TeleTypeOK
  <2>4. EditShape'
    BY <1>1, <1>2, <2>1, <2>2 DEF TeleInv, EditShape
  <2>5. Kept' = (1..teCount) \ {i} /\ Known' = Known
    BY <1>1, <1>3, <2>1 DEF Kept, Known
  <2>6. \A j \in Kept' : teIds[j] # name
    BY <1>3, <2>1, <2>5 DEF TeleInv, EntriesAgree
  <2>7. EntriesAgree'
    BY <1>1, <1>3, <2>1, <2>5, <2>6 DEF TeleInv, EntriesAgree, name
  <2>8. WalkRight'
    BY <1>1, <2>1 DEF TeleInv, WalkRight
  <2> QED BY <1>4, <2>3, <2>4, <2>7, <2>8 DEF TeleInv
<1>6. CASE ~Taken(name) /\ NextName /\ UNCHANGED teShift
  <2>1. /\ teWork' \in Seq(NotCore) /\ (teOp' = "none" <=> teWork' = <<>>)
        /\ teOp' \in {"none", "unregister"} /\ teWork' = Tail(teWork)
    BY <1>1, <1>6, NextNameShape DEF TeleInv
  <2>2. TeleTypeOK'
    BY <1>1, <1>6, <2>1 DEF TeleInv, TeleTypeOK
  <2>3. EditShape'
    BY <1>1, <1>2, <1>6, <2>1 DEF EditShape
  <2>4. Kept' = Kept
    BY <1>1, <1>6 DEF Kept
  <2>5. \A i \in Kept : teIds[i] \in Known'
    <3>1. \A i \in Kept : teIds[i] \in Live \cup Range(teWork')
      BY <1>2, <1>3, <1>6, <2>1 DEF TeleInv, EntriesAgree, Taken
    <3>2. teOp' = "none" => Range(teWork') = {}
      BY <2>1 DEF Range
    <3> QED BY <1>3, <2>1, <3>1, <3>2 DEF Known
  <2>6. EntriesAgree'
    BY <1>1, <1>6, <2>1, <2>4, <2>5 DEF TeleInv, EntriesAgree
  <2>7. WalkRight'
    BY <1>1, <2>1 DEF TeleInv, WalkRight
  <2> QED BY <1>4, <2>2, <2>3, <2>6, <2>7 DEF TeleInv
<1> QED BY <1>5, <1>6 DEF FindTele, name

(* An element takes what is behind it, one word and then the other; at the   *)
(* end the array is one shorter.                                             *)
LEMMA MoveKeepsTeleInv == TeleInv /\ MoveTele => TeleInv'
<1> SUFFICES ASSUME TeleInv, MoveTele PROVE TeleInv'
  OBVIOUS
<1> DEFINE name == Head(teWork)
<1>1. /\ teOp = "unregister" /\ teShift \in (CoreCount + 1)..teCount /\ teShift # 0
      /\ UNCHANGED <<teOn, teAt, tePos, teFn, teCalls, teMoved>>
  BY DEF TeleInv, MoveTele, EditShape, teWalk
<1>2. /\ teWork \in Seq(NotCore) /\ teWork # <<>> /\ name \in NotCore
      /\ Range(teWork) = {name} \cup Range(Tail(teWork))
  <2>1. teWork \in Seq(NotCore) /\ teWork # <<>>
    BY <1>1 DEF TeleInv, EditShape
  <2> QED BY <2>1, NamesLeft
<1>3. /\ teCount \in 0..TeleMax /\ TeleMax \in Nat /\ CoreCount \in Nat
      /\ teIds \in [1..TeleMax -> Words] /\ teFns \in [1..TeleMax -> Words]
      /\ Known = Live \cup Range(teWork) /\ Live' = Live
  BY <1>1, TeleAssumption, CoreFacts DEF TeleInv, TeleTypeOK, Known, Live, Words
<1>4. WalkShape'
  BY <1>1 DEF TeleInv, WalkShape
<1>5. teAt # "none" => teMoved = TRUE
  BY <1>1 DEF TeleInv, WalkRight, TeleTypeOK
<1>6. WalkRight'
  BY <1>1, <1>5 DEF WalkRight
<1>7. \A i \in Kept : teIds[i] # name
  BY <1>1 DEF TeleInv, EntriesAgree
<1> HIDE DEF name
<1>8. CASE /\ teShift < teCount /\ ~teHalf
           /\ teIds' = [teIds EXCEPT ![teShift] = teIds[teShift + 1]]
           /\ teHalf' = TRUE
           /\ UNCHANGED <<teFns, teCount, teShift, teOp, teWork>>
  <2>1. /\ teIds' \in [1..TeleMax -> Words] /\ teShift \in 1..(teCount - 1)
        /\ teIds'[teShift] = teIds[teShift + 1] /\ teIds'[teShift + 1] = teIds[teShift + 1]
        /\ \A i \in 1..TeleMax : i # teShift => teIds'[i] = teIds[i]
    BY <1>1, <1>3, <1>8
  <2>2. TeleTypeOK'
    <3>1. {teHalf', teMoved'} \subseteq BOOLEAN
      BY <1>1, <1>8 DEF TeleInv, TeleTypeOK
    <3> QED BY <1>1, <1>3, <1>8, <2>1, <3>1 DEF TeleInv, TeleTypeOK, Words
  <2>3. EditShape'
    BY <1>1, <1>2, <1>8, <2>1 DEF TeleInv, EditShape
  <2>4. CoreFirst'
    <3>1. IsCore(teShift + 1, teIds[teShift + 1]) /\ IsCore(teShift, teFns[teShift])
      BY <1>1, <1>3 , <2>1 DEF TeleInv, CoreFirst
    <3>2. \A i \in 1..TeleMax : IsCore(i, teIds'[i])
      BY <1>1, <1>3, <2>1, <3>1 DEF TeleInv, CoreFirst, IsCore
    <3> QED BY <1>8, <3>2 DEF TeleInv, CoreFirst
  <2>5. Kept' = Kept /\ Known' = Known /\ \A i \in Kept : teIds'[i] = teIds[i]
    BY <1>1, <1>3, <1>8, <2>1 DEF Kept, Known
  <2>6. EntriesAgree'
    BY <1>1, <1>8, <2>5 DEF TeleInv, EntriesAgree
  <2> QED BY <1>4, <1>6, <2>2, <2>3, <2>4, <2>6 DEF TeleInv
<1>9. CASE /\ teHalf
           /\ teFns' = [teFns EXCEPT ![teShift] = teFns[teShift + 1]]
           /\ teHalf' = FALSE /\ teShift' = teShift + 1
           /\ UNCHANGED <<teIds, teCount, teOp, teWork>>
  <2>1. teShift \in 1..(teCount - 1) /\ teIds[teShift] = teIds[teShift + 1]
    BY <1>1, <1>9 DEF TeleInv, EditShape
  <2>2. /\ teFns' \in [1..TeleMax -> Words] /\ teFns'[teShift] = teFns[teShift + 1]
        /\ \A i \in 1..TeleMax : i # teShift => teFns'[i] = teFns[i]
    BY <1>1, <1>3, <1>9, <2>1
  <2>3. TeleTypeOK'
    <3>1. {teHalf', teMoved'} \subseteq BOOLEAN
      BY <1>1, <1>9 DEF TeleInv, TeleTypeOK
    <3> QED BY <1>1, <1>3, <1>9, <2>1, <2>2, <3>1 DEF TeleInv, TeleTypeOK, Words
  <2>4. EditShape'
    BY <1>1, <1>2, <1>3, <1>9, <2>1 DEF TeleInv, EditShape
  <2>5. CoreFirst'
    <3>1. IsCore(teShift + 1, teFns[teShift + 1])
      BY <1>1, <1>3 , <2>1 DEF TeleInv, CoreFirst
    <3>2. \A i \in 1..TeleMax : IsCore(i, teFns'[i])
      BY <1>1, <1>3, <2>1, <2>2, <3>1 DEF TeleInv, CoreFirst, IsCore
    <3> QED BY <1>9, <3>2 DEF TeleInv, CoreFirst
  <2>6. /\ Kept = (1..teCount) \ {teShift} /\ Kept' = (1..teCount) \ {teShift + 1}
        /\ Known' = Known
    BY <1>1, <1>3, <1>9 DEF Kept, Known
  <2>7. teShift + 1 \in Kept /\ \A i \in Kept' : i # teShift => i \in Kept
    BY <1>1, <1>3, <2>1, <2>6
  <2>8. \A i \in Kept' : /\ teFns'[i] = teIds[i] /\ teIds[i] \in Known /\ teIds[i] # name
    BY <1>3, <1>7, <2>1, <2>2, <2>6, <2>7 DEF TeleInv, EntriesAgree
  <2>9. \A i, j \in Kept' : teIds[i] = teIds[j] => i = j
    BY <2>1, <2>6, <2>7 DEF TeleInv, EntriesAgree
  <2>10. EntriesAgree'
    BY <1>1, <1>9, <2>6, <2>8, <2>9 DEF EntriesAgree, name
  <2> QED BY <1>4, <1>6, <2>3, <2>4, <2>5, <2>10 DEF TeleInv
<1>10. CASE /\ teShift >= teCount
            /\ teCount' = teCount - 1 /\ teShift' = 0
            /\ NextName
            /\ UNCHANGED <<teIds, teFns, teHalf>>
  <2>1. teHalf = FALSE /\ teShift = teCount
    BY <1>1, <1>3, <1>10 DEF TeleInv, EditShape, TeleTypeOK
  <2>2. /\ teWork' \in Seq(NotCore) /\ (teOp' = "none" <=> teWork' = <<>>)
        /\ teOp' \in {"none", "unregister"} /\ teWork' = Tail(teWork)
    BY <1>1, <1>10, NextNameShape DEF TeleInv
  <2>3. TeleTypeOK'
    BY <1>1, <1>3, <1>10, <2>2 DEF TeleInv, TeleTypeOK
  <2>4. EditShape'
    BY <1>10, <2>1, <2>2 DEF EditShape
  <2>5. CoreFirst'
    BY <1>1, <1>3, <1>10, <2>1 DEF TeleInv, CoreFirst
  <2>6. Kept' = Kept
    BY <1>3, <1>1, <1>10, <2>1 DEF Kept
  <2>7. \A i \in Kept : teIds[i] \in Known'
    <3>1. \A i \in Kept : teIds[i] \in Live \cup Range(teWork')
      BY <1>2, <1>3, <1>7, <2>2 DEF TeleInv, EntriesAgree
    <3>2. teOp' = "none" => Range(teWork') = {}
      BY <2>2 DEF Range
    <3> QED BY <1>3, <2>2, <3>1, <3>2 DEF Known
  <2>8. EntriesAgree'
    BY <1>10, <2>2, <2>6, <2>7 DEF TeleInv, EntriesAgree
  <2> QED BY <1>4, <1>6, <2>3, <2>4, <2>5, <2>8 DEF TeleInv
<1> QED BY <1>8, <1>9, <1>10 DEF MoveTele

(* The walk goes on.                                                         *)
LEMMA WalkKeepsTeleInv ==
  TeleInv /\ (StartWalk \/ TestCount \/ EndWalk \/ ReadFn \/ ReadId) => TeleInv'
<1> SUFFICES ASSUME TeleInv, StartWalk \/ TestCount \/ EndWalk \/ ReadFn \/ ReadId PROVE TeleInv'
  OBVIOUS
<1>1. UNCHANGED <<teIds, teFns, teCount, teOn, teOp, teWork, teShift, teHalf>>
  BY DEF StartWalk, TestCount, EndWalk, ReadFn, ReadId, teArray, teEdit
<1>2. EditShape' /\ CoreFirst' /\ EntriesAgree'
  <2>1. EditShape' /\ CoreFirst'
    BY <1>1 DEF TeleInv, EditShape, Taken, CoreFirst
  <2>2. Kept' = Kept /\ Known' = Known /\ Live' = Live
    BY <1>1 DEF Kept, Known, Live
  <2> QED BY <1>1, <2>1, <2>2 DEF TeleInv, EntriesAgree
<1>3. /\ teCount \in 0..TeleMax /\ TeleMax \in Nat /\ CoreCount \in Nat
      /\ tePos \in 1..(TeleMax + 1)
      /\ teIds \in [1..TeleMax -> Words] /\ teFns \in [1..TeleMax -> Words]
  BY TeleAssumption, CoreFacts DEF TeleInv, TeleTypeOK, Words
<1>4. /\ teCalls \in Seq([fn : Words, id : Words]) /\ Len(teCalls) = tePos - 1
      /\ DOMAIN teCalls = 1..(tePos - 1)
  BY <1>3 DEF TeleInv, WalkShape
<1>5. CASE StartWalk
  <2>1. TeleTypeOK'
    BY <1>1, <1>5 DEF TeleInv, TeleTypeOK, StartWalk, teEdit, teArray
  <2>2. WalkShape'
    BY <1>5 DEF TeleInv, WalkShape, StartWalk
  <2>3. WalkRight'
    <3>1. tePos' = 1 /\ teAt' = "test" /\ teCalls' = teCalls
      BY <1>5 DEF TeleInv, WalkShape, StartWalk
    <3>2. ~teMoved' => teOp' # "unregister"
      BY <1>1, <1>5 DEF StartWalk
    <3>3. DOMAIN teCalls' = {}
      BY <1>4, <3>1, <1>5 DEF TeleInv, WalkShape, StartWalk
    <3> QED BY <1>1, <1>3, <3>1, <3>2, <3>3 DEF WalkRight
  <2> QED BY <1>2, <2>1, <2>2, <2>3 DEF TeleInv
<1>6. CASE TestCount
  <2>1. TeleTypeOK'
    BY <1>1, <1>6 DEF TeleInv, TeleTypeOK, TestCount
  <2>2. WalkShape'
    BY <1>3, <1>6 DEF TeleInv, WalkShape, TestCount
  <2>3. WalkRight'
    BY <1>1, <1>6 DEF TeleInv, WalkRight, TestCount
  <2> QED BY <1>2, <2>1, <2>2, <2>3 DEF TeleInv
<1>7. CASE EndWalk
  <2>1. TeleTypeOK'
    <3>1. tePos' = 1 /\ teAt' = "none" /\ teMoved' = FALSE /\ UNCHANGED teHalf
      BY <1>1, <1>7 DEF EndWalk
    <3>2. {teHalf', teMoved'} \subseteq BOOLEAN
      BY <3>1 DEF TeleInv, TeleTypeOK
    <3> QED BY <1>1, <1>3, <3>1, <3>2 DEF TeleInv, TeleTypeOK
  <2>2. WalkShape'
    BY <1>7, EmptySeq DEF WalkShape, EndWalk
  <2>3. WalkRight'
    BY <1>7 DEF WalkRight, EndWalk
  <2> QED BY <1>2, <2>1, <2>2, <2>3 DEF TeleInv
<1>8. CASE ReadFn
  <2>1. TeleTypeOK'
    BY <1>1, <1>8 DEF TeleInv, TeleTypeOK, ReadFn
  <2>2. tePos \in 1..TeleMax
    BY <1>3, <1>8 DEF TeleInv, WalkShape, ReadFn
  <2>3. WalkShape'
    BY <1>3, <1>8, <2>2 DEF TeleInv, WalkShape, ReadFn, CoreFirst
  <2>4. WalkRight'
    BY <1>1, <1>8 DEF TeleInv, WalkRight, ReadFn
  <2> QED BY <1>2, <2>1, <2>3, <2>4 DEF TeleInv
<1>9. CASE ReadId
  <2> DEFINE call == [fn |-> teFn, id |-> teIds[tePos]]
  <2>1. /\ tePos \in 1..TeleMax /\ teFn \in Words /\ IsCore(tePos, teFn)
        /\ IsCore(tePos, teIds[tePos]) /\ teIds[tePos] \in Words
    BY <1>3, <1>9 DEF TeleInv, WalkShape, ReadId, CoreFirst
  <2>2. call \in [fn : Words, id : Words] /\ call.fn = teFn /\ call.id = teIds[tePos]
    BY <2>1
  <2>3. teCalls' = Append(teCalls, call) /\ tePos' = tePos + 1 /\ teAt' = "test"
        /\ teMoved' = teMoved /\ teAt = "id"
    BY <1>9 DEF ReadId
  <2> HIDE DEF call
  <2>4. /\ teCalls' \in Seq([fn : Words, id : Words]) /\ Len(teCalls') = tePos
        /\ DOMAIN teCalls' = 1..tePos
        /\ \A k \in 1..(tePos - 1) : teCalls'[k] = teCalls[k]
        /\ teCalls'[tePos] = call
    BY <1>3, <1>4, <2>2, <2>3
  <2>5. TeleTypeOK'
    BY <1>1, <1>3, <2>1, <2>3 DEF TeleInv, TeleTypeOK
  <2>6. WalkShape'
    BY <1>3, <1>4, <2>1, <2>2, <2>3, <2>4 DEF TeleInv, WalkShape
  <2>7. WalkRight'
    <3> SUFFICES ASSUME ~teMoved PROVE WalkRight'
      BY <2>3 DEF WalkRight
    <3>1. /\ teOp # "unregister" /\ tePos <= teCount /\ teFn = teFns[tePos]
          /\ \A k \in DOMAIN teCalls : teCalls[k].id = teIds[k] /\ teCalls[k].fn = teIds[k]
      BY <2>3 DEF TeleInv, WalkRight
    <3>2. teShift = 0
      BY <3>1 DEF TeleInv, EditShape
    <3>3. teFns[tePos] = teIds[tePos]
      BY <1>3, <2>1, <3>1, <3>2 DEF TeleInv, EntriesAgree, Kept
    <3> QED BY <1>1, <1>3, <1>4, <2>1, <2>2, <2>3, <2>4, <3>1, <3>3 DEF WalkRight
  <2> QED BY <1>2, <2>5, <2>6, <2>7 DEF TeleInv
<1> QED BY <1>5, <1>6, <1>7, <1>8, <1>9

(* The invariant holds of every behaviour.                                   *)
THEOREM TeleInvariant == TeleSpec => []TeleInv
<1>1. TeleInv /\ UNCHANGED teleVars => TeleInv'
  <2> SUFFICES ASSUME TeleInv, UNCHANGED teleVars PROVE TeleInv'
    OBVIOUS
  <2>1. UNCHANGED <<teIds, teFns, teCount, teOn, teOp, teWork, teShift, teHalf,
                    teAt, tePos, teFn, teCalls, teMoved>>
    BY DEF teleVars, teArray, teEdit, teWalk
  <2>2. Kept' = Kept /\ Known' = Known /\ Live' = Live
    BY <2>1 DEF Kept, Known, Live
  <2> QED BY <2>1, <2>2
          DEF TeleInv, TeleTypeOK, EditShape, Taken, CoreFirst, EntriesAgree, WalkShape, WalkRight
<1>2. TeleInv /\ [TeleNext]_teleVars => TeleInv'
  BY <1>1, SwitchKeepsTeleInv, RegisterKeepsTeleInv, FindKeepsTeleInv, MoveKeepsTeleInv,
     WalkKeepsTeleInv DEF TeleNext
<1> QED BY <1>2, InitTeleInv, PTL DEF TeleSpec

(* A walk that ends has called what TelemetryComplete says.                  *)
LEMMA WalkEndsComplete ==
  ASSUME TeleInv, EndWalk
  PROVE  /\ SubSeq(teCalls, 1, Len(CoreTele)) = CoreCalls
         /\ \A k \in DOMAIN Behind : {Behind[k].fn, Behind[k].id} \cap CoreTeles = {}
         /\ ~teMoved =>
              LET called == {c.id : c \in Range(teCalls)} IN
                /\ \A c \in Range(teCalls) : c.fn = c.id
                /\ IsInjective(teCalls)
                /\ called = {teIds[i] : i \in 1..teCount} /\ called \subseteq Live
<1> DEFINE CallWords == [fn : Words, id : Words]
<1>1. /\ teCount \in Nat /\ tePos \in Nat \ {0} /\ tePos > teCount /\ CoreCount \in 0..teCount
      /\ teAt = "test"
  BY TeleAssumption, CoreFacts DEF TeleInv, TeleTypeOK, CoreFirst, EndWalk
<1>2. /\ teCalls \in Seq(CallWords) /\ Len(teCalls) = tePos - 1 /\ DOMAIN teCalls = 1..(tePos - 1)
      /\ \A k \in 1..(tePos - 1) : /\ teCalls[k] \in CallWords
                                    /\ IsCore(k, teCalls[k].fn) /\ IsCore(k, teCalls[k].id)
  <2>1. teCalls \in Seq(CallWords) /\ Len(teCalls) = tePos - 1
    BY DEF TeleInv, WalkShape
  <2> HIDE DEF CallWords
  <2>2. DOMAIN teCalls = 1..(tePos - 1) /\ \A k \in 1..(tePos - 1) : teCalls[k] \in CallWords
    BY <2>1, LenProperties, ElementOfSeq
  <2> QED BY <2>1, <2>2 DEF TeleInv, WalkShape
<1>3. SubSeq(teCalls, 1, CoreCount) = CoreCalls
  <2> DEFINE first == SubSeq(teCalls, 1, CoreCount)
  <2>1. /\ first \in Seq(CallWords) /\ Len(first) = CoreCount
        /\ \A k \in 1..CoreCount : first[k] = teCalls[k]
    <3>1. \A i \in 1..CoreCount : teCalls[i] \in CallWords
      BY <1>1, <1>2
    <3> QED BY <1>1, <3>1, SubSeqProperties
  <2>2. first = [k \in 1..CoreCount |-> first[k]]
    BY <2>1
  <2> HIDE DEF first
  <2>3. \A k \in 1..CoreCount : first[k] = [fn |-> CoreTele[k], id |-> CoreTele[k]]
    BY <1>1, <1>2, <2>1 DEF IsCore
  <2>4. DOMAIN CoreTele = 1..CoreCount
    BY TeleAssumption DEF CoreCount
  <2> QED BY <2>2, <2>3, <2>4 DEF CoreCalls, first
<1>4. \A k \in DOMAIN Behind : {Behind[k].fn, Behind[k].id} \cap CoreTeles = {}
  <2>1. \A i \in (CoreCount + 1)..(tePos - 1) : teCalls[i] \in CallWords
    BY <1>1, <1>2
  <2>2. Behind = SubSeq(teCalls, CoreCount + 1, tePos - 1)
    BY <1>2 DEF Behind, CoreCount
  <2>3. /\ Behind \in Seq(CallWords) /\ Len(Behind) = tePos - 1 - CoreCount
        /\ \A k \in 1..(tePos - 1 - CoreCount) : Behind[k] = teCalls[CoreCount + k]
    <3> HIDE DEF CallWords
    <3>1. /\ Behind \in Seq(CallWords)
          /\ Len(Behind) = IF CoreCount + 1 <= tePos - 1 THEN tePos - 1 - (CoreCount + 1) + 1 ELSE 0
          /\ \A k \in 1..(tePos - 1 - (CoreCount + 1) + 1) : Behind[k] = teCalls[CoreCount + 1 + k - 1]
      BY <1>1, <2>1, <2>2, SubSeqProperties
    <3>2. CoreCount \in Nat /\ tePos - 1 >= CoreCount
      BY <1>1
    <3>3. \A k \in 1..(tePos - 1 - CoreCount) : CoreCount + 1 + k - 1 = CoreCount + k
      BY <1>1
    <3>4. tePos - 1 - (CoreCount + 1) + 1 = tePos - 1 - CoreCount
      BY <1>1
    <3>5. Len(Behind) = tePos - 1 - CoreCount
      BY <1>1, <3>1, <3>2
    <3> QED BY <3>1, <3>3, <3>4, <3>5
  <2>4. \A k \in DOMAIN Behind : Behind[k] = teCalls[CoreCount + k] /\ CoreCount + k \in (CoreCount + 1)..(tePos - 1)
    BY <1>1, <2>3
  <2> QED BY <1>1, <1>2, <2>4 DEF IsCore
<1>5. ASSUME ~teMoved
      PROVE  /\ \A c \in Range(teCalls) : c.fn = c.id
             /\ IsInjective(teCalls)
             /\ {c.id : c \in Range(teCalls)} = {teIds[i] : i \in 1..teCount}
             /\ {c.id : c \in Range(teCalls)} \subseteq Live
  <2>1. /\ teOp # "unregister" /\ tePos - 1 = teCount
        /\ \A k \in 1..teCount : teCalls[k].id = teIds[k] /\ teCalls[k].fn = teIds[k]
    BY <1>1, <1>2, <1>5 DEF TeleInv, WalkRight
  <2>2. Kept = 1..teCount /\ Known = Live
    BY <1>1, <2>1 DEF TeleInv, EditShape, Kept, Known
  <2>3. \A c \in Range(teCalls) : \E k \in 1..teCount : c = teCalls[k]
    BY <1>2, <2>1 DEF Range
  <2>4. \A k \in 1..teCount : teCalls[k] \in Range(teCalls)
    BY <1>2, <2>1 DEF Range
  <2>5. IsInjective(teCalls)
    BY <1>2, <2>1, <2>2 DEF IsInjective, TeleInv, EntriesAgree
  <2>6. \A i \in 1..teCount : teIds[i] \in Live
    BY <2>2 DEF TeleInv, EntriesAgree
  <2> QED BY <2>1, <2>3, <2>4, <2>5, <2>6
<1> QED BY <1>3, <1>4, <1>5 DEF CoreCount

(* The promise of the registry, for any groups and any size of the array.    *)
THEOREM TelemetryIsComplete == TeleSpec => TelemetryComplete
<1>1. TeleInv /\ [TeleNext]_teleVars =>
        [EndWalk =>
           /\ SubSeq(teCalls, 1, Len(CoreTele)) = CoreCalls
           /\ \A k \in DOMAIN Behind : {Behind[k].fn, Behind[k].id} \cap CoreTeles = {}
           /\ ~teMoved =>
                LET called == {c.id : c \in Range(teCalls)} IN
                  /\ \A c \in Range(teCalls) : c.fn = c.id
                  /\ IsInjective(teCalls)
                  /\ called = {teIds[i] : i \in 1..teCount} /\ called \subseteq Live
        ]_teleVars
  BY WalkEndsComplete
<1> QED BY <1>1, TeleInvariant, PTL DEF TeleSpec, TelemetryComplete

-----------------------------------------------------------------------------
(* Together                                                                  *)

(* Every variable of the switch adapter has its type.                        *)
THEOREM SwitchTypes == SwitchSpec => []SwitchTypeOK
<1>0. \A l \in SwitchList : \A m \in SUBSET Switches(l) : m \in Masks
  BY Zenon DEF Masks
<1>1. SwitchInit => SwitchTypeOK
  BY <1>0, SwitchListAssumption DEF SwitchInit, SwitchTypeOK
<1>2. SwitchTypeOK /\ [SwitchNext]_swVars => SwitchTypeOK'
  <2> SUFFICES ASSUME SwitchTypeOK, [SwitchNext]_swVars PROVE SwitchTypeOK'
    OBVIOUS
  <2>1. CASE StartSwitches
    BY <1>0, <2>1 DEF SwitchTypeOK, StartSwitches, RestoreSwitches, swNvs
  <2>2. CASE StopSwitches
    BY <2>2 DEF SwitchTypeOK, StopSwitches, swNvs
  <2>3. CASE CommandSwitch
    <3>1. PICK i \in Switches(swList), on \in BOOLEAN : SetSwitch(i, on)
      BY <2>3 DEF CommandSwitch
    <3>2. swOn' \in SUBSET Switches(swList) /\ swOn' \in Masks
      BY <1>0, <3>1 DEF SetSwitch, SwitchTypeOK
    <3>3. swLast' \in Masks /\ swSaved' \in Masks /\ swSure' \in BOOLEAN /\ UNCHANGED swPrint
      BY <3>1, <3>2 DEF SetSwitch, SaveSwitches, SwitchTypeOK, swNvs
    <3> QED BY <2>3, <3>1, <3>2, <3>3 DEF CommandSwitch, SetSwitch, SwitchTypeOK
  <2>4. CASE ResetSwitches \/ EraseSwitches
    BY <1>0, <2>4 DEF SwitchTypeOK, ResetSwitches, EraseSwitches, swNvs
  <2>5. CASE UNCHANGED swVars
    BY <2>5 DEF SwitchTypeOK, swVars
  <2> QED BY <2>1, <2>2, <2>3, <2>4, <2>5 DEF SwitchNext
<1> QED BY <1>1, <1>2, PTL DEF SwitchSpec

(* Every variable of the LED adapter has its type.                           *)
THEOREM LedTypes == LedSpec => []LedTypeOK
<1>0. Full = 255 /\ AllOff \in Duties /\ Cleared \in Pair /\ [i \in LedId |-> Full] \in Duties
  BY DEF Full, AllOff, Duties, Cleared, Pair
<1>1. LedInit => LedTypeOK
  BY <1>0 DEF LedInit, LedTypeOK
<1>2. LedTypeOK /\ [LedNext]_ledVars => LedTypeOK'
  <2> SUFFICES ASSUME LedTypeOK, [LedNext]_ledVars PROVE LedTypeOK'
    OBVIOUS
  <2>a. /\ ledNow \in Duties /\ ledBack \in Duties
         /\ ledLast \in Pair /\ ledCfg \in Pair /\ ledNvs \in Pair
         /\ ledRunning \in BOOLEAN /\ ledDirty \in BOOLEAN /\ ledSure \in BOOLEAN
         /\ ledSaving \in {"no", "interval", "stop"}
    BY DEF LedTypeOK
  <2>b. \A p \in Pair, d \in Duties :
          [p EXCEPT !.now = d] \in Pair /\ [p EXCEPT !.back = d] \in Pair
    BY DEF Pair
  <2>1. CASE StartLeds
    <3>1. ledCfg.now \in Duties /\ ledCfg.back \in Duties
      BY <2>a DEF Pair
    <3>2. ledRunning' \in BOOLEAN /\ ledDirty' \in BOOLEAN /\ ledSure' \in BOOLEAN
      BY <2>a, <2>1 DEF StartLeds
    <3>3. ledNow' \in Duties /\ ledBack' \in Duties /\ ledLast' \in Pair
      BY <1>0, <2>a, <2>1, <3>1 DEF StartLeds
    <3> QED BY <2>a, <2>1, <3>2, <3>3 DEF LedTypeOK, StartLeds
  <2>2. ASSUME NEW caller \in {"interval", "stop"}, SaveLeds(caller),
               UNCHANGED <<ledNow, ledBack, ledLast>>
        PROVE  LedTypeOK'
    <3>1. ledCfg' \in Pair /\ ledNvs' \in Pair /\ ledSaving' \in {"no", "interval", "stop"}
      BY <2>a, <2>b, <2>2 DEF SaveLeds
    <3>2. ledRunning' \in BOOLEAN /\ ledDirty' \in BOOLEAN /\ ledSure' \in BOOLEAN
      BY <2>a, <2>2 DEF SaveLeds
    <3> QED BY <2>2, <3>1, <3>2 DEF LedTypeOK
  <2>3. CASE SaveLedsEnd
    <3>1. [now |-> ledNow, back |-> ledBack] \in Pair
      BY DEF LedTypeOK, Pair
    <3>2. ledCfg' \in Pair /\ ledNvs' \in Pair /\ ledLast' \in Pair
      BY <2>b, <2>3, <3>1 DEF LedTypeOK, SaveLedsEnd
    <3>3. ledRunning' \in BOOLEAN /\ ledDirty' \in BOOLEAN /\ ledSure' \in BOOLEAN
      BY <2>3 DEF LedTypeOK, SaveLedsEnd
    <3> QED BY <2>3, <3>2, <3>3 DEF LedTypeOK, SaveLedsEnd
  <2>4. CASE CommandLed
    <3>1. PICK i \in LedId, b \in 0..Full : SetBrightness(i, b)
      <4>1. PICK i \in LedId :
              \/ \E b \in Brightness \cup {0} : SetBrightness(i, b)
              \/ TurnOn(i)
        BY <2>4 DEF CommandLed
      <4>2. ledBack[i] \in 0..Full /\ Brightness \cup {0} \subseteq 0..Full /\ Full \in 0..Full
        BY <1>0, <2>a, LedAssumption DEF Duties
      <4>3. CASE TurnOn(i)
        BY <4>2, <4>3 DEF TurnOn
      <4> QED BY <4>1, <4>2, <4>3
    <3>2. ledNow' \in Duties /\ ledBack' \in Duties /\ ledDirty' = TRUE
      BY <3>1 DEF SetBrightness, LedTypeOK, Duties
    <3> QED BY <2>4, <3>2 DEF CommandLed, LedTypeOK
  <2>5. CASE ResetLeds
    <3>1. ledCfg' \in Pair /\ ledLast' \in Pair
      BY <1>0, <2>a, <2>b, <2>5 DEF ResetLeds
    <3>2. ledSure' \in BOOLEAN
      BY <2>a, <2>5 DEF ResetLeds
    <3>3. /\ ledRunning' = FALSE /\ ledNow' = AllOff /\ ledBack' = AllOff /\ ledDirty' = FALSE
          /\ ledSaving' = "no" /\ ledNvs' = ledNvs
      BY <2>5 DEF ResetLeds
    <3> QED BY <1>0, <2>a, <3>1, <3>2, <3>3 DEF LedTypeOK
  <2>6. CASE UNCHANGED ledVars
    BY <2>6 DEF LedTypeOK, ledVars
  <2> QED BY <2>1, <2>2, <2>3, <2>4, <2>5, <2>6 DEF LedNext, StopLeds, LedInterval
<1> QED BY <1>1, <1>2, PTL DEF LedSpec

(* The modules share no state, so a behaviour of all is one of each.         *)
THEOREM OutputsParts ==
  Spec => SwitchSpec /\ LightSpec /\ LedSpec /\ NeopixelSpec /\ TeleSpec
<1>1. Init => SwitchInit /\ LightInit /\ LedInit /\ NeopixelInit /\ TeleInit
  BY DEF Init
<1> DEFINE Step == SwitchStep \/ LightStep \/ LedStep \/ NeopixelStep \/ TelemetryStep
<1>2. [Step]_allVars => [SwitchNext]_swVars
  BY DEF allVars, SwitchStep, LightStep, LedStep, NeopixelStep, TelemetryStep
<1>3. [Step]_allVars => [LightNext]_lightVars
  BY DEF allVars, SwitchStep, LightStep, LedStep, NeopixelStep, TelemetryStep
<1>4. [Step]_allVars => [LedNext]_ledVars
  BY DEF allVars, SwitchStep, LightStep, LedStep, NeopixelStep, TelemetryStep
<1>5. [Step]_allVars => [NeopixelNext]_neopixelVars
  BY DEF allVars, SwitchStep, LightStep, LedStep, NeopixelStep, TelemetryStep
<1>6. [Step]_allVars => [TeleNext]_teleVars
  BY DEF allVars, SwitchStep, LightStep, LedStep, NeopixelStep, TelemetryStep
<1> QED BY <1>1, <1>2, <1>3, <1>4, <1>5, <1>6, PTL
        DEF Spec, SwitchSpec, LightSpec, LedSpec, NeopixelSpec, TeleSpec

(* So every variable of the five has the type of its C counterpart.          *)
THEOREM OutputsTypes == Spec => []TypesOK
<1>1. LightInv => LightTypeOK
  BY DEF LightInv
<1>2. TeleInv => TeleTypeOK
  BY DEF TeleInv
<1>3. SwitchTypeOK /\ LightTypeOK /\ LedTypeOK /\ NeopixelTypeOK /\ TeleTypeOK => TypesOK
  BY DEF TypesOK
<1> QED BY <1>1, <1>2, <1>3, OutputsParts, SwitchTypes, LightInvariant, LedTypes,
           NeopixelTypes, TeleInvariant, PTL

(* And what is proved of each holds of them together.                        *)
THEOREM OutputsSafe ==
  Spec => /\ []SwitchesComeBack /\ []LitWhenOn /\ []CleanMeansSaved /\ []LedsKept
          /\ []EffectsEnd /\ TelemetryComplete
  BY OutputsParts, SwitchesReturn, LightsLit, LightsSaved, LedsStayKept, EffectsAreOver,
     TelemetryIsComplete, PTL
================================================================================
