------------------------------ MODULE Wifi_proofs ------------------------------
(***************************************************************************)
(* Proofs about the Wi-Fi driver wrapper, for any number of reconnect      *)
(* tasks, any inactivity timeout and any length of the event queue.        *)
(***************************************************************************)
EXTENDS Wifi, SequenceTheorems, TLAPS

(* An event waits in the list events.                                        *)
Waits(events, e) == \E i \in 1..Len(events) : events[i] = e

NoTasks == \A t \in Retry : wfRetry[t] = "gone"

(* As long as no two changes overlapped, one goes on at most; it finds the   *)
(* driver initialised, and what it has done so far shows.                    *)
OneChange == ~(Changing("supervisor") /\ Changing("timeout"))
StageOf(c) ==
  /\ wfAt[c] # "idle" => wfDriver # "none"
  /\ wfAt[c] = "delete" => wfHandle = NoRetry /\ wfNetif # {}
  /\ wfAt[c] \in {"delete", "stop", "clear"} => (wfHad[c] <=> wfNetif # {})
  /\ wfAt[c] \in {"stop", "clear", "mode", "start", "ensure", "deinit"} => NoTasks
  /\ wfAt[c] \in {"clear", "mode", "start", "deinit"} => ~wfOn
  /\ wfAt[c] \in {"mode", "deinit"} => wfEvents = <<>> /\ "ap" \notin wfBits
  /\ wfAt[c] = "start" => wfDriver = wfTo[c] /\ wfNetif # {}
  /\ wfAt[c] = "ensure" => IsStation

(* A reconnect task has a station to connect, and one that deletes it if not *)
(* the handle then the change that took the handle.                          *)
TaskOf(t) ==
  /\ IsStation /\ wfNetif # {}
  /\ t = wfHandle \/ \E c \in Changer : wfAt[c] = "delete" /\ wfTaken[c] = t

DriverInv ==
  /\ wfOn => wfNetif # {}
  /\ AtRest /\ wfDriver # "none" => wfOn
  /\ Waits(wfEvents, "disconnected") => wfDriver = "sta"
  /\ Waits(wfEvents, "ap_start") \/ "ap" \in wfBits => wfDriver = "ap" /\ wfNetif # {}

WatchInv ==
  /\ wfWatch = "callback" => wfDriver # "none"
  /\ "ap" \in wfBits /\ (wfWatch = "none" \/ WatchEnding) => wfMissed

NoRaceInv ==
  /\ ~wfAborted /\ OneChange /\ DriverInv /\ WatchInv
  /\ \A c \in Changer : StageOf(c)
  /\ \A t \in Retry : wfRetry[t] # "gone" => TaskOf(t)

WifiShape ==
  /\ WifiTypeOK
  /\ \A c \in Changer : /\ wfAt[c] = "mode" => wfTo[c] # "off"
                        /\ wfAt[c] = "deinit" => wfTo[c] = "off"
  /\ wfAt["timeout"] # "idle" => wfWatch = "change"
  /\ wfTo["timeout"] = "sta"
WifiInv == WifiShape /\ (~wfRace => NoRaceInv)

-----------------------------------------------------------------------------
WfEvents == {"got_ip", "disconnected", "ap_start", "ap_stop", "client", "client_left"}
WfPlaces == {"idle", "detach", "delete", "stop", "clear", "mode", "start", "ensure", "deinit"}

(* The parts of the type invariant, and what makes it hold afterwards.       *)
LEMMA WfTypes ==
  ASSUME WifiTypeOK
  PROVE  /\ wfDriver \in Modes \cup {"none"} /\ wfLink \in {"down", "joining", "up"}
         /\ wfOn \in BOOLEAN /\ wfHandlers \in BOOLEAN /\ wfIgnore \in BOOLEAN
         /\ wfAborted \in BOOLEAN /\ wfRace \in BOOLEAN /\ wfMissed \in BOOLEAN
         /\ wfEvents \in Seq(WfEvents) /\ wfBits \subseteq {"sta", "ap", "client", "shutdown"}
         /\ wfNetif \subseteq Modes /\ wfHandle \in Retry \cup {NoRetry}
         /\ wfRetry \in [Retry -> {"connect", "wait", "ending", "gone"}]
         /\ wfWatch \in {"none", "loop", "leave", "callback", "change", "ending"}
         /\ wfSeconds \in 0..ApSeconds /\ wfAt \in [Changer -> WfPlaces]
         /\ wfTo \in [Changer -> Modes \cup {"off"}]
         /\ wfTaken \in [Changer -> Retry \cup {NoRetry}] /\ wfHad \in [Changer -> BOOLEAN]
  BY DEF WifiTypeOK, WfEvents, WfPlaces

(* A step leaves every variable in its type if it leaves each in its set.    *)
LEMMA WfTyped ==
  ASSUME wfDriver' \in Modes \cup {"none"}, wfLink' \in {"down", "joining", "up"},
         wfOn' \in BOOLEAN, wfHandlers' \in BOOLEAN, wfIgnore' \in BOOLEAN,
         wfAborted' \in BOOLEAN, wfRace' \in BOOLEAN, wfMissed' \in BOOLEAN,
         wfEvents' \in Seq(WfEvents), wfBits' \subseteq {"sta", "ap", "client", "shutdown"},
         wfNetif' \subseteq Modes, wfHandle' \in Retry \cup {NoRetry},
         wfRetry' \in [Retry -> {"connect", "wait", "ending", "gone"}],
         wfWatch' \in {"none", "loop", "leave", "callback", "change", "ending"},
         wfSeconds' \in 0..ApSeconds, wfAt' \in [Changer -> WfPlaces],
         wfTo' \in [Changer -> Modes \cup {"off"}],
         wfTaken' \in [Changer -> Retry \cup {NoRetry}], wfHad' \in [Changer -> BOOLEAN]
  PROVE  WifiTypeOK'
  BY DEF WifiTypeOK, WfEvents, WfPlaces

(* What waits after an event is added, and after one is taken.               *)
LEMMA Appended ==
  ASSUME NEW events \in Seq(WfEvents), NEW e \in WfEvents, NEW f
  PROVE  /\ Append(events, e) \in Seq(WfEvents) /\ Append(events, e) # <<>>
         /\ Waits(Append(events, e), f) => Waits(events, f) \/ f = e
<1>1. Append(events, e) \in Seq(WfEvents) /\ Append(events, e) # <<>>
  BY DEF WfEvents
<1>2. ASSUME NEW i \in 1..Len(Append(events, e)), Append(events, e)[i] = f
      PROVE  Waits(events, f) \/ f = e
  <2>1. i \in 1..Len(events) \/ i = Len(events) + 1
    OBVIOUS
  <2> QED BY <1>2, <2>1 DEF Waits
<1> QED BY <1>1, <1>2 DEF Waits

(* What taking an event leaves is a list of events.                          *)
LEMMA Taken ==
  ASSUME NEW events \in Seq(WfEvents), events # <<>>, NEW f
  PROVE  /\ Head(events) \in WfEvents /\ Waits(events, Head(events)) /\ Tail(events) \in Seq(WfEvents)
         /\ Waits(Tail(events), f) => Waits(events, f)
<1>1. Head(events) = events[1] /\ 1 \in 1..Len(events) /\ Tail(events) \in Seq(WfEvents)
      /\ Head(events) \in WfEvents
  OBVIOUS
<1>2. ASSUME NEW i \in 1..Len(Tail(events)), Tail(events)[i] = f PROVE Waits(events, f)
  <2>1. i + 1 \in 1..Len(events) /\ events[i + 1] = f
    BY <1>2
  <2> QED BY <2>1 DEF Waits
<1> QED BY <1>1, <1>2 DEF Waits

(* Every step keeps the types.                                               *)
LEMMA EnsureTyped ==
  ASSUME WifiTypeOK, EnsureRunning
  PROVE  /\ wfHandle' \in Retry \cup {NoRetry}
         /\ wfRetry' \in [Retry -> {"connect", "wait", "ending", "gone"}]
  BY WfTypes DEF EnsureRunning, wfRetries

(* The beginning of a change,                                                *)
LEMMA BeginTyped ==
  ASSUME WifiTypeOK, NEW c \in Changer, NEW to \in Modes \cup {"off"}, Begin(c, to)
  PROVE  /\ wfAt' \in [Changer -> WfPlaces] /\ wfTo' \in [Changer -> Modes \cup {"off"}]
         /\ wfRace' \in BOOLEAN /\ wfIgnore' \in BOOLEAN /\ wfHandlers' \in BOOLEAN
         /\ wfBits' \subseteq {"sta", "ap", "client", "shutdown"}
<1>1. wfAt' \in [Changer -> WfPlaces] /\ wfTo' \in [Changer -> Modes \cup {"off"}]
  BY WfTypes DEF Begin, Go, WfPlaces
<1>2. wfRace' \in BOOLEAN
  BY DEF Begin
<1>3. CASE to = "off"
  <2>1. wfHandlers' = FALSE /\ wfBits' = wfBits \cup {"shutdown"} /\ UNCHANGED wfIgnore
    BY <1>3 DEF Begin
  <2> QED BY <1>1, <1>2, <2>1, WfTypes
<1>4. CASE to \in Modes
  <2>1. wfIgnore' \in BOOLEAN
    <3>1. wfIgnore' = TRUE \/ wfIgnore' = ("sta" \in wfNetif)
      BY <1>4 DEF Begin, Modes
    <3>2. ("sta" \in wfNetif) \in BOOLEAN
      OBVIOUS
    <3> QED BY <3>1, <3>2
  <2>2. UNCHANGED <<wfHandlers, wfBits>>
    BY <1>4 DEF Begin, Modes
  <2> QED BY <1>1, <1>2, <2>1, <2>2, WfTypes
<1> QED BY <1>3, <1>4

(* and every other step, leave every variable in its type.                   *)
LEMMA WifiTyped ==
  ASSUME WifiShape, [WifiNext]_wifiVars
  PROVE  WifiTypeOK'
<1>0. WifiTypeOK
  BY DEF WifiShape
<1> USE WfTypes, WfTyped, WifiAssumption, <1>0
    DEF wfDrv, wfRetries, wfAp, wfChange, wfEnd, Go, Modes
<1>1. CASE Abort
  <2>1. <<>> \in Seq(WfEvents) /\ 0 \in 0..ApSeconds
    OBVIOUS
  <2> QED BY <1>1, <2>1 DEF Abort, Changer, WfPlaces
<1>2. ASSUME NEW t \in Retry, RetryConnects(t), ~Abort PROVE WifiTypeOK'
  <2>1. wfEvents' \in Seq(WfEvents)
    BY <1>2, Appended DEF RetryConnects, WfEvents
  <2> QED BY <1>2, <2>1 DEF RetryConnects
<1>3. ASSUME NEW t \in Retry, RetryWaits(t) PROVE WifiTypeOK'
  BY <1>3 DEF RetryWaits
<1>4. ASSUME NEW t \in Retry, RetryEnds(t) PROVE WifiTypeOK'
  BY <1>4 DEF RetryEnds
<1>5. ASSUME NEW c \in Changer, Detach(c) PROVE WifiTypeOK'
  <2>1. /\ wfAt' \in [Changer -> WfPlaces] /\ wfHad' \in [Changer -> BOOLEAN]
        /\ wfTaken' \in [Changer -> Retry \cup {NoRetry}] /\ wfHandle' \in Retry \cup {NoRetry}
    <3>1. (wfNetif # {}) \in BOOLEAN
      OBVIOUS
    <3>2. wfHad' = wfHad \/ wfHad' = [wfHad EXCEPT ![c] = (wfNetif # {})]
      BY <1>5 DEF Detach
    <3>3. wfHad' \in [Changer -> BOOLEAN]
      BY <3>1, <3>2
    <3>4. wfAt' \in [Changer -> WfPlaces]
      BY <1>5 DEF Detach, WfPlaces
    <3>5. wfTaken' = wfTaken \/ wfTaken' = [wfTaken EXCEPT ![c] = wfHandle]
      BY <1>5 DEF Detach
    <3>6. wfTaken' \in [Changer -> Retry \cup {NoRetry}]
      BY <3>5
    <3>7. wfHandle' = wfHandle \/ wfHandle' = NoRetry
      BY <1>5 DEF Detach
    <3> QED BY <3>3, <3>4, <3>6, <3>7
  <2>2. wfSeconds' \in 0..ApSeconds /\ wfRetry' = wfRetry
    BY <1>5 DEF Detach
  <2>3. UNCHANGED <<wfDrv, wfEvents, wfHandlers, wfBits, wfIgnore, wfNetif, wfWatch, wfTo, wfEnd>>
    BY <1>5 DEF Detach
  <2> QED BY <2>1, <2>2, <2>3
<1>6. ASSUME NEW c \in Changer, Delete(c) PROVE WifiTypeOK'
  BY <1>6 DEF Delete, WfPlaces
<1>7. ASSUME NEW c \in Changer, Stop(c) PROVE WifiTypeOK'
  <2>1. wfEvents' \in Seq(WfEvents)
    BY <1>7, Appended DEF Stop, WfEvents
  <2>2. wfAt' \in [Changer -> WfPlaces]
    BY <1>7 DEF Stop, WfPlaces
  <2>3. /\ wfOn' = FALSE /\ wfLink' = "down"
        /\ UNCHANGED <<wfDriver, wfHandlers, wfBits, wfIgnore, wfNetif, wfHandle, wfRetry, wfWatch,
                       wfSeconds, wfTo, wfTaken, wfHad, wfAborted, wfRace, wfMissed>>
    BY <1>7 DEF Stop
  <2> QED BY <2>1, <2>2, <2>3
<1>8. ASSUME NEW c \in Changer, Clear(c) PROVE WifiTypeOK'
  BY <1>8 DEF Clear, WfPlaces
<1>9. ASSUME NEW c \in Changer, SetMode(c), ~Abort PROVE WifiTypeOK'
  <2>1. wfTo[c] \in Modes
    BY <1>9 DEF SetMode, WifiShape
  <2>2. wfDriver' = wfTo[c] /\ wfAt' \in [Changer -> WfPlaces]
    BY <1>9 DEF SetMode, WfPlaces
  <2> QED BY <1>9, <2>1, <2>2 DEF SetMode
<1>10. ASSUME NEW c \in Changer, StartDriver(c), ~Abort PROVE WifiTypeOK'
  <2>1. "ap_start" \in WfEvents /\ wfEvents' \in {wfEvents, Append(wfEvents, "ap_start")}
    BY <1>10 DEF StartDriver, WfEvents
  <2>2. wfEvents' \in Seq(WfEvents)
    BY <2>1, Appended
  <2>3. wfAt' \in [Changer -> WfPlaces] /\ wfTo' \in [Changer -> Modes \cup {"off"}]
    BY <1>10 DEF StartDriver, WfPlaces
  <2>4. /\ wfOn' = TRUE
        /\ UNCHANGED <<wfDriver, wfLink, wfHandlers, wfBits, wfIgnore, wfNetif, wfHandle, wfRetry,
                       wfWatch, wfSeconds, wfTaken, wfHad, wfAborted, wfRace, wfMissed>>
    BY <1>10 DEF StartDriver
  <2> QED BY <2>2, <2>3, <2>4
<1>11. ASSUME NEW c \in Changer, Ensure(c) PROVE WifiTypeOK'
  <2>1. wfAt' \in [Changer -> WfPlaces]
    BY <1>11 DEF Ensure, WfPlaces
  <2>2. /\ wfHandle' \in Retry \cup {NoRetry}
        /\ wfRetry' \in [Retry -> {"connect", "wait", "ending", "gone"}]
    BY <1>11, EnsureTyped DEF Ensure
  <2> QED BY <1>11, <2>1, <2>2 DEF Ensure
<1>12. ASSUME NEW c \in Changer, Deinit(c) PROVE WifiTypeOK'
  <2>1. wfAt' \in [Changer -> WfPlaces] /\ wfTo' \in [Changer -> Modes \cup {"off"}]
    BY <1>12 DEF Deinit, WfPlaces
  <2>2. wfDriver' = "none" /\ wfOn' = FALSE /\ wfLink' = "down"
    BY <1>12 DEF Deinit
  <2>3. UNCHANGED <<wfEvents, wfHandlers, wfBits, wfIgnore, wfNetif, wfHandle, wfRetry, wfWatch,
                    wfSeconds, wfTaken, wfHad, wfAborted, wfRace, wfMissed>>
    BY <1>12 DEF Deinit
  <2> QED BY <2>1, <2>2, <2>3
<1>13. CASE Configure
  <2>1. CASE UNCHANGED wifiVars
    BY <2>1 DEF wifiVars
  <2>2. CASE ~UNCHANGED wifiVars
    <3>0. ("sta" \in wfNetif) \in BOOLEAN /\ (wfRace \/ Changing("timeout")) \in BOOLEAN
      OBVIOUS
    <3>1. wfRace' \in BOOLEAN /\ wfIgnore' \in BOOLEAN
      BY <1>13, <2>2, <3>0 DEF Configure
    <3>2. wfAt' \in [Changer -> WfPlaces] /\ wfTo' \in [Changer -> Modes \cup {"off"}]
      BY <1>13, <2>2 DEF Configure, WfPlaces
    <3> QED BY <1>13, <2>2, <3>1, <3>2 DEF Configure
  <2> QED BY <2>1, <2>2
<1>14. CASE ChangeMode
  <2>1. PICK to \in Modes \cup {"off"} : Begin("supervisor", to)
    BY <1>14 DEF ChangeMode
  <2>2. "supervisor" \in Changer
    BY DEF Changer
  <2> QED BY <1>14, <2>1, <2>2, BeginTyped DEF ChangeMode
<1>15. CASE WatchTick
  <2>1. wfWatch' \in {"loop", "leave"} /\ wfSeconds' \in 0..ApSeconds
    BY <1>15 DEF WatchTick
  <2>2. UNCHANGED <<wfDriver, wfOn, wfLink, wfEvents, wfHandlers, wfBits, wfIgnore, wfNetif, wfHandle,
                    wfRetry, wfAt, wfTo, wfTaken, wfHad, wfAborted, wfRace, wfMissed>>
    BY <1>15 DEF WatchTick
  <2> QED BY <2>1, <2>2
<1>16. CASE WatchLeaves \/ WatchEnds
  <2>1. wfWatch' \in {"none", "callback", "ending"} /\ wfRace' \in BOOLEAN
    BY <1>16 DEF WatchLeaves, WatchEnds
  <2>2. UNCHANGED <<wfDriver, wfOn, wfLink, wfEvents, wfHandlers, wfBits, wfIgnore, wfNetif, wfHandle,
                    wfRetry, wfSeconds, wfAt, wfTo, wfTaken, wfHad, wfAborted, wfMissed>>
    BY <1>16 DEF WatchLeaves, WatchEnds
  <2> QED BY <2>1, <2>2
<1>17. CASE WatchChanges
  <2>1. "timeout" \in Changer /\ "sta" \in Modes \cup {"off"}
    BY DEF Changer
  <2>2. /\ wfAt' \in [Changer -> WfPlaces] /\ wfTo' \in [Changer -> Modes \cup {"off"}]
        /\ wfRace' \in BOOLEAN /\ wfIgnore' \in BOOLEAN /\ wfHandlers' \in BOOLEAN
        /\ wfBits' \subseteq {"sta", "ap", "client", "shutdown"}
    BY <1>17, <2>1, BeginTyped DEF WatchChanges
  <2>3. /\ wfWatch' = "change"
        /\ UNCHANGED <<wfDriver, wfOn, wfLink, wfEvents, wfNetif, wfHandle, wfRetry, wfSeconds,
                       wfTaken, wfHad, wfAborted, wfMissed>>
    BY <1>17 DEF WatchChanges
  <2> QED BY <2>2, <2>3
<1>18. CASE Handle
  <2>1. wfEvents' \in Seq(WfEvents) /\ Head(wfEvents) \in WfEvents
    BY <1>18, Taken DEF Handle
  <2>2. /\ wfHandle' \in Retry \cup {NoRetry}
        /\ wfRetry' \in [Retry -> {"connect", "wait", "ending", "gone"}]
    BY <1>18, EnsureTyped DEF Handle
  <2>3. wfBits' \subseteq {"sta", "ap", "client", "shutdown"}
    BY <1>18, <2>1 DEF Handle, WfEvents
  <2>4. wfIgnore' \in BOOLEAN /\ wfWatch' \in {"loop", wfWatch}
    BY <1>18 DEF Handle
  <2>7. wfMissed' \in BOOLEAN
    <3>1. wfMissed' = wfMissed \/ wfMissed' = WatchEnding
      BY <1>18 DEF Handle
    <3>2. WatchEnding \in BOOLEAN
      BY DEF WatchEnding
    <3> QED BY <3>1, <3>2
  <2>5. wfRace' \in BOOLEAN
    <3>1. wfRace' = wfRace \/ wfRace' = (wfRace \/ (~wfIgnore /\ \E c \in Changer : Changing(c)))
      BY <1>18 DEF Handle
    <3>2. (wfRace \/ (~wfIgnore /\ \E c \in Changer : Changing(c))) \in BOOLEAN
      OBVIOUS
    <3> QED BY <3>1, <3>2
  <2>6. UNCHANGED <<wfDriver, wfOn, wfLink, wfHandlers, wfNetif, wfSeconds, wfAt, wfTo, wfTaken,
                    wfHad, wfAborted>>
    BY <1>18 DEF Handle
  <2> QED BY <2>1, <2>2, <2>3, <2>4, <2>5, <2>6, <2>7
<1>19. CASE Join \/ LoseLink \/ Client
  <2>1. wfLink' \in {"down", "up", wfLink}
    BY <1>19 DEF Join, LoseLink, Client
  <2>2. PICK e \in {"got_ip", "disconnected", "client", "client_left"} : Report(e)
    BY <1>19 DEF Join, LoseLink, Client
  <2>3. wfEvents' \in Seq(WfEvents)
    BY <2>2, Appended DEF Report, WfEvents
  <2>4. UNCHANGED <<wfDriver, wfOn, wfHandlers, wfBits, wfIgnore, wfNetif, wfHandle, wfRetry, wfWatch,
                    wfSeconds, wfAt, wfTo, wfTaken, wfHad, wfAborted, wfRace, wfMissed>>
    BY <2>2 DEF Report
  <2> QED BY <2>1, <2>3, <2>4
<1>20. CASE UNCHANGED wifiVars
  BY <1>20 DEF wifiVars
<1> QED
  BY <1>1, <1>2, <1>3, <1>4, <1>5, <1>6, <1>7, <1>8, <1>9, <1>10, <1>11, <1>12, <1>13, <1>14,
     <1>15, <1>16, <1>17, <1>18, <1>19, <1>20
  DEF WifiNext, ChangeStep, Restarts

(* Every step keeps the shape, which needs nothing to be free of races.      *)
LEMMA ShapeKept ==
  ASSUME WifiShape, [WifiNext]_wifiVars
  PROVE  WifiShape'
<1>1. WifiTypeOK'
  BY WifiTyped
<1> SUFFICES /\ \A c \in Changer : (wfAt'[c] = "mode" => wfTo'[c] # "off") /\ (wfAt'[c] = "deinit" => wfTo'[c] = "off")
             /\ wfAt'["timeout"] # "idle" => wfWatch' = "change"
             /\ wfTo'["timeout"] = "sta"
  BY <1>1 DEF WifiShape
<1> USE WfTypes DEF WifiShape, wfDrv, wfRetries, wfAp, wfChange, wfEnd, Go, Modes, Changer
<1>2. CASE Abort
  BY <1>2 DEF Abort
<1>3. ASSUME NEW c \in Changer, ChangeStep(c), ~Abort
      PROVE  /\ \A d \in Changer : (wfAt'[d] = "mode" => wfTo'[d] # "off") /\ (wfAt'[d] = "deinit" => wfTo'[d] = "off")
             /\ wfAt'["timeout"] # "idle" => wfWatch' = "change"
             /\ wfTo'["timeout"] = "sta"
  <2>1. wfWatch' = wfWatch
    BY <1>3 DEF ChangeStep, Detach, Delete, Stop, Clear, SetMode, StartDriver, Ensure, Deinit
  <2>2. wfAt[c] # "idle" /\ \A d \in Changer \ {c} : wfAt'[d] = wfAt[d]
    BY <1>3 DEF ChangeStep, Detach, Delete, Stop, Clear, SetMode, StartDriver, Ensure, Deinit
  <2>3. wfTo' = wfTo \/ wfTo' = [wfTo EXCEPT ![c] = "sta"]
    BY <1>3 DEF ChangeStep, Detach, Delete, Stop, Clear, SetMode, StartDriver, Ensure, Deinit
  <2>4. /\ wfAt'[c] = "mode" => wfTo' = wfTo /\ wfTo[c] # "off"
        /\ wfAt'[c] = "deinit" => wfTo' = wfTo /\ wfTo[c] = "off"
    BY <1>3 DEF ChangeStep, Detach, Delete, Stop, Clear, SetMode, StartDriver, Ensure, Deinit
  <2> QED BY <2>1, <2>2, <2>3, <2>4
<1>4. CASE Configure
  BY <1>4 DEF Configure, wifiVars
<1>5. CASE ChangeMode
  BY <1>5 DEF ChangeMode, Begin
<1>6. CASE WatchTick \/ WatchLeaves \/ WatchEnds
  BY <1>6 DEF WatchTick, WatchLeaves, WatchEnds, WatchEnding
<1>7. CASE WatchChanges
  BY <1>7 DEF WatchChanges, Begin
<1>8. CASE Handle
  BY <1>8 DEF Handle
<1>9. CASE Join \/ LoseLink \/ Client
  BY <1>9 DEF Join, LoseLink, Client, Report
<1>10. ASSUME NEW t \in Retry, RetryConnects(t) \/ RetryWaits(t) \/ RetryEnds(t), ~Abort
       PROVE  UNCHANGED <<wfAt, wfTo, wfWatch>>
  BY <1>10 DEF RetryConnects, RetryWaits, RetryEnds
<1>11. CASE UNCHANGED wifiVars
  BY <1>11 DEF wifiVars
<1> QED
  BY <1>2, <1>3, <1>4, <1>5, <1>6, <1>7, <1>8, <1>9, <1>10, <1>11 DEF WifiNext, Restarts

(* Without a race, a change that goes on is the only one.                    *)
LEMMA OnlyOne ==
  ASSUME WifiShape, NoRaceInv, NEW c \in Changer, NEW d \in Changer, c # d, Changing(c)
  PROVE  ~Changing(d) /\ wfAt[d] = "idle"
  BY DEF NoRaceInv, OneChange, Changing, Changer

(* Each step of a change, with the others at rest.                           *)
LEMMA DetachKeeps ==
  ASSUME WifiShape, NoRaceInv, NEW c \in Changer, Detach(c)
  PROVE  NoRaceInv'
<1> USE WfTypes DEF WifiShape, Go, wfDrv, wfEnd, wfChange, wfAp, wfRetries
<1>1. Changing(c) /\ \A d \in Changer \ {c} : wfAt[d] = "idle" /\ ~Changing(d)
  BY OnlyOne DEF Detach, Changing
<1>2. /\ wfDriver # "none" /\ wfAt[c] = "detach"
      /\ wfHad' = [wfHad EXCEPT ![c] = wfNetif # {}]
      /\ \/ wfNetif = {} /\ wfAt' = [wfAt EXCEPT ![c] = "stop"]
            /\ UNCHANGED <<wfTaken, wfHandle, wfRetry, wfSeconds>>
         \/ wfNetif # {} /\ wfAt' = [wfAt EXCEPT ![c] = "delete"]
            /\ wfTaken' = [wfTaken EXCEPT ![c] = wfHandle] /\ wfHandle' = NoRetry /\ wfRetry' = wfRetry
      /\ UNCHANGED <<wfDrv, wfEvents, wfHandlers, wfBits, wfIgnore, wfNetif, wfWatch, wfTo, wfEnd>>
  BY DEF Detach, NoRaceInv, StageOf
<1>3. OneChange'
  BY <1>1, <1>2 DEF NoRaceInv, OneChange, Changing, Changer
<1>4. DriverInv'
  BY <1>1, <1>2 DEF NoRaceInv, DriverInv, AtRest
<1>5. WatchInv'
  BY <1>1, <1>2 DEF NoRaceInv, WatchInv, WatchEnding, Changer
<1>6. \A d \in Changer : StageOf(d)'
  <2>1. StageOf(c)'
    BY <1>2 DEF NoRaceInv, StageOf, NoTasks, TaskOf, IsStation
  <2>2. \A d \in Changer \ {c} : StageOf(d)'
    BY <1>1, <1>2 DEF NoRaceInv, StageOf
  <2> QED BY <2>1, <2>2
<1>7. \A t \in Retry : wfRetry'[t] # "gone" => TaskOf(t)'
  BY <1>1, <1>2 DEF NoRaceInv, TaskOf, IsStation
<1> QED BY <1>2, <1>3, <1>4, <1>5, <1>6, <1>7 DEF NoRaceInv

(* The steps of a mode change, each of which finds what StageOf says: the    *)
(* reconnect task is deleted,                                                *)
LEMMA DeleteKeeps ==
  ASSUME WifiShape, NoRaceInv, NEW c \in Changer, Delete(c)
  PROVE  NoRaceInv'
<1> USE WfTypes DEF WifiShape, Go, wfDrv, wfEnd, wfChange, wfAp, wfRetries
<1>1. Changing(c) /\ \A d \in Changer \ {c} : wfAt[d] = "idle" /\ ~Changing(d)
  BY OnlyOne DEF Delete, Changing
<1>2. /\ wfAt[c] = "delete" /\ wfAt' = [wfAt EXCEPT ![c] = "stop"] /\ wfHandle = NoRetry
      /\ wfRetry' = [t \in Retry |-> IF t = wfTaken[c] THEN "gone" ELSE wfRetry[t]]
      /\ UNCHANGED <<wfDrv, wfEvents, wfHandlers, wfBits, wfIgnore, wfNetif, wfHandle, wfAp, wfTo,
                     wfHad, wfEnd>>
  BY DEF Delete, NoRaceInv, StageOf
<1>8. NoTasks'
  <2>1. \A t \in Retry : wfRetry[t] # "gone" => t = wfTaken[c]
    <3>1. NoRetry \notin Retry
      BY DEF NoRetry, Retry
    <3> QED BY <1>1, <1>2, <3>1 DEF NoRaceInv, TaskOf
  <2> QED BY <1>2, <2>1 DEF NoTasks
<1>3. OneChange'
  BY <1>1, <1>2 DEF NoRaceInv, OneChange, Changing, Changer
<1>4. DriverInv'
  BY <1>1, <1>2 DEF NoRaceInv, DriverInv, AtRest
<1>5. WatchInv'
  BY <1>1, <1>2 DEF NoRaceInv, WatchInv, WatchEnding, Changer
<1>6. \A d \in Changer : StageOf(d)'
  <2>1. StageOf(c)'
    BY <1>2, <1>8 DEF NoRaceInv, StageOf
  <2>2. \A d \in Changer \ {c} : StageOf(d)'
    BY <1>1, <1>2 DEF NoRaceInv, StageOf
  <2> QED BY <2>1, <2>2
<1>7. \A t \in Retry : wfRetry'[t] # "gone" => TaskOf(t)'
  BY <1>8 DEF NoTasks
<1> QED BY <1>2, <1>3, <1>4, <1>5, <1>6, <1>7 DEF NoRaceInv

(* the driver stopped,                                                       *)
LEMMA StopKeeps ==
  ASSUME WifiShape, NoRaceInv, NEW c \in Changer, Stop(c)
  PROVE  NoRaceInv'
<1> USE WfTypes DEF WifiShape, Go, wfDrv, wfEnd, wfChange, wfAp, wfRetries
<1>1. Changing(c) /\ \A d \in Changer \ {c} : wfAt[d] = "idle" /\ ~Changing(d)
  BY OnlyOne DEF Stop, Changing
<1>2. /\ wfAt[c] = "stop" /\ wfAt' = [wfAt EXCEPT ![c] = "clear"] /\ wfDriver # "none"
      /\ NoTasks /\ ~wfOn'
      /\ \/ wfEvents' = wfEvents
         \/ wfDriver = "sta" /\ wfEvents' = Append(wfEvents, "disconnected")
         \/ wfDriver = "ap" /\ wfEvents' = Append(wfEvents, "ap_stop")
      /\ UNCHANGED <<wfDriver, wfHandlers, wfBits, wfIgnore, wfNetif, wfRetries, wfAp, wfTo,
                     wfTaken, wfHad, wfEnd>>
  BY DEF Stop, NoRaceInv, StageOf
<1>3. OneChange'
  BY <1>1, <1>2 DEF NoRaceInv, OneChange, Changing, Changer
<1>4. DriverInv'
  <2>1. \A e \in {"disconnected", "ap_start"} :
          Waits(wfEvents', e) => Waits(wfEvents, e) \/ (e = "disconnected" /\ wfDriver = "sta")
    <3>1. {"disconnected", "ap_start", "ap_stop"} \subseteq WfEvents
      BY DEF WfEvents
    <3>2. \A f : \A e \in WfEvents : Waits(Append(wfEvents, e), f) => Waits(wfEvents, f) \/ f = e
      BY Appended
    <3>3. CASE wfEvents' = wfEvents
      BY <3>3, <3>1, <3>2
    <3>4. CASE wfDriver = "sta" /\ wfEvents' = Append(wfEvents, "disconnected")
      BY <3>4, <3>1, <3>2
    <3>5. CASE wfEvents' = Append(wfEvents, "ap_stop")
      BY <3>5, <3>1, <3>2
    <3> QED BY <1>2, <3>3, <3>4, <3>5
  <2> QED BY <1>1, <1>2, <2>1 DEF NoRaceInv, DriverInv, AtRest
<1>5. WatchInv'
  BY <1>1, <1>2 DEF NoRaceInv, WatchInv, WatchEnding, Changer
<1>6. \A d \in Changer : StageOf(d)'
  <2>1. StageOf(c)'
    BY <1>2 DEF NoRaceInv, StageOf, NoTasks, IsStation
  <2>2. \A d \in Changer \ {c} : StageOf(d)'
    BY <1>1, <1>2 DEF NoRaceInv, StageOf
  <2> QED BY <2>1, <2>2
<1>7. \A t \in Retry : wfRetry'[t] # "gone" => TaskOf(t)'
  BY <1>2 DEF NoTasks
<1> QED BY <1>2, <1>3, <1>4, <1>5, <1>6, <1>7 DEF NoRaceInv

(* its interfaces destroyed,                                                 *)
LEMMA ClearKeeps ==
  ASSUME WifiShape, NoRaceInv, NEW c \in Changer, Clear(c)
  PROVE  NoRaceInv'
<1> USE WfTypes DEF WifiShape, Go, wfDrv, wfEnd, wfChange, wfAp, wfRetries
<1>1. Changing(c) /\ \A d \in Changer \ {c} : wfAt[d] = "idle" /\ ~Changing(d)
  BY OnlyOne DEF Clear, Changing
<1>2. /\ wfAt[c] = "clear" /\ wfEvents = <<>> /\ wfNetif' = {} /\ wfDriver # "none"
      /\ NoTasks /\ ~wfOn
      /\ wfAt' = [wfAt EXCEPT ![c] = IF wfTo[c] = "off" THEN "deinit" ELSE "mode"]
      /\ wfBits' = IF wfHad[c] THEN {} ELSE wfBits
      /\ wfHad[c] <=> wfNetif # {}
      /\ UNCHANGED <<wfDrv, wfEvents, wfHandlers, wfIgnore, wfRetries, wfAp, wfTo, wfTaken, wfEnd>>
  BY DEF Clear, NoRaceInv, StageOf
<1>8. "ap" \notin wfBits' /\ \A e : ~Waits(wfEvents', e)
  BY <1>2 DEF NoRaceInv, DriverInv, Waits
<1>3. OneChange'
  BY <1>1, <1>2 DEF NoRaceInv, OneChange, Changing, Changer
<1>4. DriverInv'
  BY <1>1, <1>2, <1>8 DEF NoRaceInv, DriverInv, AtRest
<1>5. WatchInv'
  BY <1>1, <1>2, <1>8 DEF NoRaceInv, WatchInv, WatchEnding, Changer
<1>6. \A d \in Changer : StageOf(d)'
  <2>1. StageOf(c)'
    BY <1>2, <1>8 DEF NoRaceInv, StageOf, NoTasks, IsStation
  <2>2. \A d \in Changer \ {c} : StageOf(d)'
    BY <1>1, <1>2 DEF NoRaceInv, StageOf
  <2> QED BY <2>1, <2>2
<1>7. \A t \in Retry : wfRetry'[t] # "gone" => TaskOf(t)'
  BY <1>2 DEF NoTasks
<1> QED BY <1>2, <1>3, <1>4, <1>5, <1>6, <1>7 DEF NoRaceInv

(* the mode set,                                                             *)
LEMMA SetModeKeeps ==
  ASSUME WifiShape, NoRaceInv, NEW c \in Changer, SetMode(c)
  PROVE  NoRaceInv'
<1> USE WfTypes DEF WifiShape, Go, wfDrv, wfEnd, wfChange, wfAp, wfRetries
<1>1. Changing(c) /\ \A d \in Changer \ {c} : wfAt[d] = "idle" /\ ~Changing(d)
  BY OnlyOne DEF SetMode, Changing
<1>2. /\ wfAt[c] = "mode" /\ wfEvents = <<>> /\ "ap" \notin wfBits /\ NoTasks /\ ~wfOn
      /\ wfAt' = [wfAt EXCEPT ![c] = "start"]
      /\ wfNetif' = wfNetif \cup {wfTo[c]} /\ wfDriver' = wfTo[c]
      /\ UNCHANGED <<wfOn, wfEvents, wfHandlers, wfBits, wfIgnore, wfRetries, wfAp, wfTo,
                     wfTaken, wfHad, wfEnd>>
  BY DEF SetMode, NoRaceInv, StageOf
<1>8. wfTo[c] \in Modes /\ \A e : ~Waits(wfEvents', e)
  <2>1. wfTo[c] \in Modes
    BY <1>2
  <2> QED BY <1>2, <2>1 DEF Waits
<1>3. OneChange'
  BY <1>1, <1>2 DEF NoRaceInv, OneChange, Changing, Changer
<1>4. DriverInv'
  BY <1>1, <1>2, <1>8 DEF NoRaceInv, DriverInv, AtRest
<1>5. WatchInv'
  BY <1>1, <1>2, <1>8 DEF NoRaceInv, WatchInv, WatchEnding, Changer, Modes, Changing
<1>6. \A d \in Changer : StageOf(d)'
  <2>1. StageOf(c)'
    BY <1>2, <1>8 DEF NoRaceInv, StageOf, NoTasks, IsStation, Modes
  <2>2. \A d \in Changer \ {c} : StageOf(d)'
    BY <1>1, <1>2 DEF NoRaceInv, StageOf
  <2> QED BY <2>1, <2>2
<1>7. \A t \in Retry : wfRetry'[t] # "gone" => TaskOf(t)'
  BY <1>2 DEF NoTasks
<1> QED BY <1>2, <1>3, <1>4, <1>5, <1>6, <1>7 DEF NoRaceInv

(* the driver started,                                                       *)
LEMMA StartDriverKeeps ==
  ASSUME WifiShape, NoRaceInv, NEW c \in Changer, StartDriver(c)
  PROVE  NoRaceInv'
<1> USE WfTypes DEF WifiShape, Go, wfDrv, wfEnd, wfChange, wfAp, wfRetries
<1>1. Changing(c) /\ \A d \in Changer \ {c} : wfAt[d] = "idle" /\ ~Changing(d)
  BY OnlyOne DEF StartDriver, Changing
<1>2. /\ wfAt[c] = "start" /\ NoTasks /\ wfNetif # {} /\ wfDriver = wfTo[c]
      /\ wfOn' = TRUE /\ wfTo' = [wfTo EXCEPT ![c] = "sta"]
      /\ wfAt' = [wfAt EXCEPT ![c] = IF wfDriver = "sta" THEN "ensure" ELSE "idle"]
      /\ \/ wfDriver # "ap" /\ wfEvents' = wfEvents
         \/ wfDriver = "ap" /\ wfEvents' = Append(wfEvents, "ap_start")
      /\ UNCHANGED <<wfDriver, wfLink, wfHandlers, wfBits, wfIgnore, wfNetif, wfRetries, wfAp,
                     wfTaken, wfHad, wfEnd>>
  BY DEF StartDriver, NoRaceInv, StageOf
<1>3. OneChange'
  BY <1>1, <1>2 DEF NoRaceInv, OneChange, Changing, Changer
<1>4. DriverInv'
  <2>1. \A e \in {"disconnected", "ap_start"} :
          Waits(wfEvents', e) => Waits(wfEvents, e) \/ (e = "ap_start" /\ wfDriver = "ap")
    <3>1. {"disconnected", "ap_start", "ap_stop"} \subseteq WfEvents
      BY DEF WfEvents
    <3>2. \A f : \A e \in WfEvents : Waits(Append(wfEvents, e), f) => Waits(wfEvents, f) \/ f = e
      BY Appended
    <3>3. CASE wfEvents' = wfEvents
      BY <3>3, <3>1, <3>2
    <3>4. CASE wfDriver = "ap" /\ wfEvents' = Append(wfEvents, "ap_start")
      BY <3>4, <3>1, <3>2
    <3> QED BY <1>2, <3>3, <3>4
  <2> QED BY <1>1, <1>2, <2>1 DEF NoRaceInv, DriverInv, AtRest
<1>5. WatchInv'
  BY <1>1, <1>2 DEF NoRaceInv, WatchInv, WatchEnding, Changer
<1>6. \A d \in Changer : StageOf(d)'
  <2>1. StageOf(c)'
    BY <1>2 DEF NoRaceInv, StageOf, NoTasks, IsStation
  <2>2. \A d \in Changer \ {c} : StageOf(d)'
    BY <1>1, <1>2 DEF NoRaceInv, StageOf
  <2> QED BY <2>1, <2>2
<1>7. \A t \in Retry : wfRetry'[t] # "gone" => TaskOf(t)'
  BY <1>2 DEF NoTasks
<1> QED BY <1>2, <1>3, <1>4, <1>5, <1>6, <1>7 DEF NoRaceInv

(* a reconnect task created;                                                 *)
LEMMA EnsureKeeps ==
  ASSUME WifiShape, NoRaceInv, NEW c \in Changer, Ensure(c)
  PROVE  NoRaceInv'
<1> USE WfTypes DEF WifiShape, Go, wfDrv, wfEnd, wfChange, wfAp, wfRetries
<1>1. Changing(c) /\ \A d \in Changer \ {c} : wfAt[d] = "idle" /\ ~Changing(d)
  BY OnlyOne DEF Ensure, Changing
<1>2. /\ wfAt[c] = "ensure" /\ wfAt' = [wfAt EXCEPT ![c] = "idle"] /\ IsStation
      /\ EnsureRunning
      /\ UNCHANGED <<wfDrv, wfEvents, wfHandlers, wfBits, wfIgnore, wfNetif, wfAp, wfTo, wfTaken,
                     wfHad, wfEnd>>
  BY DEF Ensure, NoRaceInv, StageOf
<1>3. OneChange'
  BY <1>1, <1>2 DEF NoRaceInv, OneChange, Changing, Changer
<1>4. DriverInv'
  BY <1>1, <1>2 DEF NoRaceInv, DriverInv, AtRest, IsStation
<1>5. WatchInv'
  <2>1. "ap" \notin wfBits /\ wfBits' = wfBits
    BY <1>2 DEF NoRaceInv, DriverInv, IsStation
  <2> QED BY <1>1, <1>2, <2>1 DEF NoRaceInv, WatchInv, WatchEnding, IsStation
<1>6. \A d \in Changer : StageOf(d)'
  <2>1. StageOf(c)'
    BY <1>2 DEF NoRaceInv, StageOf
  <2>2. \A d \in Changer \ {c} : StageOf(d)'
    BY <1>1, <1>2 DEF NoRaceInv, StageOf
  <2> QED BY <2>1, <2>2
<1>7. \A t \in Retry : wfRetry'[t] # "gone" => TaskOf(t)'
  <2>1. NoTasks /\ wfNetif # {}
    BY <1>2 DEF NoRaceInv, StageOf, DriverInv, IsStation
  <2>2. \A t \in Retry : wfRetry'[t] # "gone" => t = wfHandle'
    BY <1>2, <2>1 DEF EnsureRunning, NoTasks
  <2> QED BY <1>2, <2>1, <2>2 DEF TaskOf, IsStation
<1> QED BY <1>2, <1>3, <1>4, <1>5, <1>6, <1>7 DEF NoRaceInv

(* or the driver is taken down.                                              *)
LEMMA DeinitKeeps ==
  ASSUME WifiShape, NoRaceInv, NEW c \in Changer, Deinit(c)
  PROVE  NoRaceInv'
<1> USE WfTypes DEF WifiShape, Go, wfDrv, wfEnd, wfChange, wfAp, wfRetries
<1>1. Changing(c) /\ \A d \in Changer \ {c} : wfAt[d] = "idle" /\ ~Changing(d)
  BY OnlyOne DEF Deinit, Changing
<1>2. /\ wfAt[c] = "deinit" /\ wfEvents = <<>> /\ "ap" \notin wfBits /\ NoTasks
      /\ wfAt' = [wfAt EXCEPT ![c] = "idle"] /\ wfDriver' = "none" /\ ~wfOn'
      /\ UNCHANGED <<wfEvents, wfHandlers, wfBits, wfIgnore, wfNetif, wfRetries, wfAp, wfTaken,
                     wfHad, wfEnd>>
  BY DEF Deinit, NoRaceInv, StageOf
<1>8. c # "timeout" /\ \A e : ~Waits(wfEvents', e)
  <2>1. c # "timeout"
    BY <1>2
  <2> QED BY <1>2, <2>1 DEF Waits
<1>3. OneChange'
  BY <1>1, <1>2 DEF NoRaceInv, OneChange, Changing, Changer
<1>4. DriverInv'
  BY <1>1, <1>2, <1>8 DEF NoRaceInv, DriverInv, AtRest
<1>5. WatchInv'
  BY <1>1, <1>2, <1>8 DEF NoRaceInv, WatchInv, WatchEnding, Changer, Changing
<1>6. \A d \in Changer : StageOf(d)'
  <2>1. StageOf(c)'
    BY <1>2 DEF NoRaceInv, StageOf, NoTasks, IsStation
  <2>2. \A d \in Changer \ {c} : StageOf(d)'
    BY <1>1, <1>2 DEF NoRaceInv, StageOf
  <2> QED BY <2>1, <2>2
<1>7. \A t \in Retry : wfRetry'[t] # "gone" => TaskOf(t)'
  BY <1>2 DEF NoTasks
<1> QED BY <1>2, <1>3, <1>4, <1>5, <1>6, <1>7 DEF NoRaceInv

(* The supervisor's task begins a change: none goes on, unless it is a race. *)
LEMMA SupervisorKeeps ==
  ASSUME WifiShape, NoRaceInv, Configure \/ ChangeMode, ~wfRace'
  PROVE  NoRaceInv'
<1> USE WfTypes DEF WifiShape, Go, wfDrv, wfEnd, wfChange, wfAp, wfRetries
<1>1. CASE UNCHANGED wifiVars
  BY <1>1 DEF wifiVars, NoRaceInv, OneChange, Changing, DriverInv, AtRest, WatchInv, WatchEnding, StageOf,
              TaskOf, NoTasks, IsStation, Waits
<1>2. CASE ~UNCHANGED wifiVars
  <2> DEFINE c == "supervisor"
  <2>1. /\ ~Changing("timeout") /\ wfAt[c] = "idle" /\ wfAt["timeout"] = "idle"
        /\ wfAt' = [wfAt EXCEPT ![c] = "detach"]
        /\ wfDriver' # "none"
        /\ wfDriver' = wfDriver \/ (wfDriver = "none" /\ wfDriver' = "sta")
        /\ wfBits' \in {wfBits, wfBits \ {"shutdown"}, wfBits \cup {"shutdown"}}
        /\ UNCHANGED <<wfOn, wfEvents, wfNetif, wfRetries, wfAp, wfTaken, wfHad, wfAborted, wfMissed>>
    <3>1. c \in Changer /\ Changer \ {c} = {"timeout"}
      BY DEF Changer
    <3>2. CASE Configure
      BY <1>2, <3>1, <3>2 DEF Configure, Changing
    <3>3. CASE ChangeMode
      <4>1. PICK to \in Modes \cup {"off"} : Begin(c, to)
        BY <3>3 DEF ChangeMode
      <4>2. wfBits' \in {wfBits, wfBits \cup {"shutdown"}}
        BY <4>1 DEF Begin, Modes
      <4>3. ~Changing("timeout")
        BY <3>1, <4>1 DEF Begin
      <4> QED BY <3>3, <4>1, <4>2, <4>3 DEF ChangeMode, Begin, Changing
    <3> QED BY <3>2, <3>3
  <2>2. OneChange'
    BY <2>1 DEF OneChange, Changing, Changer
  <2>3. DriverInv'
    BY <2>1 DEF NoRaceInv, DriverInv, AtRest, Changer
  <2>4. WatchInv'
    <3>1. "ap" \in wfBits' <=> "ap" \in wfBits
      BY <2>1
    <3>2. WatchEnding' => WatchEnding
      BY <2>1 DEF WatchEnding
    <3> QED BY <2>1, <3>1, <3>2 DEF NoRaceInv, WatchInv, Changing
  <2>5. \A d \in Changer : StageOf(d)'
    BY <2>1 DEF NoRaceInv, StageOf, Changer
  <2>6. \A t \in Retry : wfRetry'[t] # "gone" => TaskOf(t)'
    BY <2>1 DEF NoRaceInv, TaskOf, IsStation, Changer
  <2> QED BY <2>1, <2>2, <2>3, <2>4, <2>5, <2>6 DEF NoRaceInv
<1> QED BY <1>1, <1>2

(* The timeout task watches, and then changes the mode itself.               *)
LEMMA WatchKeeps ==
  ASSUME WifiShape, NoRaceInv, WatchTick \/ WatchLeaves \/ WatchEnds, ~wfRace'
  PROVE  NoRaceInv'
<1> USE WfTypes DEF WifiShape, wfDrv, wfEnd, wfChange, wfAp, wfRetries
<1>1. /\ UNCHANGED <<wfDrv, wfEvents, wfHandlers, wfBits, wfIgnore, wfNetif, wfRetries, wfChange,
                     wfAborted, wfMissed>>
      /\ wfWatch' = wfWatch \/ wfWatch' \in {"none", "leave", "callback", "ending"}
      /\ wfWatch' = "callback" /\ wfWatch # "callback" =>
           ~Changing("supervisor") /\ "ap" \in wfBits
      /\ wfWatch' \in {"none", "ending"} => "ap" \notin wfBits \/ wfMissed
      /\ wfWatch # "change" => wfAt["timeout"] = "idle"
      /\ wfWatch' = "change" => wfWatch = "change"
  <2>1. CASE WatchTick
    BY <2>1 DEF WatchTick, NoRaceInv, WatchInv, WatchEnding
  <2>2. CASE WatchLeaves
    BY <2>2 DEF WatchLeaves, NoRaceInv, DriverInv
  <2>3. CASE WatchEnds
    BY <2>3 DEF WatchEnds, NoRaceInv, DriverInv, WatchInv, WatchEnding
  <2> QED BY <2>1, <2>2, <2>3
<1>2. OneChange'
  BY <1>1 DEF NoRaceInv, OneChange, Changing
<1>3. DriverInv'
  BY <1>1 DEF NoRaceInv, DriverInv, AtRest
<1>4. WatchInv'
  BY <1>1 DEF NoRaceInv, WatchInv, WatchEnding, DriverInv
<1>5. \A d \in Changer : StageOf(d)'
  BY <1>1 DEF NoRaceInv, StageOf, NoTasks, IsStation
<1>6. \A t \in Retry : wfRetry'[t] # "gone" => TaskOf(t)'
  BY <1>1 DEF NoRaceInv, TaskOf, IsStation
<1> QED BY <1>1, <1>2, <1>3, <1>4, <1>5, <1>6 DEF NoRaceInv

(* The steps of the AP-timeout task.                                         *)
LEMMA TimeoutKeeps ==
  ASSUME WifiShape, NoRaceInv, WatchChanges
  PROVE  NoRaceInv'
<1> USE WfTypes DEF WifiShape, Go, wfDrv, wfEnd, wfChange, wfAp, wfRetries
<1> DEFINE c == "timeout"
<1>1. /\ wfWatch = "callback" /\ wfAt["supervisor"] = "idle" /\ wfDriver # "none"
      /\ wfAt' = [wfAt EXCEPT ![c] = "detach"] /\ wfWatch' = "change"
      /\ UNCHANGED <<wfDrv, wfEvents, wfHandlers, wfBits, wfNetif, wfRetries, wfSeconds, wfTaken,
                     wfHad, wfAborted>>
  BY DEF WatchChanges, Begin, NoRaceInv, OneChange, WatchInv, WatchEnding, Changing
<1>2. OneChange'
  BY <1>1 DEF OneChange, Changing, Changer
<1>3. DriverInv'
  BY <1>1 DEF NoRaceInv, DriverInv, AtRest, Changer
<1>4. WatchInv'
  BY <1>1 DEF NoRaceInv, WatchInv, WatchEnding, Changer
<1>5. \A d \in Changer : StageOf(d)'
  BY <1>1 DEF NoRaceInv, StageOf, Changer
<1>6. \A t \in Retry : wfRetry'[t] # "gone" => TaskOf(t)'
  <2>1. wfAt[c] # "delete"
    BY <1>1
  <2> QED BY <1>1, <2>1 DEF NoRaceInv, TaskOf, IsStation, Changer
<1> QED BY <1>1, <1>2, <1>3, <1>4, <1>5, <1>6 DEF NoRaceInv

(* A reconnect task has a station, and no change destroys what it needs.     *)
LEMMA RetryKeeps ==
  ASSUME WifiShape, NoRaceInv, NEW t \in Retry, RetryConnects(t) \/ RetryWaits(t) \/ RetryEnds(t)
  PROVE  NoRaceInv'
<1> USE WfTypes DEF WifiShape, wfDrv, wfEnd, wfChange, wfAp, wfRetries
<1>1. TaskOf(t)
  BY DEF NoRaceInv, RetryConnects, RetryWaits, RetryEnds
<1>2. /\ UNCHANGED <<wfDriver, wfOn, wfBits, wfNetif, wfAp, wfChange, wfAborted, wfMissed>>
      /\ wfEvents' = wfEvents \/ wfEvents' = Append(wfEvents, "disconnected")
  BY <1>1 DEF RetryConnects, RetryWaits, RetryEnds, TaskOf
<1>3. /\ wfHandle' = wfHandle \/ (wfHandle' = NoRetry /\ wfRetry'[t] = "gone")
      /\ \A u \in Retry \ {t} : wfRetry'[u] = wfRetry[u]
  BY <1>1 DEF RetryConnects, RetryWaits, RetryEnds, TaskOf
<1>4. wfRetry[t] # "gone"
  BY DEF RetryConnects, RetryWaits, RetryEnds
<1>5. OneChange'
  BY <1>2 DEF NoRaceInv, OneChange, Changing
<1>6. DriverInv'
  <2>1. \A f : Waits(wfEvents', f) => Waits(wfEvents, f) \/ (f = "disconnected" /\ wfDriver = "sta")
    <3>1. "disconnected" \in WfEvents /\ wfDriver = "sta"
      BY <1>1 DEF WfEvents, TaskOf, IsStation
    <3>2. \A f : Waits(Append(wfEvents, "disconnected"), f) => Waits(wfEvents, f) \/ f = "disconnected"
      BY <3>1, Appended
    <3> QED BY <1>2, <3>1, <3>2
  <2> QED BY <1>2, <2>1 DEF NoRaceInv, DriverInv, AtRest
<1>7. WatchInv'
  BY <1>2 DEF NoRaceInv, WatchInv, WatchEnding
<1>8. \A d \in Changer : StageOf(d)'
  BY <1>1, <1>2, <1>3, <1>4 DEF NoRaceInv, StageOf, NoTasks, TaskOf, IsStation
<1>9. \A u \in Retry : wfRetry'[u] # "gone" => TaskOf(u)'
  <2>1. NoRetry \notin Retry
    BY DEF NoRetry, Retry
  <2>2. wfRetry'[t] # "gone" => TaskOf(t)'
    BY <1>1, <1>2, <1>3 DEF TaskOf, IsStation
  <2>3. ASSUME NEW u \in Retry \ {t}, wfRetry[u] # "gone" PROVE TaskOf(u)'
    <3>1. TaskOf(u)
      BY <2>3 DEF NoRaceInv
    <3>2. CASE \E c \in Changer : wfAt[c] = "delete" /\ wfTaken[c] = u
      BY <1>2, <3>1, <3>2 DEF TaskOf, IsStation
    <3>3. CASE u = wfHandle
      <4>1. t # wfHandle /\ \A c \in Changer : wfAt[c] # "delete"
        BY <2>1, <3>3 DEF NoRaceInv, StageOf
      <4> QED BY <1>1, <4>1 DEF TaskOf
    <3> QED BY <3>1, <3>2, <3>3 DEF TaskOf
  <2> QED BY <1>3, <2>2, <2>3
<1> QED BY <1>2, <1>5, <1>6, <1>7, <1>8, <1>9 DEF NoRaceInv

(* The handler creates a reconnect task only at rest, or it is a race.       *)
LEMMA HandleKeeps ==
  ASSUME WifiShape, NoRaceInv, Handle, ~wfRace'
  PROVE  NoRaceInv'
<1> USE WfTypes DEF WifiShape, wfDrv, wfEnd, wfChange, wfAp, wfRetries
<1>1. /\ Waits(wfEvents, Head(wfEvents)) /\ \A f : Waits(wfEvents', f) => Waits(wfEvents, f)
      /\ wfEvents # <<>> /\ Head(wfEvents) \in WfEvents
  BY Taken DEF Handle
<1>2. UNCHANGED <<wfDrv, wfHandlers, wfNetif, wfSeconds, wfChange, wfAborted>>
  BY DEF Handle
<1>3. /\ wfWatch' = wfWatch \/ (wfWatch = "none" /\ wfWatch' = "loop")
      /\ \/ wfMissed' = wfMissed /\ ("ap" \in wfBits' => "ap" \in wfBits) /\ wfWatch' = wfWatch
         \/ Head(wfEvents) = "ap_start" /\ wfWatch' # "none" /\ wfMissed' = WatchEnding
  <2>1. CASE ~wfHandlers \/ Head(wfEvents) = "disconnected"
    BY <2>1 DEF Handle
  <2>2. CASE wfHandlers /\ Head(wfEvents) = "ap_start"
    BY <2>2 DEF Handle
  <2>3. CASE wfHandlers /\ Head(wfEvents) \notin {"disconnected", "ap_start"}
    BY <1>1, <2>3 DEF Handle, WfEvents
  <2> QED BY <2>1, <2>2, <2>3
<1>4. \/ UNCHANGED wfRetries
      \/ EnsureRunning /\ Head(wfEvents) = "disconnected" /\ \A c \in Changer : ~Changing(c)
  BY DEF Handle
<1>5. OneChange'
  BY <1>2, <1>3 DEF NoRaceInv, OneChange, Changing
<1>6. DriverInv'
  BY <1>1, <1>2, <1>3 DEF NoRaceInv, DriverInv, AtRest
<1>7. WatchInv'
  <2>1. WatchEnding' <=> WatchEnding
    BY <1>2, <1>3 DEF WatchEnding
  <2> QED BY <1>2, <1>3, <2>1 DEF NoRaceInv, WatchInv
<1>8. CASE UNCHANGED wfRetries
  <2>1. \A d \in Changer : StageOf(d)'
    BY <1>1, <1>2, <1>8 DEF NoRaceInv, StageOf, NoTasks, IsStation, Waits
  <2>2. \A u \in Retry : wfRetry'[u] # "gone" => TaskOf(u)'
    BY <1>2, <1>8 DEF NoRaceInv, TaskOf, IsStation
  <2> QED BY <1>2, <1>5, <1>6, <1>7, <2>1, <2>2 DEF NoRaceInv
<1>9. CASE EnsureRunning /\ Head(wfEvents) = "disconnected" /\ \A c \in Changer : ~Changing(c)
  <2>1. \A c \in Changer : wfAt[c] = "idle"
    BY <1>9 DEF Changing
  <2>2. IsStation /\ wfNetif # {}
    BY <1>1, <1>9, <2>1 DEF NoRaceInv, DriverInv, AtRest, IsStation
  <2>3. \A d \in Changer : StageOf(d)'
    BY <1>2, <2>1 DEF StageOf
  <2>4. \A u \in Retry : wfRetry'[u] # "gone" => u = wfHandle'
    <3>1. NoRetry \notin Retry
      BY DEF NoRetry, Retry
    <3>2. \A u \in Retry : wfRetry[u] # "gone" => u = wfHandle
      BY <2>1 DEF NoRaceInv, TaskOf
    <3> QED BY <1>9, <3>1, <3>2 DEF EnsureRunning
  <2>5. \A u \in Retry : wfRetry'[u] # "gone" => TaskOf(u)'
    BY <1>2, <2>2, <2>4 DEF TaskOf, IsStation
  <2> QED BY <1>2, <1>5, <1>6, <1>7, <2>3, <2>5 DEF NoRaceInv
<1> QED BY <1>4, <1>8, <1>9

(* What the driver reports.                                                  *)
LEMMA ReportKeeps ==
  ASSUME WifiShape, NoRaceInv, Join \/ LoseLink \/ Client
  PROVE  NoRaceInv'
<1> USE WfTypes DEF WifiShape, wfDrv, wfEnd, wfChange, wfAp, wfRetries
<1>1. /\ UNCHANGED <<wfDriver, wfOn, wfHandlers, wfBits, wfIgnore, wfNetif, wfRetries, wfAp,
                     wfChange, wfEnd>>
      /\ wfOn
      /\ \/ wfDriver = "sta" /\ wfEvents' = Append(wfEvents, "disconnected")
         \/ \E e \in WfEvents \ {"ap_start", "disconnected"} : wfEvents' = Append(wfEvents, e)
  BY DEF Join, LoseLink, Client, Report, IsStation, WfEvents
<1>2. OneChange'
  BY <1>1 DEF NoRaceInv, OneChange, Changing
<1>3. DriverInv'
  <2>1. \A f \in {"ap_start", "disconnected"} :
          Waits(wfEvents', f) => Waits(wfEvents, f) \/ (f = "disconnected" /\ wfDriver = "sta")
    <3>1. \A f : \A e \in WfEvents : Waits(Append(wfEvents, e), f) => Waits(wfEvents, f) \/ f = e
      BY Appended
    <3>2. "disconnected" \in WfEvents
      BY DEF WfEvents
    <3>3. CASE wfDriver = "sta" /\ wfEvents' = Append(wfEvents, "disconnected")
      BY <3>1, <3>2, <3>3
    <3>4. CASE \E e \in WfEvents \ {"ap_start", "disconnected"} : wfEvents' = Append(wfEvents, e)
      BY <3>1, <3>4
    <3> QED BY <1>1, <3>3, <3>4
  <2> QED BY <1>1, <2>1 DEF NoRaceInv, DriverInv, AtRest
<1>4. WatchInv'
  BY <1>1 DEF NoRaceInv, WatchInv, WatchEnding
<1>5. \A d \in Changer : StageOf(d)'
  BY <1>1 DEF NoRaceInv, StageOf, NoTasks, IsStation
<1>6. \A t \in Retry : wfRetry'[t] # "gone" => TaskOf(t)'
  BY <1>1 DEF NoRaceInv, TaskOf, IsStation
<1> QED BY <1>1, <1>2, <1>3, <1>4, <1>5, <1>6 DEF NoRaceInv

(* What was a race stays one.                                                *)
LEMMA RaceStays ==
  ASSUME WifiShape, WifiNext, wfRace
  PROVE  wfRace'
<1> USE DEF wfEnd
<1>1. CASE Abort
  BY <1>1 DEF Abort
<1>2. ASSUME NEW t \in Retry, RetryConnects(t) \/ RetryWaits(t) \/ RetryEnds(t), ~Abort
      PROVE  wfRace'
  BY <1>2 DEF RetryConnects, RetryWaits, RetryEnds
<1>3. ASSUME NEW c \in Changer, ChangeStep(c), ~Abort PROVE wfRace'
  BY <1>3 DEF ChangeStep, Detach, Delete, Stop, Clear, SetMode, StartDriver, Ensure, Deinit
<1>4. CASE Configure \/ ChangeMode \/ WatchChanges
  BY <1>4 DEF Configure, ChangeMode, WatchChanges, Begin, wifiVars
<1>5. CASE WatchTick \/ WatchLeaves \/ WatchEnds \/ Handle
  BY <1>5 DEF WatchTick, WatchLeaves, WatchEnds, Handle
<1>6. CASE Join \/ LoseLink \/ Client
  BY <1>6 DEF Join, LoseLink, Client, Report
<1>7. CASE Restarts
  BY <1>7 DEF Restarts, wifiVars
<1> QED BY <1>1, <1>2, <1>3, <1>4, <1>5, <1>6, <1>7 DEF WifiNext

(* Whatever the driver reports and the tasks interleave: the types, and, as  *)
(* long as no two changes overlapped and no link was lost in one, everything *)
(* the mode changes rely on.                                                 *)
THEOREM WifiInvariant == WifiSpec => []WifiInv
<1>1. WifiInit => WifiInv
  <2> SUFFICES ASSUME WifiInit PROVE WifiInv
    OBVIOUS
  <2>1. WifiTypeOK
    <3>1. wfSeconds \in 0..ApSeconds /\ wfEvents \in Seq(WfEvents) /\ wfHandle \in Retry \cup {NoRetry}
      BY WifiAssumption DEF WifiInit
    <3> QED BY <3>1 DEF WifiInit, WifiTypeOK, WfEvents, Modes, NoRetry
  <2>2. WifiShape
    BY <2>1 DEF WifiInit, WifiShape, Changer
  <2>3. NoRaceInv
    BY <2>1
    DEF WifiInit, NoRaceInv, OneChange, Changing, DriverInv, WatchInv, WatchEnding, Waits, StageOf, Changer
  <2> QED BY <2>2, <2>3 DEF WifiInv
<1>2. WifiInv /\ [WifiNext]_wifiVars => WifiInv'
  <2> SUFFICES ASSUME WifiInv, [WifiNext]_wifiVars PROVE WifiInv'
    OBVIOUS
  <2>1. WifiShape'
    BY ShapeKept DEF WifiInv
  <2>2. ASSUME ~wfRace', WifiNext PROVE NoRaceInv'
    <3>1. WifiShape /\ NoRaceInv
      BY <2>2, RaceStays DEF WifiInv
    <3>2. ~wfAborted
      BY <3>1 DEF NoRaceInv
    <3> QED
      BY <2>2, <3>1, <3>2, DetachKeeps, DeleteKeeps, StopKeeps, ClearKeeps, SetModeKeeps,
         StartDriverKeeps, EnsureKeeps, DeinitKeeps, SupervisorKeeps, WatchKeeps, TimeoutKeeps,
         RetryKeeps, HandleKeeps, ReportKeeps
      DEF WifiNext, ChangeStep, Restarts
  <2>3. CASE UNCHANGED wifiVars
    <3>1. wfRace' = wfRace /\ (NoRaceInv => NoRaceInv')
      BY <2>3
      DEF wifiVars, wfDrv, wfEnd, wfChange, wfAp, wfRetries, NoRaceInv, OneChange, Changing,
          DriverInv, AtRest, WatchInv, WatchEnding, StageOf, TaskOf, NoTasks, IsStation, Waits
    <3> QED BY <2>1, <3>1 DEF WifiInv
  <2> QED BY <2>1, <2>2, <2>3 DEF WifiInv
<1> QED BY <1>1, <1>2, PTL DEF WifiSpec

(* No driver call that is checked is refused without such a race.            *)
THEOREM WifiAborts == WifiSpec => []AbortNeedsRace
<1>1. WifiInv => AbortNeedsRace
  BY DEF WifiInv, NoRaceInv, AbortNeedsRace
<1> QED BY <1>1, WifiInvariant, PTL

(* An access point that is known to be up has its timeout task, unless its   *)
(* start was handled while the task before it was ending.                    *)
THEOREM WifiApWatched == WifiSpec => []ApWatched
<1>1. WifiInv => ApWatched
  BY DEF WifiInv, NoRaceInv, WatchInv, WatchEnding, ApWatched
<1> QED BY <1>1, WifiInvariant, PTL
================================================================================
