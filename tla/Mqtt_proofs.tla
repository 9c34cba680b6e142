----------------------------- MODULE Mqtt_proofs -----------------------------
(***************************************************************************)
(* The shutdown of the MQTT client for any callers, tasks and limits.      *)
(***************************************************************************)
EXTENDS Mqtt, TLAPS

(* Nothing is left of the time before an abort.                             *)
Fresh ==
  aborted => /\ client = "none" /\ at = "idle"
             /\ \A c \in Caller : pc[c] \notin Closing
             /\ \A t \in CommandTask : cmd[t] = "none"

(* One caller at a time, and the client where that caller has brought it.   *)
OneCloser ==
  ~overlap => \A c, d \in Caller : pc[c] \in Closing /\ pc[d] \in Closing => c = d
ClientFollows ==
  ~overlap =>
    /\ \A c \in Caller :
         /\ pc[c] \in {"pulse", "stop"} => client = "running"
         /\ pc[c] = "wait" => client \in {"stopping", "stopped"}
         /\ pc[c] = "delete" => client = "none"
    /\ (\A c \in Caller : pc[c] \notin Closing) => client \in {"none", "running"}

(* During a shutdown the only task whose handle is known has not started.   *)
Dismissed ==
  ~late => \A c \in Caller : pc[c] \in Closing =>
             \A t \in CommandTask : cmdHandle = t => cmd[t] = "new"

(* After its pulse no command task waits on the queue, except for the time  *)
(* of a pulse of the event handler's, which keeps the client from stopping. *)
Left ==
  ~late /\ ~overlap => \A c \in Caller :
    /\ pc[c] = "stop" =>
         HandlerPulse \/ \A t \in CommandTask : cmd[t] # "receive"
    /\ pc[c] \in {"wait", "delete"} => \A t \in CommandTask : cmd[t] # "receive"

ClosingInv ==
  /\ PlacesOK /\ Fresh /\ OneCloser /\ ClientFollows /\ RunsWithQueue
  /\ Dismissed /\ Left /\ NoReceiveAfterDelete /\ AbortNeedsRace

LEMMA FreeCommand ==
  ASSUME \E t \in CommandTask : cmd[t] = "none"
  PROVE  FreeCommandTask \in CommandTask /\ cmd[FreeCommandTask] = "none"
  BY DEF FreeCommandTask

LEMMA FreeTelemetry ==
  ASSUME \E t \in TelemetryTask : tele[t] = "none"
  PROVE  FreeTelemetryTask \in TelemetryTask /\ tele[FreeTelemetryTask] = "none"
  BY DEF FreeTelemetryTask

LEMMA InitClosingInv == Init => ClosingInv
  BY DEF Init, ClosingInv, PlacesOK, Fresh, OneCloser, ClientFollows, RunsWithQueue, Dismissed,
     Left, NoReceiveAfterDelete, AbortNeedsRace, Closing

(* The event handler, and the end of the library's task.                    *)
LEMMA HandlerInv ==
  ASSUME ClosingInv, Connected \/ Disconnected \/ Data \/ HandlerStep
  PROVE  ClosingInv'
<1> USE FreeCommand, FreeTelemetry, TaskAssumption
    DEF ClosingInv, PlacesOK, Fresh, OneCloser, ClientFollows, RunsWithQueue, Dismissed, Left,
        NoReceiveAfterDelete, AbortNeedsRace, Closing, HandlerPulse, CallerPulse, Event, LockFree,
        PulseBegin, PulseEnd, Retry, CreateCommandTask, handles, history, tasks, mailbox, library
<1>1. CASE Connected
  <2>1. PlacesOK'
    BY <1>1 DEF Connected
  <2>2. Fresh'
    BY <1>1 DEF Connected
  <2>3. OneCloser'
    BY <1>1 DEF Connected
  <2>4. ClientFollows'
    BY <1>1 DEF Connected
  <2>5. RunsWithQueue'
    BY <1>1 DEF Connected
  <2>6. Dismissed'
    BY <1>1 DEF Connected
  <2>7. Left'
    <3>1. CASE HandlesSet
      BY <1>1, <3>1 DEF Connected
    <3>2. CASE ~HandlesSet
      <4>1. ~overlap => \A c \in Caller : pc[c] \notin {"wait", "delete"}
        BY <1>1 DEF Connected
      <4>2. ~late /\ ~overlap => \A c \in Caller :
              pc[c] = "stop" => \A t \in CommandTask : cmd[t] # "receive"
        BY <1>1 DEF Connected
      <4>3. \A t \in CommandTask : cmd'[t] = "receive" => cmd[t] = "receive"
        BY <1>1, <3>2 DEF Connected
      <4>4. UNCHANGED <<late, overlap>> /\ \A c \in Caller : pc'[c] = pc[c] \/ pc'[c] = "test"
        BY <1>1, <3>2 DEF Connected
      <4>5. QED
        BY <4>1, <4>2, <4>3, <4>4
    <3>3. QED
      BY <3>1, <3>2
  <2>8. NoReceiveAfterDelete'
    BY <1>1 DEF Connected
  <2>9. AbortNeedsRace'
    BY <1>1 DEF Connected
  <2>10. QED
    BY <2>1, <2>2, <2>3, <2>4, <2>5, <2>6, <2>7, <2>8, <2>9
<1>2. CASE ConnectedPulseEnd
  <2>1. PlacesOK'
    BY <1>2 DEF ConnectedPulseEnd
  <2>2. Fresh'
    BY <1>2 DEF ConnectedPulseEnd
  <2>3. OneCloser'
    BY <1>2 DEF ConnectedPulseEnd
  <2>4. ClientFollows'
    BY <1>2 DEF ConnectedPulseEnd
  <2>5. RunsWithQueue'
    BY <1>2 DEF ConnectedPulseEnd
  <2>6. Dismissed'
    BY <1>2 DEF ConnectedPulseEnd
  <2>7. Left'
    BY <1>2 DEF ConnectedPulseEnd
  <2>8. NoReceiveAfterDelete'
    BY <1>2 DEF ConnectedPulseEnd
  <2>9. AbortNeedsRace'
    BY <1>2 DEF ConnectedPulseEnd
  <2>10. QED
    BY <2>1, <2>2, <2>3, <2>4, <2>5, <2>6, <2>7, <2>8, <2>9
<1>3. CASE CreateTelemetryTask
  BY <1>3 DEF CreateTelemetryTask
<1>4. CASE Disconnected
  <2>1. PlacesOK'
    BY <1>4 DEF Disconnected
  <2>2. Fresh'
    BY <1>4 DEF Disconnected
  <2>3. OneCloser'
    BY <1>4 DEF Disconnected
  <2>4. ClientFollows'
    BY <1>4 DEF Disconnected
  <2>5. RunsWithQueue'
    BY <1>4 DEF Disconnected
  <2>6. Dismissed'
    BY <1>4 DEF Disconnected
  <2>7. Left'
    <3>1. CASE HandlesSet
      BY <1>4, <3>1 DEF Disconnected
    <3>2. CASE ~HandlesSet
      <4>1. ~overlap => \A c \in Caller : pc[c] \notin {"wait", "delete"}
        BY <1>4 DEF Disconnected
      <4>2. ~late /\ ~overlap => \A c \in Caller :
              pc[c] = "stop" => \A t \in CommandTask : cmd[t] # "receive"
        BY <1>4 DEF Disconnected
      <4>3. \A t \in CommandTask : cmd'[t] = "receive" => cmd[t] = "receive"
        BY <1>4, <3>2 DEF Disconnected
      <4>4. UNCHANGED <<late, overlap>> /\ \A c \in Caller : pc'[c] = pc[c] \/ pc'[c] = "test"
        BY <1>4, <3>2 DEF Disconnected
      <4>5. QED
        BY <4>1, <4>2, <4>3, <4>4
    <3>3. QED
      BY <3>1, <3>2
  <2>8. NoReceiveAfterDelete'
    BY <1>4 DEF Disconnected
  <2>9. AbortNeedsRace'
    BY <1>4 DEF Disconnected
  <2>10. QED
    BY <2>1, <2>2, <2>3, <2>4, <2>5, <2>6, <2>7, <2>8, <2>9
<1>5. CASE DisconnectedPulseEnd
  <2>1. PlacesOK'
    BY <1>5 DEF DisconnectedPulseEnd
  <2>2. Fresh'
    BY <1>5 DEF DisconnectedPulseEnd
  <2>3. OneCloser'
    BY <1>5 DEF DisconnectedPulseEnd
  <2>4. ClientFollows'
    BY <1>5 DEF DisconnectedPulseEnd
  <2>5. RunsWithQueue'
    BY <1>5 DEF DisconnectedPulseEnd
  <2>6. Dismissed'
    BY <1>5 DEF DisconnectedPulseEnd
  <2>7. Left'
    BY <1>5 DEF DisconnectedPulseEnd
  <2>8. NoReceiveAfterDelete'
    BY <1>5 DEF DisconnectedPulseEnd
  <2>9. AbortNeedsRace'
    BY <1>5 DEF DisconnectedPulseEnd
  <2>10. QED
    BY <2>1, <2>2, <2>3, <2>4, <2>5, <2>6, <2>7, <2>8, <2>9
<1>6. CASE Data
  <2>1. PlacesOK'
    BY <1>6 DEF Data
  <2>2. Fresh'
    BY <1>6 DEF Data
  <2>3. OneCloser'
    BY <1>6 DEF Data
  <2>4. ClientFollows'
    BY <1>6 DEF Data
  <2>5. RunsWithQueue'
    BY <1>6 DEF Data
  <2>6. Dismissed'
    BY <1>6 DEF Data
  <2>7. Left'
    BY <1>6 DEF Data
  <2>8. NoReceiveAfterDelete'
    BY <1>6 DEF Data
  <2>9. AbortNeedsRace'
    BY <1>6 DEF Data
  <2>10. QED
    BY <2>1, <2>2, <2>3, <2>4, <2>5, <2>6, <2>7, <2>8, <2>9
<1>7. CASE SendWaits
  BY <1>7 DEF SendWaits
<1>8. CASE ClientEnds
  BY <1>8 DEF ClientEnds, handler
<1>9. QED
  BY <1>1, <1>2, <1>3, <1>4, <1>5, <1>6, <1>7, <1>8 DEF HandlerStep

LEMMA CommandInv ==
  ASSUME ClosingInv, NEW t \in CommandTask, CommandStep(t) \/ Subscribe(t)
  PROVE  ClosingInv'
<1> USE TaskAssumption
    DEF ClosingInv, PlacesOK, Fresh, OneCloser, ClientFollows, RunsWithQueue, Dismissed, Left,
        NoReceiveAfterDelete, AbortNeedsRace, Closing, HandlerPulse, CommandLoop, CommandStays,
        handler, handles, history, mailbox, library
<1>1. CASE CommandStart(t)
  <2>1. PlacesOK'
    BY <1>1 DEF CommandStart
  <2>2. Fresh'
    BY <1>1 DEF CommandStart
  <2>3. OneCloser'
    BY <1>1 DEF CommandStart
  <2>4. ClientFollows'
    BY <1>1 DEF CommandStart
  <2>5. RunsWithQueue'
    BY <1>1 DEF CommandStart
  <2>6. Dismissed'
    BY <1>1 DEF CommandStart
  <2>7. Left'
    BY <1>1 DEF CommandStart
  <2>8. NoReceiveAfterDelete'
    BY <1>1 DEF CommandStart
  <2>9. AbortNeedsRace'
    BY <1>1 DEF CommandStart
  <2>10. QED
    BY <2>1, <2>2, <2>3, <2>4, <2>5, <2>6, <2>7, <2>8, <2>9
<1>2. CASE Subscribe(t)
  BY <1>2 DEF Subscribe
<1>3. CASE Receive(t)
  BY <1>3 DEF Receive
<1>4. CASE ReceiveDeleted(t)
  BY <1>4 DEF ReceiveDeleted, Abort
<1>5. CASE Handle(t)
  BY <1>5 DEF Handle
<1>6. QED
  BY <1>1, <1>2, <1>3, <1>4, <1>5 DEF CommandStep

LEMMA TelemetryInv ==
  ASSUME ClosingInv, NEW t \in TelemetryTask, TelemetryStep(t) \/ PublishOnline(t) \/ Publish(t)
  PROVE  ClosingInv'
<1> USE DEF ClosingInv, PlacesOK, Fresh, OneCloser, ClientFollows, RunsWithQueue, Dismissed, Left,
        NoReceiveAfterDelete, AbortNeedsRace, Closing, HandlerPulse, TelemetryStays,
        handler, handles, history, mailbox, library
<1>1. CASE TelemetryStart(t)
  BY <1>1 DEF TelemetryStart
<1>2. CASE PublishOnline(t)
  BY <1>2 DEF PublishOnline, TelemetryLoop
<1>3. CASE Publish(t)
  BY <1>3 DEF Publish
<1>4. CASE WaitEnds(t)
  BY <1>4 DEF WaitEnds, TelemetryLoop
<1>5. QED
  BY <1>1, <1>2, <1>3, <1>4 DEF TelemetryStep

LEMMA CallerInv ==
  ASSUME ClosingInv, NEW c \in Caller, PublishOffline(c) \/ CloseStep(c) \/ StopClient(c)
  PROVE  ClosingInv'
<1> USE DEF ClosingInv, PlacesOK, Fresh, OneCloser, ClientFollows, RunsWithQueue, Dismissed, Left,
        NoReceiveAfterDelete, AbortNeedsRace, Closing, HandlerPulse, CallerPulse,
        PulseBegin, PulseEnd, handler, handles, history, mailbox, library, tasks
<1>1. CASE PublishOffline(c)
  BY <1>1 DEF PublishOffline
<1>2. CASE Shutdown(c)
  <2>1. PlacesOK'
    BY <1>2, TaskAssumption DEF Shutdown
  <2>2. Fresh'
    BY <1>2, TaskAssumption DEF Shutdown
  <2>a. ~overlap' => ~overlap
    BY <1>2 DEF Shutdown
  <2>b. ~overlap' => client = "none" \/ \A d \in Caller : pc[d] \notin Closing
    BY <1>2 DEF Shutdown
  <2>c. \A d \in Caller \ {c} : pc'[d] = pc[d]
    BY <1>2 DEF Shutdown
  <2>d. client = "none" => pc'[c] \notin Closing
    BY <1>2 DEF Shutdown
  <2>e. client # "none" => pc'[c] = "pulse"
    BY <1>2 DEF Shutdown
  <2>f. client' = client
    BY <1>2 DEF Shutdown
  <2>3. OneCloser'
    BY <2>a, <2>b, <2>c, <2>d
  <2>4. ClientFollows'
    BY <2>a, <2>b, <2>c, <2>d, <2>e, <2>f
  <2>5. RunsWithQueue'
    BY <1>2, TaskAssumption DEF Shutdown
  <2>6. Dismissed'
    BY <1>2, TaskAssumption DEF Shutdown
  <2>7. Left'
    <3>1. pc'[c] \notin {"stop", "wait", "delete"}
      BY <1>2 DEF Shutdown
    <3>2. UNCHANGED <<cmd, late, at>>
      BY <1>2 DEF Shutdown
    <3> QED BY <2>a, <2>c, <3>1, <3>2
  <2>g. overlap => overlap'
    BY <1>2, Zenon DEF Shutdown
  <2>h. UNCHANGED <<cmd, exists, late>>
    BY <1>2 DEF Shutdown
  <2>8. NoReceiveAfterDelete'
    BY <2>g, <2>h
  <2>9. AbortNeedsRace'
    BY <1>2, TaskAssumption DEF Shutdown
  <2>10. QED
    BY <2>1, <2>2, <2>3, <2>4, <2>5, <2>6, <2>7, <2>8, <2>9
<1>3. CASE ShutdownPulseEnd(c)
  BY <1>3 DEF ShutdownPulseEnd
<1>4. CASE StopClient(c)
  BY <1>4 DEF StopClient, Abort, LockFree
<1>5. CASE DestroyClient(c)
  BY <1>5 DEF DestroyClient
<1>6. CASE DeleteQueue(c)
  BY <1>6 DEF DeleteQueue
<1>7. QED
  BY <1>1, <1>2, <1>3, <1>4, <1>5, <1>6 DEF CloseStep

LEMMA StartInv ==
  ASSUME ClosingInv, Start
  PROVE  ClosingInv'
  BY CallerAssumption
  DEF ClosingInv, PlacesOK, Fresh, OneCloser, ClientFollows, RunsWithQueue, Dismissed, Left,
      NoReceiveAfterDelete, AbortNeedsRace, Closing, HandlerPulse, Start, handler, handles, tasks

LEMMA NextClosingInv == ClosingInv /\ [Next]_vars => ClosingInv'
<1> SUFFICES ASSUME ClosingInv, [Next]_vars PROVE ClosingInv'
  OBVIOUS
<1>1. CASE Next
  BY <1>1, HandlerInv, CommandInv, TelemetryInv, CallerInv, StartInv DEF Next
<1>2. CASE UNCHANGED vars
  BY <1>2 DEF vars, ClosingInv, PlacesOK, Fresh, OneCloser, ClientFollows, RunsWithQueue,
     Dismissed, Left, NoReceiveAfterDelete, AbortNeedsRace, Closing, HandlerPulse
<1>3. QED
  BY <1>1, <1>2

(* The flags and the counters, action by action.                            *)
LEMMA FlagsStep == FlagsOK /\ [Next]_vars => FlagsOK'
<1> SUFFICES ASSUME FlagsOK, [Next]_vars PROVE FlagsOK'
  OBVIOUS
<1> USE DEF FlagsOK, history, mailbox, library
<1>1. CASE Connected
  BY <1>1, Zenon DEF Connected, PulseBegin, CreateCommandTask
<1>2. CASE ConnectedPulseEnd
  BY <1>2, Zenon DEF ConnectedPulseEnd, PulseEnd, CreateCommandTask
<1>3. CASE CreateTelemetryTask
  BY <1>3, Zenon DEF CreateTelemetryTask
<1>4. CASE Disconnected
  BY <1>4, Zenon DEF Disconnected, PulseBegin, Retry
<1>5. CASE DisconnectedPulseEnd
  BY <1>5, Zenon DEF DisconnectedPulseEnd, PulseEnd, Retry
<1>6. CASE Data
  BY <1>6, Zenon DEF Data
<1>7. CASE SendWaits
  BY <1>7, Zenon DEF SendWaits
<1>8. CASE ClientEnds
  BY <1>8, Zenon DEF ClientEnds
<1>9. CASE Start
  BY <1>9, Zenon DEF Start
<1>10. ASSUME NEW t \in CommandTask, CommandStart(t) PROVE FlagsOK'
  BY <1>10, Zenon DEF CommandStart
<1>11. ASSUME NEW t \in CommandTask, Subscribe(t) PROVE FlagsOK'
  BY <1>11, Zenon DEF Subscribe, CommandLoop
<1>12. ASSUME NEW t \in CommandTask, Receive(t) PROVE FlagsOK'
  BY <1>12, Zenon DEF Receive, CommandLoop
<1>13. ASSUME NEW t \in CommandTask, ReceiveDeleted(t) PROVE FlagsOK'
  BY <1>13, Zenon DEF ReceiveDeleted, Abort
<1>14. ASSUME NEW t \in CommandTask, Handle(t) PROVE FlagsOK'
  BY <1>14, Zenon DEF Handle, CommandLoop
<1>15. ASSUME NEW t \in TelemetryTask, TelemetryStart(t) PROVE FlagsOK'
  BY <1>15, Zenon DEF TelemetryStart
<1>16. ASSUME NEW t \in TelemetryTask, WaitEnds(t) PROVE FlagsOK'
  BY <1>16, Zenon DEF WaitEnds
<1>16a. ASSUME NEW t \in TelemetryTask, PublishOnline(t) PROVE FlagsOK'
  BY <1>16a, Zenon DEF PublishOnline
<1>17. ASSUME NEW t \in TelemetryTask, Publish(t) PROVE FlagsOK'
  BY <1>17, Zenon DEF Publish
<1>18. ASSUME NEW c \in Caller, PublishOffline(c) PROVE FlagsOK'
  BY <1>18, Zenon DEF PublishOffline
<1>19. ASSUME NEW c \in Caller, Shutdown(c) PROVE FlagsOK'
  BY <1>19, Zenon DEF Shutdown, PulseBegin
<1>20. ASSUME NEW c \in Caller, ShutdownPulseEnd(c) PROVE FlagsOK'
  BY <1>20, Zenon DEF ShutdownPulseEnd, PulseEnd
<1>21. ASSUME NEW c \in Caller, StopClient(c) PROVE FlagsOK'
  BY <1>21, Zenon DEF StopClient, Abort
<1>22. ASSUME NEW c \in Caller, DestroyClient(c) PROVE FlagsOK'
  BY <1>22, Zenon DEF DestroyClient
<1>23. ASSUME NEW c \in Caller, DeleteQueue(c) PROVE FlagsOK'
  BY <1>23, Zenon DEF DeleteQueue
<1>24. CASE UNCHANGED vars
  BY <1>24, Zenon DEF vars
<1>25. QED
  BY <1>1, <1>2, <1>3, <1>4, <1>5, <1>6, <1>7, <1>8, <1>9, <1>10, <1>11, <1>12, <1>13,
     <1>14, <1>15, <1>16, <1>16a, <1>17, <1>18, <1>19, <1>20, <1>21, <1>22, <1>23, <1>24
     DEF Next, HandlerStep, CommandStep, TelemetryStep, CloseStep

LEMMA NumbersStep == NumbersOK /\ [Next]_vars => NumbersOK'
<1> SUFFICES ASSUME NumbersOK, [Next]_vars PROVE NumbersOK'
  OBVIOUS
<1> USE NumberAssumption DEF NumbersOK, handler, mailbox
<1>1. CASE Connected
  BY <1>1 DEF Connected, PulseBegin, CreateCommandTask
<1>2. CASE ConnectedPulseEnd
  BY <1>2 DEF ConnectedPulseEnd, PulseEnd, CreateCommandTask
<1>3. CASE CreateTelemetryTask
  BY <1>3 DEF CreateTelemetryTask
<1>4. CASE Disconnected
  BY <1>4 DEF Disconnected, PulseBegin, Retry
<1>5. CASE DisconnectedPulseEnd
  BY <1>5 DEF DisconnectedPulseEnd, PulseEnd, Retry
<1>6. CASE Data
  BY <1>6 DEF Data
<1>7. CASE SendWaits
  BY <1>7 DEF SendWaits
<1>8. CASE ClientEnds
  BY <1>8 DEF ClientEnds
<1>9. CASE Start
  BY <1>9 DEF Start
<1>10. ASSUME NEW t \in CommandTask, CommandStart(t) PROVE NumbersOK'
  BY <1>10 DEF CommandStart
<1>11. ASSUME NEW t \in CommandTask, Subscribe(t) PROVE NumbersOK'
  BY <1>11 DEF Subscribe, CommandLoop
<1>12. ASSUME NEW t \in CommandTask, Receive(t) PROVE NumbersOK'
  BY <1>12 DEF Receive, CommandLoop
<1>13. ASSUME NEW t \in CommandTask, ReceiveDeleted(t) PROVE NumbersOK'
  BY <1>13 DEF ReceiveDeleted, Abort
<1>14. ASSUME NEW t \in CommandTask, Handle(t) PROVE NumbersOK'
  BY <1>14 DEF Handle, CommandLoop
<1>15. ASSUME NEW t \in TelemetryTask, TelemetryStart(t) PROVE NumbersOK'
  BY <1>15 DEF TelemetryStart
<1>16. ASSUME NEW t \in TelemetryTask, WaitEnds(t) PROVE NumbersOK'
  BY <1>16 DEF WaitEnds
<1>16a. ASSUME NEW t \in TelemetryTask, PublishOnline(t) PROVE NumbersOK'
  BY <1>16a DEF PublishOnline
<1>17. ASSUME NEW t \in TelemetryTask, Publish(t) PROVE NumbersOK'
  BY <1>17 DEF Publish
<1>18. ASSUME NEW c \in Caller, PublishOffline(c) PROVE NumbersOK'
  BY <1>18 DEF PublishOffline
<1>19. ASSUME NEW c \in Caller, Shutdown(c) PROVE NumbersOK'
  BY <1>19 DEF Shutdown, PulseBegin
<1>20. ASSUME NEW c \in Caller, ShutdownPulseEnd(c) PROVE NumbersOK'
  BY <1>20 DEF ShutdownPulseEnd, PulseEnd
<1>21. ASSUME NEW c \in Caller, StopClient(c) PROVE NumbersOK'
  BY <1>21 DEF StopClient, Abort
<1>22. ASSUME NEW c \in Caller, DestroyClient(c) PROVE NumbersOK'
  BY <1>22 DEF DestroyClient
<1>23. ASSUME NEW c \in Caller, DeleteQueue(c) PROVE NumbersOK'
  BY <1>23 DEF DeleteQueue
<1>24. CASE UNCHANGED vars
  BY <1>24 DEF vars
<1>25. QED
  BY <1>1, <1>2, <1>3, <1>4, <1>5, <1>6, <1>7, <1>8, <1>9, <1>10, <1>11, <1>12, <1>13,
     <1>14, <1>15, <1>16, <1>16a, <1>17, <1>18, <1>19, <1>20, <1>21, <1>22, <1>23, <1>24
     DEF Next, HandlerStep, CommandStep, TelemetryStep, CloseStep

(* Theorem: the inductive invariant.                                        *)
THEOREM Closes == Spec => []ClosingInv
  BY InitClosingInv, NextClosingInv, PTL DEF Spec

(* Theorem: the state stays well typed; the queue never holds more than its *)
(* length and the retry counter never passes its limit.                     *)
THEOREM TypeCorrect == Spec => []TypeOK
<1>1. Init => FlagsOK
  BY Zenon DEF Init, FlagsOK
<1>2. Init => NumbersOK
  BY NumberAssumption DEF Init, NumbersOK
<1>3. FlagsOK /\ NumbersOK /\ ClosingInv => TypeOK
  BY DEF TypeOK, ClosingInv
<1>4. QED
  BY <1>1, <1>2, <1>3, Closes, FlagsStep, NumbersStep, PTL DEF Spec

(* Theorem: mqtt_shutdown never deletes the queue under a command task that *)
(* was started before it, in time or not for the shutdown bit.              *)
THEOREM QueueOutlivesTasks == Spec => []NoReceiveAfterDelete
<1>1. ClosingInv => NoReceiveAfterDelete
  BY DEF ClosingInv
<1>2. QED
  BY <1>1, Closes, PTL

(* Theorem: a client that exists has its queue, unless init and shutdown    *)
(* overlap.                                                                 *)
THEOREM ClientHasQueue == Spec => []RunsWithQueue
<1>1. ClosingInv => RunsWithQueue
  BY DEF ClosingInv
<1>2. QED
  BY <1>1, Closes, PTL

(* Theorem: only overlapping callers, or a task started during a shutdown,  *)
(* make the program abort.                                                  *)
THEOREM AbortsAreRaces == Spec => []AbortNeedsRace
<1>1. ClosingInv => AbortNeedsRace
  BY DEF ClosingInv
<1>2. QED
  BY <1>1, Closes, PTL
=============================================================================
