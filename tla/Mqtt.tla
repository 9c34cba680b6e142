--------------------------------- MODULE Mqtt ---------------------------------
(***************************************************************************)
(* The MQTT client of cikon_mqtt: the event handler, run by the client     *)
(* library's own task; the command and telemetry tasks that it creates on  *)
(* every connection and stops on every disconnection; the message queue    *)
(* between handler and command task; and mqtt_init and mqtt_shutdown, run  *)
(* by the supervisor and by the task that gives up after too many retries. *)
(*                                                                         *)
(* The library is external: it delivers one event at a time, holds its API *)
(* lock while the handler runs, and esp_mqtt_client_stop waits for its     *)
(* task.  Left out are topics, payloads and fragments (a message is either *)
(* skipped or queued), TLS, the telemetry trigger, whose effect is that of *)
(* the interval's end, mqtt_reconnect_mutex, which only the handler takes, *)
(* failures of xTaskCreate and malloc, and the offline message:            *)
(* MQTT_CONNECTED_BIT and MQTT_OFFLINE_PUBLISHED_BIT decide only whether   *)
(* mqtt_publish_offline_state waits, for 1 s at most, before a shutdown    *)
(* begins.                                                                 *)
(*                                                                         *)
(* A definition Name_Fault, before the definition Name, is Name with a     *)
(* fault seeded; nothing uses it but the mutants of PROJECT.json.          *)
(***************************************************************************)
EXTENDS Integers

CONSTANTS
  Caller,       \* tasks that call mqtt_shutdown
  GiveUp,       \* the one among them that the event handler creates
  CommandTask,  \* bound: command tasks that live at the same time
  TelemetryTask, \* bound: telemetry tasks that live at the same time
  NoTask,       \* NULL
  QueueLength,  \* messages the queue holds (8 in the code)
  MaxRetry      \* mqtt_max_retry

ASSUME CallerAssumption == GiveUp \in Caller
ASSUME TaskAssumption == NoTask \notin CommandTask \cup TelemetryTask
ASSUME NumberAssumption ==
  QueueLength \in Nat /\ QueueLength > 0 /\ MaxRetry \in Nat

VARIABLES
  client,     \* mqtt_client: "none", "running", "stopping" (asked to stop)
              \* or "stopped" (its task has ended)
  conn,       \* its connection to the broker: "down", "up" or "subscribed"
  shut,       \* MQTT_TASKS_SHUTDOWN_BIT
  at,         \* event handler: "idle", "conn_pulse", "create" (the telemetry
              \* task is still to be created), "disc_pulse" or "send"
  retries,    \* mqtt_retry_counter
  exists,     \* mqtt_queue # NULL
  queue,      \* messages in it
  cmdHandle,  \* mqtt_command_task_handle
  teleHandle, \* mqtt_telemetry_task_handle
  cmd,        \* cmd[t]: "none", "new", "subscribe", "receive" or "handle"
  tele,       \* tele[t]: "none", "new", "online", "publish" or "wait"
  pc,         \* pc[c]: "idle", "test", "pulse", "stop", "wait" or "delete"
  aborted,    \* the last start of the device followed an ESP_ERROR_CHECK or
              \* the use of a deleted queue
  overlap,    \* history: two callers were inside init or shutdown at once
  late        \* history: a command task started while the client was shut down

library  == <<client, conn>>
handler  == <<at, retries>>
mailbox  == <<exists, queue>>
handles  == <<cmdHandle, teleHandle>>
tasks    == <<cmd, tele>>
history  == <<aborted, overlap, late>>
vars == <<client, conn, shut, at, retries, exists, queue, cmdHandle, teleHandle,
          cmd, tele, pc, aborted, overlap, late>>

(* Callers inside mqtt_shutdown, past its test of mqtt_client.              *)
Closing == {"pulse", "stop", "wait", "delete"}

FlagsOK ==
  /\ shut \in BOOLEAN /\ exists \in BOOLEAN
  /\ aborted \in BOOLEAN /\ overlap \in BOOLEAN /\ late \in BOOLEAN
NumbersOK == queue \in 0..QueueLength /\ retries \in 0..MaxRetry
PlacesOK ==
  /\ client \in {"none", "running", "stopping", "stopped"}
  /\ conn \in {"down", "up", "subscribed"}
  /\ at \in {"idle", "conn_pulse", "create", "disc_pulse", "send"}
  /\ cmdHandle \in CommandTask \cup {NoTask} /\ teleHandle \in TelemetryTask \cup {NoTask}
  /\ cmd \in [CommandTask -> {"none", "new", "subscribe", "receive", "handle"}]
  /\ tele \in [TelemetryTask -> {"none", "new", "online", "publish", "wait"}]
  /\ pc \in [Caller -> {"idle", "test"} \cup Closing]
TypeOK == FlagsOK /\ NumbersOK /\ PlacesOK

Init ==
  /\ client = "none" /\ conn = "down" /\ shut = FALSE
  /\ at = "idle" /\ retries = 0
  /\ exists = FALSE /\ queue = 0
  /\ cmdHandle = NoTask /\ teleHandle = NoTask
  /\ cmd = [t \in CommandTask |-> "none"] /\ tele = [t \in TelemetryTask |-> "none"]
  /\ pc = [c \in Caller |-> "idle"]
  /\ aborted = FALSE /\ overlap = FALSE /\ late = FALSE

(* A panic: the device starts anew.                                         *)
Abort ==
  /\ client' = "none" /\ conn' = "down" /\ shut' = FALSE
  /\ at' = "idle" /\ retries' = 0
  /\ exists' = FALSE /\ queue' = 0
  /\ cmdHandle' = NoTask /\ teleHandle' = NoTask
  /\ cmd' = [t \in CommandTask |-> "none"] /\ tele' = [t \in TelemetryTask |-> "none"]
  /\ pc' = [c \in Caller |-> "idle"]
  /\ aborted' = TRUE /\ UNCHANGED <<overlap, late>>

-----------------------------------------------------------------------------
(* The library: connection, events, the API lock.                           *)

(* The library's task holds the lock while the handler runs.                *)
LockFree == at = "idle"

(* The handler is called with the next event.                               *)
Event == LockFree /\ client = "running"

(* shutdown_mqtt_tasks up to its delay of 100 ms.  A telemetry task that    *)
(* waits for the bit is woken by it, even if it is cleared before it runs.  *)
PulseBegin ==
  /\ cmdHandle' = NoTask /\ teleHandle' = NoTask
  /\ shut' = TRUE
  /\ tele' = [t \in TelemetryTask |-> IF tele[t] = "wait" THEN "none" ELSE tele[t]]

(* Its end.  A task that was in xQueueReceive when the pulse cleared its    *)
(* handle has left it by then: its own wait of 100 ms began earlier, and    *)
(* its priority is the highest of all that take part.  Another pulse still  *)
(* under way may have cleared the handle later.                             *)
PulseEnd_KeepsBit(another) ==
  /\ another \/ \A t \in CommandTask : cmd[t] = "receive" => cmdHandle = t
  /\ UNCHANGED shut
PulseEnd_AwaitsTasks(another) ==
  /\ \A t \in CommandTask : cmd[t] = "none"
  /\ \A t \in TelemetryTask : tele[t] = "none"
  /\ shut' = FALSE
PulseEnd(another) ==
  /\ another \/ \A t \in CommandTask : cmd[t] = "receive" => cmdHandle = t
  /\ shut' = FALSE

HandlerPulse == at \in {"conn_pulse", "disc_pulse"}
CallerPulse(callers) == \E c \in callers : pc[c] = "pulse"

HandlesSet == cmdHandle # NoTask \/ teleHandle # NoTask

(* xTaskCreate of the command task, which writes its handle first; which    *)
(* free member stands for it makes no difference.                           *)
FreeCommandTask == CHOOSE t \in CommandTask : cmd[t] = "none"
CreateCommandTask ==
  /\ \E t \in CommandTask : cmd[t] = "none"
  /\ cmd' = [cmd EXCEPT ![FreeCommandTask] = "new"]
  /\ cmdHandle' = FreeCommandTask
  /\ at' = "create"

(* MQTT_EVENT_CONNECTED: tasks left over from an earlier connection are     *)
(* stopped first.  (Bound: a connection comes up only when there is room    *)
(* for its two tasks.)                                                      *)
Connected ==
  /\ Event /\ conn = "down"
  /\ \E t \in CommandTask : cmd[t] = "none"
  /\ \E t \in TelemetryTask : tele[t] = "none"
  /\ conn' = "up" /\ retries' = 0
  /\ \/ /\ HandlesSet
        /\ PulseBegin
        /\ at' = "conn_pulse"
        /\ UNCHANGED cmd
     \/ /\ ~HandlesSet
        /\ CreateCommandTask
        /\ UNCHANGED <<teleHandle, shut, tele>>
  /\ UNCHANGED <<client, mailbox, pc, history>>

ConnectedPulseEnd ==
  /\ at = "conn_pulse"
  /\ PulseEnd(CallerPulse(Caller))
  /\ CreateCommandTask
  /\ UNCHANGED <<library, retries, mailbox, teleHandle, tele, pc, history>>

FreeTelemetryTask == CHOOSE t \in TelemetryTask : tele[t] = "none"
CreateTelemetryTask ==
  /\ at = "create"
  /\ \E t \in TelemetryTask : tele[t] = "none"
  /\ tele' = [tele EXCEPT ![FreeTelemetryTask] = "new"]
  /\ teleHandle' = FreeTelemetryTask
  /\ at' = "idle"
  /\ UNCHANGED <<library, shut, retries, mailbox, cmdHandle, cmd, pc, history>>

(* The library tries again by itself, MaxRetry times; after that a task of  *)
(* its own is created to call mqtt_shutdown.  (Bound: one such task at a    *)
(* time.)                                                                   *)
Retry ==
  /\ at' = "idle"
  /\ \/ /\ retries < MaxRetry
        /\ retries' = retries + 1
        /\ UNCHANGED pc
     \/ /\ retries >= MaxRetry
        /\ retries' = 0
        /\ pc' = [pc EXCEPT ![GiveUp] = IF @ = "idle" THEN "test" ELSE @]

(* MQTT_EVENT_DISCONNECTED, after a connection or an attempt at one.        *)
Disconnected ==
  /\ Event
  /\ conn' = "down"
  /\ \/ /\ HandlesSet
        /\ PulseBegin
        /\ at' = "disc_pulse"
        /\ UNCHANGED <<retries, pc>>
     \/ /\ ~HandlesSet
        /\ Retry
        /\ UNCHANGED <<handles, shut, tele>>
  /\ UNCHANGED <<client, mailbox, cmd, history>>

DisconnectedPulseEnd ==
  /\ at = "disc_pulse"
  /\ PulseEnd(CallerPulse(Caller))
  /\ Retry
  /\ UNCHANGED <<library, mailbox, handles, tasks, history>>

(* MQTT_EVENT_DATA, for a message that is not skipped as oversized: without *)
(* a queue, or while the tasks are stopped, it is not queued; a full queue  *)
(* is waited for without limit.  The session is clean: the broker sends     *)
(* nothing before the command task has subscribed.                          *)
Data ==
  /\ Event /\ conn = "subscribed"
  /\ exists /\ ~shut
  /\ \/ /\ queue < QueueLength
        /\ queue' = queue + 1
        /\ UNCHANGED at
     \/ /\ queue >= QueueLength
        /\ at' = "send"
        /\ UNCHANGED queue
  /\ UNCHANGED <<library, shut, retries, exists, handles, tasks, pc, history>>

SendWaits ==
  /\ at = "send" /\ exists /\ queue < QueueLength
  /\ queue' = queue + 1
  /\ at' = "idle"
  /\ UNCHANGED <<library, shut, retries, exists, handles, tasks, pc, history>>

(* The library's task ends when it was asked to.                            *)
ClientEnds ==
  /\ LockFree /\ client = "stopping"
  /\ client' = "stopped" /\ conn' = "down"
  /\ UNCHANGED <<shut, handler, mailbox, handles, tasks, pc, history>>

-----------------------------------------------------------------------------
(* mqtt_command_task.                                                       *)

(* The check for a duplicate at the start.                                  *)
CommandStart(t) ==
  /\ cmd[t] = "new"
  /\ \/ /\ cmdHandle \notin {NoTask, t}
        /\ cmd' = [cmd EXCEPT ![t] = "none"]
        /\ UNCHANGED cmdHandle
     \/ /\ cmdHandle \in {NoTask, t}
        /\ cmd' = [cmd EXCEPT ![t] = "subscribe"]
        /\ cmdHandle' = t
  /\ late' = (late \/ \E c \in Caller : pc[c] \in Closing)
  /\ UNCHANGED <<library, shut, handler, mailbox, teleHandle, tele, pc, aborted,
                 overlap>>

(* The checks at the top of the loop, and what follows them.                *)
CommandStays_AnyHandle(t) == ~shut /\ exists
CommandStays(t) == ~shut /\ cmdHandle = t /\ exists
CommandLoop(t) ==
  cmd' = [cmd EXCEPT ![t] = IF CommandStays(t) THEN "receive" ELSE "none"]

(* The subscription fails without a connection; the task then ends and      *)
(* leaves its handle.                                                       *)
Subscribe(t) ==
  /\ cmd[t] = "subscribe" /\ LockFree
  /\ \/ /\ client = "running" /\ conn # "down"
        /\ conn' = "subscribed"
        /\ CommandLoop(t)
     \/ /\ client # "running" \/ conn = "down"
        /\ cmd' = [cmd EXCEPT ![t] = "none"]
        /\ UNCHANGED conn
  /\ UNCHANGED <<client, shut, handler, mailbox, handles, tele, pc, history>>

(* xQueueReceive: a message, or nothing for 100 ms.                         *)
Receive(t) ==
  /\ cmd[t] = "receive" /\ exists
  /\ \/ /\ queue > 0
        /\ queue' = queue - 1
        /\ cmd' = [cmd EXCEPT ![t] = "handle"]
     \/ /\ queue = 0
        /\ CommandLoop(t)
        /\ UNCHANGED queue
  /\ UNCHANGED <<library, shut, handler, exists, handles, tele, pc, history>>

(* The queue was deleted under xQueueReceive: the task times out all the    *)
(* same, or the corrupted list crashes the device.                          *)
ReceiveDeleted(t) ==
  /\ cmd[t] = "receive" /\ ~exists
  /\ \/ Abort
     \/ /\ CommandLoop(t)
        /\ UNCHANGED <<library, shut, handler, mailbox, handles, tele, pc, history>>

(* command_cb; each command in the payload may wait for the supervisor.     *)
Handle(t) ==
  /\ cmd[t] = "handle"
  /\ CommandLoop(t)
  /\ UNCHANGED <<library, shut, handler, mailbox, handles, tele, pc, history>>

-----------------------------------------------------------------------------
(* mqtt_telemetry_task.                                                     *)

TelemetryStart(t) ==
  /\ tele[t] = "new"
  /\ \/ /\ teleHandle \notin {NoTask, t}
        /\ tele' = [tele EXCEPT ![t] = "none"]
        /\ UNCHANGED teleHandle
     \/ /\ teleHandle \in {NoTask, t}
        /\ tele' = [tele EXCEPT ![t] = "online"]
        /\ teleHandle' = t
  /\ UNCHANGED <<library, shut, handler, mailbox, cmdHandle, cmd, pc, history>>

(* The checks at the top of the loop.                                       *)
TelemetryStays_AnyHandle(t) == ~shut
TelemetryStays(t) == ~shut /\ teleHandle = t
TelemetryLoop(t) ==
  tele' = [tele EXCEPT ![t] = IF TelemetryStays(t) THEN "publish" ELSE "none"]

(* The birth message, and the telemetry; both take the library's lock.      *)
PublishOnline(t) ==
  /\ tele[t] = "online" /\ LockFree
  /\ TelemetryLoop(t)
  /\ UNCHANGED <<library, shut, handler, mailbox, handles, cmd, pc, history>>
Publish(t) ==
  /\ tele[t] = "publish" /\ LockFree
  /\ tele' = [tele EXCEPT ![t] = IF shut THEN "none" ELSE "wait"]
  /\ UNCHANGED <<library, shut, handler, mailbox, handles, cmd, pc, history>>

(* The wait ends with the interval, or by the trigger.                      *)
WaitEnds(t) ==
  /\ tele[t] = "wait"
  /\ TelemetryLoop(t)
  /\ UNCHANGED <<library, shut, handler, mailbox, handles, cmd, pc, history>>

-----------------------------------------------------------------------------
(* mqtt_init and mqtt_shutdown.                                             *)

(* The supervisor initialises the client, at a time when it is not shutting *)
(* it down itself.                                                          *)
Start ==
  /\ client = "none" /\ \A c \in Caller \ {GiveUp} : pc[c] = "idle"
  /\ client' = "running" /\ conn' = "down"
  /\ shut' = FALSE
  /\ exists' = TRUE
  /\ aborted' = FALSE
  /\ overlap' = ((overlap /\ ~aborted) \/ \E d \in Caller : pc[d] \in Closing)
  /\ late' = (late /\ ~aborted)
  /\ UNCHANGED <<handler, queue, handles, tasks, pc>>

(* mqtt_publish_offline_state, which precedes mqtt_shutdown except in the   *)
(* task that gives up; its wait is left out.                                *)
PublishOffline(c) ==
  /\ c # GiveUp /\ pc[c] = "idle"
  /\ pc' = [pc EXCEPT ![c] = "test"]
  /\ UNCHANGED <<library, shut, handler, mailbox, handles, tasks, history>>

Shutdown_Untested(c) ==
  /\ pc[c] = "test"
  /\ PulseBegin
  /\ pc' = [pc EXCEPT ![c] = "pulse"]
  /\ overlap' = (overlap \/ \E d \in Caller : pc[d] \in Closing)
  /\ UNCHANGED <<library, handler, mailbox, cmd, aborted, late>>
Shutdown(c) ==
  /\ pc[c] = "test"
  /\ \/ /\ client = "none"
        /\ pc' = [pc EXCEPT ![c] = "idle"]
        /\ UNCHANGED <<handles, shut, tele, overlap>>
     \/ /\ client # "none"
        /\ PulseBegin
        /\ pc' = [pc EXCEPT ![c] = "pulse"]
        /\ overlap' = (overlap \/ \E d \in Caller : pc[d] \in Closing)
  /\ UNCHANGED <<library, handler, mailbox, cmd, aborted, late>>

ShutdownPulseEnd(c) ==
  /\ pc[c] = "pulse"
  /\ PulseEnd(HandlerPulse \/ CallerPulse(Caller \ {c}))
  /\ pc' = [pc EXCEPT ![c] = "stop"]
  /\ UNCHANGED <<library, handler, mailbox, handles, tasks, history>>

(* esp_mqtt_client_stop, under the library's lock; ESP_ERROR_CHECK aborts   *)
(* if the client is not running any more.                                   *)
StopClient(c) ==
  /\ pc[c] = "stop" /\ LockFree
  /\ \/ /\ client # "running"
        /\ Abort
     \/ /\ client = "running"
        /\ client' = "stopping"
        /\ pc' = [pc EXCEPT ![c] = "wait"]
        /\ UNCHANGED <<conn, shut, handler, mailbox, handles, tasks, history>>

(* It returns when the library's task has ended; esp_mqtt_client_destroy    *)
(* and mqtt_client = NULL follow.                                           *)
DestroyClient(c) ==
  /\ pc[c] = "wait" /\ client = "stopped"
  /\ client' = "none"
  /\ pc' = [pc EXCEPT ![c] = "delete"]
  /\ UNCHANGED <<conn, shut, handler, mailbox, handles, tasks, history>>

DeleteQueue(c) ==
  /\ pc[c] = "delete"
  /\ exists' = FALSE /\ queue' = 0
  /\ pc' = [pc EXCEPT ![c] = "idle"]
  /\ UNCHANGED <<library, shut, handler, handles, tasks, history>>

-----------------------------------------------------------------------------

(* What the handler and the library's task go on to do by themselves.       *)
HandlerStep ==
  \/ ConnectedPulseEnd \/ CreateTelemetryTask \/ DisconnectedPulseEnd
  \/ SendWaits \/ ClientEnds

CommandStep(t) == CommandStart(t) \/ Receive(t) \/ ReceiveDeleted(t) \/ Handle(t)
TelemetryStep(t) == TelemetryStart(t) \/ WaitEnds(t)
CloseStep(c) ==
  Shutdown(c) \/ ShutdownPulseEnd(c) \/ DestroyClient(c) \/ DeleteQueue(c)

Next ==
  \/ Connected \/ Disconnected \/ Data
  \/ HandlerStep
  \/ Start
  \/ \E t \in CommandTask : CommandStep(t) \/ Subscribe(t)
  \/ \E t \in TelemetryTask : TelemetryStep(t) \/ PublishOnline(t) \/ Publish(t)
  \/ \E c \in Caller : PublishOffline(c) \/ CloseStep(c) \/ StopClient(c)

Spec == Init /\ [][Next]_vars

(* Every task runs, no wait with a time limit lasts for ever (the delay of  *)
(* a pulse is fixed, whatever the tasks do meanwhile), and who waits for    *)
(* the library's lock gets it if it is free again and again.  Nothing       *)
(* is assumed of the broker and of those who start and stop the client.     *)
FairSpec ==
  /\ Spec
  /\ WF_vars(HandlerStep)
  /\ \A t \in CommandTask : WF_vars(CommandStep(t)) /\ SF_vars(Subscribe(t))
  /\ \A t \in TelemetryTask : WF_vars(TelemetryStep(t)) /\ SF_vars(PublishOnline(t) \/ Publish(t))
  /\ \A c \in Caller : SF_vars(CloseStep(c) \/ StopClient(c))

-----------------------------------------------------------------------------
(* Properties                                                               *)

(* The handler waits for room in the queue, and no task is left to make it: *)
(* a command task that still has to subscribe waits for the lock that the   *)
(* handler holds.                                                           *)
Blocked ==
  /\ at = "send" /\ (queue = QueueLength \/ ~exists)
  /\ \A t \in CommandTask : cmd[t] \notin {"receive", "handle"}

(* A command task never waits on a deleted queue, unless it was started     *)
(* while the client was already being shut down, or two callers were inside *)
(* mqtt_init and mqtt_shutdown at once: a task that misses the bit's 100 ms *)
(* because it handles a command is stopped by its handle.                   *)
NoReceiveAfterDelete ==
  \A t \in CommandTask : cmd[t] = "receive" => exists \/ late \/ overlap

(* A client that exists has a queue, so that no message is lost for want of *)
(* one, as long as mqtt_init and mqtt_shutdown do not overlap: mqtt_init    *)
(* keeps a queue that a shutdown is about to delete.                        *)
RunsWithQueue ==
  ~overlap => (client # "none" => exists)

(* The ESP_ERROR_CHECK of mqtt_shutdown never aborts the program, unless    *)
(* callers overlap or the receiver of a deleted queue brings it down.       *)
AbortNeedsRace == aborted => overlap \/ late

(* A command or telemetry task that was replaced or dismissed ends, also if *)
(* it missed the shutdown bit; two tasks of a kind never go on side by side.*)
StaleTasksEnd ==
  /\ \A t \in CommandTask :
       (cmd[t] # "none" /\ cmdHandle # t)
         ~> (cmd[t] = "none" \/ cmdHandle = t \/ Blocked)
  /\ \A t \in TelemetryTask :
       (tele[t] # "none" /\ teleHandle # t)
         ~> (tele[t] = "none" \/ teleHandle = t \/ Blocked)

(* A connection that lasts is served: commands are received and telemetry   *)
(* is published, however quickly it followed an earlier one, except when    *)
(* the handler waits for room in the queue for ever.                        *)
Serving ==
  /\ cmdHandle # NoTask /\ cmd[cmdHandle] \in {"receive", "handle"}
  /\ teleHandle # NoTask /\ tele[teleHandle] \in {"publish", "wait"}
ConnectionServed ==
  <>[](conn # "down" /\ client = "running" /\ exists) => <>[](Serving \/ Blocked)

(* Every shutdown ends, except by a handler that waits for room for ever.   *)
ShutdownEndsUnlessBlocked ==
  \A c \in Caller : pc[c] # "idle" ~> (pc[c] = "idle" \/ Blocked)

=============================================================================
