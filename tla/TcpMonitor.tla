------------------------------- MODULE TcpMonitor -------------------------------
(***************************************************************************)
(* The TCP log monitor: its task, which sends what the log hook put into a *)
(* ring buffer to one client at a time, and the two tasks that stop it,    *)
(* one of which starts it.  Handle, request, socket and buffer are shared  *)
(* without a lock.                                                         *)
(*                                                                         *)
(* A start is one step.  What is logged, and a log call that is already in *)
(* the hook when the monitor stops, are left out.                          *)
(*                                                                         *)
(* A definition Name_Fault, before the definition Name, is Name with a     *)
(* fault seeded; nothing uses it but the mutants of PROJECT.json.          *)
(***************************************************************************)
VARIABLES
  tmVprintf,  \* what the log calls: "uart", "hook" (tcp_monitor_vprintf) or "null"
  tmOriginal, \* original_vprintf, likewise
  tmBuffer,   \* there is a ring_buffer
  tmHandle,   \* monitor_task_handle is not NULL
  tmQuit,     \* shutdown_requested
  tmSocket,   \* monitor_sock: "none", "open", or "closed" but not forgotten
  tmAt,       \* where the monitor's task is; "none" if there is none
  tmStop,     \* where the tcp_monitor_shutdown of each task is
  tmMisuse,   \* history: the task received from a buffer that is gone, or a
              \* stop closed a descriptor that was closed already
  tmExcuse    \* history: "overlap" if a call found another one going on, or
              \* "failed" if socket, bind or listen did, or a stop gave up

tmLog == <<tmVprintf, tmOriginal>>
tmHistory == <<tmMisuse, tmExcuse>>
monitorVars == <<tmLog, tmBuffer, tmHandle, tmQuit, tmSocket, tmAt, tmStop, tmHistory>>

Stopper == {"supervisor", "timeout"}

MonitorTypeOK ==
  /\ tmVprintf \in {"uart", "hook", "null"} /\ tmOriginal \in {"uart", "hook", "null"}
  /\ {tmBuffer, tmHandle, tmQuit, tmMisuse} \subseteq BOOLEAN
  /\ tmExcuse \in {"none", "failed", "overlap"}
  /\ tmSocket \in {"none", "open", "closed"}
  /\ tmAt \in {"none", "socket", "bind", "loop", "accept", "serve", "send", "leave",
               "clear", "gone"}
  /\ tmStop \in [Stopper -> {"idle", "unhook", "forget", "request", "close", "wait", "delete"}]

MonitorInit ==
  /\ tmVprintf = "uart" /\ tmOriginal = "null" /\ tmBuffer = FALSE
  /\ tmHandle = FALSE /\ tmQuit = FALSE /\ tmSocket = "none" /\ tmAt = "none"
  /\ tmStop = [c \in Stopper |-> "idle"]
  /\ tmMisuse = FALSE /\ tmExcuse = "none"

-----------------------------------------------------------------------------
Fails == tmExcuse' = IF tmExcuse = "none" THEN "failed" ELSE tmExcuse
Others(c) == \E d \in Stopper \ {c} : tmStop[d] # "idle"
StopAt(c, from, to) == tmStop[c] = from /\ tmStop' = [tmStop EXCEPT ![c] = to]

(* tcp_monitor_init, on the supervisor's task; it may get no buffer.        *)
MonitorStart ==
  /\ tmStop["supervisor"] = "idle" /\ ~tmHandle
  /\ tmBuffer' = TRUE
  /\ tmOriginal' = tmVprintf /\ tmVprintf' = "hook"
  /\ tmHandle' = TRUE /\ tmAt' = "socket"
  /\ tmExcuse' = IF Others("supervisor") THEN "overlap" ELSE tmExcuse
  /\ UNCHANGED <<tmQuit, tmSocket, tmStop, tmMisuse>>

(* tcp_monitor_shutdown, in its steps.                                      *)
MonitorStop(c) ==
  /\ tmHandle
  /\ StopAt(c, "idle", IF tmOriginal # "null" THEN "unhook" ELSE "request")
  /\ tmExcuse' = IF Others(c) THEN "overlap" ELSE tmExcuse
  /\ UNCHANGED <<tmLog, tmBuffer, tmHandle, tmQuit, tmSocket, tmAt, tmMisuse>>
Unhook(c) ==
  /\ StopAt(c, "unhook", "forget")
  /\ tmVprintf' = tmOriginal
  /\ UNCHANGED <<tmOriginal, tmBuffer, tmHandle, tmQuit, tmSocket, tmAt, tmHistory>>
Forget(c) ==
  /\ StopAt(c, "forget", "request")
  /\ tmOriginal' = "null"
  /\ UNCHANGED <<tmVprintf, tmBuffer, tmHandle, tmQuit, tmSocket, tmAt, tmHistory>>
Request(c) ==
  /\ StopAt(c, "request", "close")
  /\ tmQuit' = TRUE
  /\ UNCHANGED <<tmLog, tmBuffer, tmHandle, tmSocket, tmAt, tmHistory>>
CloseSocket(c) ==
  /\ StopAt(c, "close", "wait")
  /\ tmSocket' = "none"
  /\ tmMisuse' = (tmMisuse \/ tmSocket = "closed")
  /\ UNCHANGED <<tmLog, tmBuffer, tmHandle, tmQuit, tmAt, tmExcuse>>

(* task_wait_for_finish: the task is gone, or 2 s are over; the task needs  *)
(* that long only when a client does not read, or when it will never end.   *)
WaitForFinish_Impatient(c) ==
  /\ StopAt(c, "wait", "delete")
  /\ UNCHANGED <<tmLog, tmBuffer, tmHandle, tmQuit, tmSocket, tmAt, tmHistory>>
WaitForFinish(c) ==
  /\ StopAt(c, "wait", "delete")
  /\ ~tmHandle \/ tmAt \in {"send", "none"}
  /\ (IF tmHandle THEN Fails ELSE UNCHANGED tmExcuse)
  /\ UNCHANGED <<tmLog, tmBuffer, tmHandle, tmQuit, tmSocket, tmAt, tmMisuse>>
DeleteBuffer(c) ==
  /\ StopAt(c, "delete", "idle")
  /\ tmBuffer' = FALSE
  /\ UNCHANGED <<tmLog, tmHandle, tmQuit, tmSocket, tmAt, tmHistory>>

-----------------------------------------------------------------------------
(* tcp_monitor_task                                                         *)

TaskAt(from, to) == tmAt = from /\ tmAt' = to

(* socket: when it fails the task ends, and its handle stays.               *)
OpenMonitor ==
  /\ \/ TaskAt("socket", "bind") /\ tmSocket' = "open" /\ UNCHANGED tmExcuse
     \/ TaskAt("socket", "none") /\ tmSocket' = "none" /\ Fails
  /\ UNCHANGED <<tmLog, tmBuffer, tmHandle, tmQuit, tmStop, tmMisuse>>

(* bind and listen, which fail by themselves or because a stop closed the   *)
(* socket: then the task closes it and ends, and its handle stays.          *)
Bind ==
  /\ \/ TaskAt("bind", "loop") /\ tmSocket = "open" /\ UNCHANGED <<tmSocket, tmExcuse>>
     \/ /\ TaskAt("bind", "none")
        /\ tmSocket' = IF tmSocket = "open" THEN "closed" ELSE tmSocket
        /\ Fails
  /\ UNCHANGED <<tmLog, tmBuffer, tmHandle, tmQuit, tmStop, tmMisuse>>

ServeLoop ==
  /\ TaskAt("loop", IF tmQuit THEN "leave" ELSE "accept")
  /\ UNCHANGED <<tmLog, tmBuffer, tmHandle, tmQuit, tmSocket, tmStop, tmHistory>>

(* accept: a client, or an error, after which it tries again.               *)
AcceptClient ==
  /\ \/ TaskAt("accept", "serve") /\ tmSocket = "open"
     \/ TaskAt("accept", "loop")
  /\ UNCHANGED <<tmLog, tmBuffer, tmHandle, tmQuit, tmSocket, tmStop, tmHistory>>

(* One round with a client: xRingbufferReceive, and send, which may take    *)
(* long.  (A receive from a buffer that is gone is an assertion failure.)   *)
Receive ==
  /\ \/ tmQuit /\ TaskAt("serve", "loop") /\ UNCHANGED tmMisuse
     \/ /\ ~tmQuit
        /\ TaskAt("serve", "serve") \/ TaskAt("serve", "send")
        /\ tmMisuse' = (tmMisuse \/ ~tmBuffer)
  /\ UNCHANGED <<tmLog, tmBuffer, tmHandle, tmQuit, tmSocket, tmStop, tmExcuse>>
Send ==
  /\ TaskAt("send", "serve") \/ TaskAt("send", "loop")
  /\ UNCHANGED <<tmLog, tmBuffer, tmHandle, tmQuit, tmSocket, tmStop, tmHistory>>

(* The end: the socket, the request, the handle.                            *)
LeaveMonitor ==
  /\ TaskAt("leave", "clear")
  /\ tmSocket' = "none"
  /\ UNCHANGED <<tmLog, tmBuffer, tmHandle, tmQuit, tmStop, tmHistory>>
ForgetRequest ==
  /\ TaskAt("clear", "gone")
  /\ tmQuit' = FALSE
  /\ UNCHANGED <<tmLog, tmBuffer, tmHandle, tmSocket, tmStop, tmHistory>>
EndMonitor ==
  /\ TaskAt("gone", "none")
  /\ tmHandle' = FALSE
  /\ UNCHANGED <<tmLog, tmBuffer, tmQuit, tmSocket, tmStop, tmHistory>>

MonitorNext ==
  \/ MonitorStart
  \/ \E c \in Stopper :
       \/ MonitorStop(c) \/ Unhook(c) \/ Forget(c) \/ Request(c) \/ CloseSocket(c)
       \/ WaitForFinish(c) \/ DeleteBuffer(c)
  \/ OpenMonitor \/ Bind \/ ServeLoop \/ AcceptClient \/ Receive \/ Send
  \/ LeaveMonitor \/ ForgetRequest \/ EndMonitor

MonitorSpec == MonitorInit /\ [][MonitorNext]_monitorVars

-----------------------------------------------------------------------------
(* As long as stops overlap no other call, nothing fails and no stop gives  *)
(* up: the log always has somewhere to go and its hook does not forward to  *)
(* itself, a hook has its buffer, the task never receives from a deleted    *)
(* one, no descriptor is closed twice, and there is a task exactly while    *)
(* there is a handle, so a monitor that was stopped can be started again.   *)
MonitorSafe ==
  tmExcuse = "none" =>
    /\ tmVprintf # "null" /\ tmOriginal # "hook"
    /\ tmVprintf = "hook" => tmBuffer
    /\ ~tmMisuse
    /\ tmHandle <=> tmAt # "none"

(* tcp_monitor.c:29 says of the hook that it forwards "to original UART     *)
(* vprintf": as long as calls do not overlap it does not forward to itself. *)
HookForwards == tmExcuse # "overlap" => tmOriginal # "hook"
===============================================================================
