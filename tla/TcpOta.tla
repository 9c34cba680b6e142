-------------------------------- MODULE TcpOta --------------------------------
(***************************************************************************)
(* The TCP OTA service: the task that listens and receives one image at a  *)
(* time, and the tasks that start and stop it.  ota_task_handle,           *)
(* ota_shutdown_requested, ota_update_in_progress and ota_listen_sock are  *)
(* shared without a lock.                                                  *)
(*                                                                         *)
(* A recv returns the message the protocol expects, one of another length, *)
(* or nothing more (the client closed, or an error); a client may also     *)
(* stay silent, and then the task stays where it is.  The image is "whole" *)
(* when exactly the announced bytes are written.  The variable of the      *)
(* expected digest is not initialised: without a digest message it may     *)
(* still hold the one of an earlier connection.                            *)
(*                                                                         *)
(* A definition Name_Fault, before the definition Name, is Name with a     *)
(* fault seeded; nothing uses it but the mutants of PROJECT.json.          *)
(***************************************************************************)
EXTENDS Naturals

CONSTANTS
  Caller,     \* tasks that stop the service
  Supervisor  \* the one that starts it

ASSUME CallerAssumption == Supervisor \in Caller

VARIABLES
  handle,   \* ota_task_handle is not NULL
  quit,     \* ota_shutdown_requested
  busy,     \* ota_update_in_progress
  listen,   \* ota_listen_sock is not -1
  at,       \* where the OTA task is, "none" if there is no task
  closed,   \* the client's end of the connection is closed
  sized,    \* firmware_size is not 0
  digest,   \* md5_expected: "junk", or "whole" if it announces the image
  content,  \* the update partition: "old", "part" of an image, or "whole"
  selected, \* the update partition is the one to boot from
  pc,       \* pc[c]: where caller c is in tcp_ota_shutdown
  over,     \* over[c]: c's wait_count is not below 100; it has eight bits
  wanted,   \* history: started, and not stopped since
  failed    \* history: socket, bind or accept failed by themselves

session == <<closed, sized, digest>>
image   == <<content, selected>>
vars == <<handle, quit, busy, listen, at, closed, sized, digest,
          content, selected, pc, over, wanted, failed>>

Header == {"magic", "version", "size", "md5"}
Update == {"begin", "hash", "write", "ack", "verify", "select"}

FlagsOK ==
  /\ handle \in BOOLEAN /\ quit \in BOOLEAN /\ busy \in BOOLEAN /\ listen \in BOOLEAN
  /\ closed \in BOOLEAN /\ sized \in BOOLEAN
  /\ selected \in BOOLEAN /\ wanted \in BOOLEAN /\ failed \in BOOLEAN
PlacesOK ==
  /\ at \in {"none", "socket", "loop", "accept", "accepted", "finish", "restart",
             "leave", "clear", "gone"} \cup Header \cup Update
  /\ digest \in {"junk", "whole"} /\ content \in {"old", "part", "whole"}
  /\ pc \in [Caller -> {"idle", "close", "wait"}] /\ over \in [Caller -> BOOLEAN]
TypeOK == FlagsOK /\ PlacesOK

Init ==
  /\ handle = FALSE /\ quit = FALSE /\ busy = FALSE /\ listen = FALSE
  /\ at = "none"
  /\ closed = FALSE /\ sized = FALSE
  /\ digest = "junk"
  /\ content = "old" /\ selected = FALSE
  /\ pc = [c \in Caller |-> "idle"] /\ over = [c \in Caller |-> FALSE]
  /\ wanted = FALSE /\ failed = FALSE

-----------------------------------------------------------------------------
(* The tasks that start and stop the service                                *)

(* tcp_ota_init: does nothing while there is a task handle.                 *)
Start_KeepsRequest ==
  /\ pc[Supervisor] = "idle"
  /\ wanted' = TRUE
  /\ IF handle
       THEN UNCHANGED <<handle, at, failed>>
       ELSE handle' = TRUE /\ at' = "socket" /\ failed' = FALSE
  /\ UNCHANGED <<quit, busy, listen, session, image, pc, over>>
Start ==
  /\ pc[Supervisor] = "idle"
  /\ wanted' = TRUE
  /\ IF handle
       THEN UNCHANGED <<handle, quit, at, failed>>
       ELSE /\ quit' = FALSE
            /\ handle' = TRUE /\ at' = "socket"
            /\ failed' = FALSE
  /\ UNCHANGED <<busy, listen, session, image, pc, over>>

(* tcp_ota_shutdown up to the request.                                      *)
Stop(c) ==
  /\ pc[c] = "idle" /\ handle
  /\ wanted' = FALSE
  /\ quit' = TRUE
  /\ pc' = [pc EXCEPT ![c] = "close"]
  /\ UNCHANGED <<handle, busy, listen, at, session, image, over, failed>>

(* It closes the listening socket, which ends an accept, and begins to      *)
(* count.                                                                   *)
CloseListen_Skipped(c) ==
  /\ pc[c] = "close"
  /\ pc' = [pc EXCEPT ![c] = "wait"]
  /\ over' = [over EXCEPT ![c] = FALSE]
  /\ UNCHANGED <<handle, quit, busy, listen, at, session, image, wanted, failed>>
CloseListen(c) ==
  /\ pc[c] = "close"
  /\ listen' = FALSE
  /\ pc' = [pc EXCEPT ![c] = "wait"]
  /\ over' = [over EXCEPT ![c] = FALSE]
  /\ UNCHANGED <<handle, quit, busy, at, session, image, wanted, failed>>

(* The count reaches 100 (1 s), or wraps around from 255 to 0 (2.56 s).  It *)
(* runs on during an update, however long; otherwise the task is somewhere  *)
(* for a second only when it waits for a client or in esp_safe_restart.     *)
Slow == (at = "accept" /\ listen) \/ at = "restart"
Count(c) ==
  /\ pc[c] = "wait"
  /\ busy \/ (Slow /\ ~over[c])
  /\ over' = [over EXCEPT ![c] = ~@]
  /\ UNCHANGED <<handle, quit, busy, listen, at, session, image, pc, wanted, failed>>

(* The wait ends with the task; or, unless the flag of an update in         *)
(* progress is set, when the count is over the limit.                       *)
StopReturns_Impatient(c) ==
  /\ pc[c] = "wait"
  /\ ~handle \/ over[c]
  /\ pc' = [pc EXCEPT ![c] = "idle"]
  /\ UNCHANGED <<handle, quit, busy, listen, at, session, image, over, wanted, failed>>
StopReturns(c) ==
  /\ pc[c] = "wait"
  /\ ~handle \/ (~busy /\ over[c])
  /\ pc' = [pc EXCEPT ![c] = "idle"]
  /\ UNCHANGED <<handle, quit, busy, listen, at, session, image, over, wanted, failed>>

-----------------------------------------------------------------------------
(* The OTA task outside a connection                                        *)

callers == <<pc, over, wanted>>

(* socket, bind and listen; a failure ends the task.                        *)
OpenSocket_KeepsHandle ==
  /\ at = "socket"
  /\ \/ listen' = TRUE /\ at' = "loop" /\ UNCHANGED <<handle, failed>>
     \/ listen' = FALSE /\ at' = "none" /\ failed' = TRUE /\ UNCHANGED handle
  /\ UNCHANGED <<quit, busy, session, image, callers>>
OpenSocket ==
  /\ at = "socket"
  /\ \/ listen' = TRUE /\ at' = "loop" /\ UNCHANGED <<handle, failed>>
     \/ listen' = FALSE /\ at' = "none" /\ handle' = FALSE /\ failed' = TRUE
  /\ UNCHANGED <<quit, busy, session, image, callers>>

(* The condition of the task's loop.                                        *)
Loop ==
  /\ at = "loop"
  /\ at' = IF quit THEN "leave" ELSE "accept"
  /\ UNCHANGED <<handle, quit, busy, listen, session, image, callers, failed>>

(* accept: a client, or an error, which ends the loop; a closed socket      *)
(* gives an error.                                                          *)
Accept ==
  /\ at = "accept"
  /\ \/ /\ listen
        /\ at' = "accepted"
        /\ UNCHANGED failed
     \/ /\ at' = "leave"
        /\ failed' = (failed \/ ~quit)
  /\ UNCHANGED <<handle, quit, busy, listen, session, image, callers>>

(* handle_ota starts with the flag set and its locals fresh.                *)
BeginSession ==
  /\ at = "accepted"
  /\ at' = "magic"
  /\ busy' = TRUE
  /\ closed' = FALSE /\ sized' = FALSE
  /\ digest' \in {"junk", digest}
  /\ UNCHANGED <<handle, quit, listen, image, callers, failed>>

(* The task closes the client's socket and loops.                           *)
EndSession ==
  /\ at = "finish"
  /\ at' = "loop"
  /\ UNCHANGED <<handle, quit, busy, listen, session, image, callers, failed>>

(* The end of tcp_ota_task: the socket, the request, then the handle.       *)
CloseAndLeave ==
  /\ at = "leave"
  /\ listen' = FALSE
  /\ at' = "clear"
  /\ UNCHANGED <<handle, quit, busy, session, image, callers, failed>>
ClearRequest ==
  /\ at = "clear"
  /\ quit' = FALSE
  /\ at' = "gone"
  /\ UNCHANGED <<handle, busy, listen, session, image, callers, failed>>
ClearHandle ==
  /\ at = "gone"
  /\ handle' = FALSE
  /\ at' = "none"
  /\ UNCHANGED <<quit, busy, listen, session, image, callers, failed>>

-----------------------------------------------------------------------------
(* handle_ota                                                               *)

frame == <<handle, quit, listen, callers, failed>>

Following == [magic |-> "version", version |-> "size", size |-> "md5", md5 |-> "begin"]

(* A header message of the expected length is taken and acknowledged; if    *)
(* the ACK cannot be sent, handle_ota returns with the flag still set.      *)
TakeHeader ==
  /\ at \in Header /\ ~closed
  /\ \/ sized' = (sized \/ at = "size")
     \/ at = "size" /\ UNCHANGED sized
  /\ digest' = IF at = "md5" THEN "whole" ELSE digest
  /\ at' \in {Following[at], "finish"}
  /\ UNCHANGED <<busy, closed, image, frame>>

(* Six bytes that are not the magic ones.                                   *)
WrongMagic ==
  /\ at = "magic" /\ ~closed
  /\ busy' = FALSE
  /\ at' = "finish"
  /\ UNCHANGED <<session, image, frame>>

(* A message of another length, or nothing more: the code goes on.          *)
SkipHeader ==
  /\ at \in Header
  /\ closed' \in {closed, TRUE}
  /\ at' = Following[at]
  /\ UNCHANGED <<busy, sized, digest, image, frame>>

(* esp_ota_begin erases the partition, or fails.                            *)
OtaBegin ==
  /\ at = "begin"
  /\ \/ content' = "part" /\ at' = "hash"
     \/ at' = "finish" /\ UNCHANGED content
  /\ UNCHANGED <<busy, session, selected, frame>>

HashSetup ==
  /\ at = "hash"
  /\ at' \in {"write", "finish"}
  /\ UNCHANGED <<busy, session, image, frame>>

(* One round of the write loop: a chunk, or the end of the data; the write  *)
(* may fail.  With firmware_size 0 the progress computation divides by 0,   *)
(* which some of the targets trap.                                          *)
WriteChunk ==
  /\ at = "write"
  /\ \/ /\ ~closed
        /\ content' \in {"part", "whole"}
        /\ at' \in {"write", "finish"}
        /\ UNCHANGED closed
     \/ /\ closed' = TRUE
        /\ at' \in {"ack", "finish"}
        /\ UNCHANGED content
     \/ /\ ~sized
        /\ at' = "restart"
        /\ UNCHANGED <<closed, content>>
  /\ UNCHANGED <<busy, sized, digest, selected, frame>>

(* The ACK that ends the protocol, or a failing send.                       *)
FinalAck ==
  /\ at = "ack"
  /\ at' \in {"verify", "finish"}
  /\ UNCHANGED <<busy, closed, sized, digest, image, frame>>

(* esp_ota_end, and the comparison of the digests.                          *)
Verify_NoCompare ==
  /\ at = "verify"
  /\ at' \in {"select", "finish"}
  /\ UNCHANGED <<busy, session, image, frame>>
Verify ==
  /\ at = "verify"
  /\ \/ at' = "select" /\ content = digest
     \/ at' = "finish"
  /\ UNCHANGED <<busy, session, image, frame>>

(* esp_ota_set_boot_partition; both ways the flag is cleared.               *)
SelectImage ==
  /\ at = "select"
  /\ busy' = FALSE
  /\ \/ selected' = TRUE /\ at' = "restart"
     \/ at' = "finish" /\ UNCHANGED selected
  /\ UNCHANGED <<session, content, frame>>

(* esp_safe_restart, or the panic of the division: everything starts anew,  *)
(* and what was the update partition may now be the running one.            *)
Restart ==
  /\ at = "restart"
  /\ handle' = FALSE /\ quit' = FALSE /\ busy' = FALSE /\ listen' = FALSE
  /\ at' = "none"
  /\ closed' = FALSE /\ sized' = FALSE
  /\ digest' = "junk"
  /\ content' = "old" /\ selected' = FALSE
  /\ pc' = [c \in Caller |-> "idle"] /\ over' = [c \in Caller |-> FALSE]
  /\ wanted' = FALSE /\ failed' = FALSE

-----------------------------------------------------------------------------

(* What the OTA task does without its client.                               *)
TaskStep == \/ OpenSocket \/ Loop \/ BeginSession \/ EndSession
            \/ CloseAndLeave \/ ClearRequest \/ ClearHandle
            \/ OtaBegin \/ HashSetup \/ FinalAck \/ Verify \/ SelectImage \/ Restart

(* What needs the client.                                                   *)
ClientStep == TakeHeader \/ WrongMagic \/ SkipHeader \/ WriteChunk

Next == \/ Start
        \/ \E c \in Caller : Stop(c) \/ CloseListen(c) \/ Count(c) \/ StopReturns(c)
        \/ OpenSocket \/ Loop \/ Accept \/ BeginSession \/ EndSession
        \/ CloseAndLeave \/ ClearRequest \/ ClearHandle
        \/ TakeHeader \/ WrongMagic \/ SkipHeader
        \/ OtaBegin \/ HashSetup \/ WriteChunk \/ FinalAck \/ Verify
        \/ SelectImage \/ Restart

Spec == Init /\ [][Next]_vars

(* The tasks run, the count of a waiting one included; a closed socket ends *)
(* accept.  Clients may stay silent.                                        *)
FairSpec ==
  Spec /\ WF_vars(TaskStep) /\ WF_vars(~listen /\ Accept)
       /\ \A c \in Caller : /\ WF_vars(CloseListen(c)) /\ WF_vars(Count(c))
                            /\ WF_vars(StopReturns(c))

(* In addition every client goes on, and closes its connection at the end.  *)
LivelyClientSpec ==
  FairSpec /\ WF_vars(ClientStep) /\ SF_vars(WriteChunk /\ at' # "write")

-----------------------------------------------------------------------------

(* There is a task exactly as long as there is a handle, so a service whose *)
(* task ended, for whatever reason, can be started again.                   *)
HandleMeansTask == TypeOK /\ (handle <=> at # "none")

(* Only a complete image whose digest a client announced is ever selected   *)
(* for booting: not a truncated one, and not one received after messages of *)
(* a wrong length, whatever md5_expected holds then.                        *)
OnlyWholeImageSelected == selected => content = "whole"

(* While nobody has started it again, a stop that returned left no task     *)
(* that writes an image or will ever take another client: what may be left  *)
(* is a task on its way out, or in the restart that an update ends with.    *)
Serving == {"socket", "accepted"} \cup Header \cup Update
StoppedMeansStopped ==
  (\A c \in Caller : pc[c] = "idle") /\ ~wanted =>
    /\ at \notin Serving
    /\ at = "accept" => ~listen
    /\ at \in {"loop", "finish"} => quit

(* tcp_ota_shutdown says that it waits for the task to clean up and to set  *)
(* the handle to NULL.  The count runs on during an update, so when that    *)
(* took longer than the limit and fails, the stop returns before the task   *)
(* has cleaned up; a successful one is followed by a restart, which takes   *)
(* longer than the limit.                                                   *)
StopWaitsForCleanup == (\A c \in Caller : pc[c] = "idle") /\ ~wanted => ~handle

(* Only the supervisor has ever stopped the service: there is no second     *)
(* task whose stop can meet a start.                                        *)
OnlySupervisorStops == \A c \in Caller \ {Supervisor} : pc[c] = "idle"

(* As long as the supervisor alone stops it and no stop has returned before *)
(* the task was gone, a service that was started serves until it is         *)
(* stopped, whatever its clients do: it ends by itself only when socket,    *)
(* bind or accept fails.  (In the other cases a start can find the handle   *)
(* of a task that is about to end, and starts nothing.)                     *)
StartedServes ==
  [](OnlySupervisorStops /\ StopWaitsForCleanup) => [](wanted /\ ~failed => handle /\ ~quit)

(* If the supervisor alone stops it, every stop returns as long as the      *)
(* clients go on: the in-progress flag that the error returns of handle_ota *)
(* leave set never blocks it.  (With two, the other may wait for the        *)
(* sessions of a task started meanwhile.)                                   *)
StopEnds == []OnlySupervisorStops => (pc[Supervisor] = "wait" ~> pc[Supervisor] = "idle")

=============================================================================
