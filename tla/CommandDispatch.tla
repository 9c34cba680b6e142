--------------------------- MODULE CommandDispatch ---------------------------
(***************************************************************************)
(* The command path of the supervisor: the command registry of cmnd.c, the *)
(* job queue between the tasks that submit commands and the supervisor     *)
(* task, and the adapter handling of supervisor.c that edits the registry. *)
(*                                                                         *)
(* The registry is an array without a lock.  The supervisor task (and the  *)
(* main task before it, in supervisor_platform_init) is its only writer;   *)
(* the MQTT command task, the HTTP server and the mesh callback read it in *)
(* cmnd_find.  A job carries a pointer into the array, not a copy of the   *)
(* entry, and cmnd_unregister moves the entries behind the removed one.    *)
(*                                                                         *)
(* An entry is written and read at the grain of one array element: the     *)
(* readers compare one word of it, command_id.  What a handler does is     *)
(* left out except where it edits the registry ("adapter") or restarts the *)
(* device ("restart", "resetconf").                                        *)
(*                                                                         *)
(* A definition Name_Fault, before the definition Name, is Name with a     *)
(* fault seeded; nothing uses it but the mutants of PROJECT.json.          *)
(***************************************************************************)
EXTENDS Naturals, Sequences, Functions

CONSTANTS
  Adapter,      \* the registered platform adapters
  Client,       \* tasks that submit commands: MQTT command task, HTTP server
  CoreCommands, \* sequence of the ids of core_commands, in the array's order
  AdapterCmd,   \* the id of the "adapter" command, one of CoreCommands
  RestartCmds,  \* the core commands whose handler restarts the device
  Group,        \* Group[a]: sequence of the ids adapter a registers
  BootOrder,    \* the adapters supervisor_platform_init initialises, in order
  MaxCommands,  \* CONFIG_SUPERVISOR_MAX_COMMANDS
  QueueLength,  \* CONFIG_SUPERVISOR_QUEUE_LENGTH
  NoCommand     \* content of an array element never written

Core == Range(CoreCommands)
Command == Core \cup UNION {Range(Group[a]) : a \in Adapter}
CoreCount == Len(CoreCommands)

ASSUME SizeAssumption ==
  /\ MaxCommands \in Nat /\ QueueLength \in Nat \ {0}
  /\ NoCommand \notin Command
ASSUME CoreAssumption ==
  /\ CoreCommands \in Seq(Core) /\ CoreCount \in Nat
  /\ CoreCount <= MaxCommands
  /\ IsInjective(CoreCommands)
  /\ AdapterCmd \in Core /\ RestartCmds \subseteq Core \ {AdapterCmd}
ASSUME GroupAssumption ==
  /\ \A a \in Adapter : Group[a] \in Seq(Command) /\ Range(Group[a]) \cap Core = {}
  /\ BootOrder \in Seq(Adapter)

(* What a client asks for: a command, and for "adapter" the name and state  *)
(* in its JSON arguments.  NoArgs stands for every other argument string.   *)
NoArgs == <<>>
Request == {[cmd |-> c, args |-> NoArgs] : c \in Command}
             \cup {[cmd |-> AdapterCmd, args |-> <<a, on>>] : a \in Adapter, on \in BOOLEAN}

(* command_job_t: the pointer into the registry and the request behind it.  *)
(* The program keeps the arguments only; req.cmd is what the client asked.  *)
Job == [slot : 1..MaxCommands, req : Request]

VARIABLES
  slots,    \* command_registry: the array, entries past count keep old values
  count,    \* command_count
  running,  \* adapters whose own "initialized" flag is set
  booting,  \* adapters supervisor_platform_init has still to initialise
  op,       \* registry edit under way: "none", "register" or "unregister"
  work,     \* command ids that edit has still to handle
  shift,    \* element being overwritten by cmnd_unregister, 0 if none
  queue,    \* supervisor_queue
  pc,       \* pc[c]: where client c is in cmnd_submit
  req,      \* req[c]: the request client c is submitting
  pos       \* pos[c]: loop index of cmnd_find, then the slot it found

regVars    == <<slots, count>>
editVars   == <<op, work, shift>>
clientVars == <<pc, req, pos>>
vars == <<slots, count, running, booting, op, work, shift, queue, pc, req, pos>>

TypeOK ==
  /\ slots \in [1..MaxCommands -> Command \cup {NoCommand}]
  /\ count \in 0..MaxCommands
  /\ running \in SUBSET Adapter
  /\ booting \in Seq(Adapter)
  /\ op \in {"none", "register", "unregister"}
  /\ work \in Seq(Command)
  /\ shift \in 0..MaxCommands
  /\ queue \in Seq(Job) /\ Len(queue) <= QueueLength
  /\ pc \in [Client -> {"idle", "find", "send"}]
  /\ req \in [Client -> Request]
  /\ pos \in [Client -> 1..(MaxCommands + 1)]

-----------------------------------------------------------------------------

Registered == {slots[i] : i \in 1..count}

(* supervisor_init: cmnd_init clears the array and core_commands is the     *)
(* first group registered, before any other task can look at it.            *)
InitRegistry ==
  /\ slots = [i \in 1..MaxCommands |->
                IF i <= CoreCount THEN CoreCommands[i] ELSE NoCommand]
  /\ count = CoreCount

Init ==
  /\ InitRegistry
  /\ running = {} /\ booting = BootOrder
  /\ op = "none" /\ work = <<>> /\ shift = 0
  /\ queue = <<>>
  /\ pc = [c \in Client |-> "idle"]
  /\ req = [c \in Client |-> [cmd |-> AdapterCmd, args |-> NoArgs]]
  /\ pos = [c \in Client |-> 1]

(* The registry edit that follows an adapter's init() or shutdown().        *)
StartEdit(kind, a) ==
  /\ op' = IF Group[a] = <<>> THEN "none" ELSE kind
  /\ work' = Group[a]
  /\ UNCHANGED shift

EditNext ==
  /\ work' = Tail(work)
  /\ op' = IF Tail(work) = <<>> THEN "none" ELSE op

(* supervisor_adapter_init: init() answers ESP_OK, an error, or             *)
(* ESP_ERR_INVALID_STATE when the adapter already runs; only ESP_OK         *)
(* registers the command group.                                             *)
AdapterInit(a) ==
  \/ /\ a \notin running
     /\ running' = running \cup {a}
     /\ StartEdit("register", a)
  \/ UNCHANGED <<running, editVars>>

(* supervisor_adapter_shutdown: only ESP_OK unregisters the group.          *)
AdapterShutdown_KeepsGroup(a) ==
  /\ running' = running \ {a}
  /\ UNCHANGED editVars
AdapterShutdown(a) ==
  \/ /\ a \in running
     /\ running' = running \ {a}
     /\ StartEdit("unregister", a)
  \/ /\ a \notin running
     /\ UNCHANGED <<running, editVars>>

(* One round of the adapter loop of supervisor_platform_init.               *)
BootAdapter ==
  /\ op = "none" /\ booting # <<>>
  /\ booting' = Tail(booting)
  /\ AdapterInit(Head(booting))
  /\ UNCHANGED <<regVars, queue, clientVars>>

(* One cmnd_register of cmnd_register_group: a full registry and an id      *)
(* already present are skipped, else the entry goes behind the last one.    *)
RegisterCommand_AtFront(c) ==
  /\ slots' = [i \in 1..MaxCommands |->
                 IF i = 1 THEN c ELSE IF i <= count + 1 THEN slots[i - 1] ELSE slots[i]]
  /\ count' = count + 1
RegisterCommand(c) ==
  IF count >= MaxCommands \/ c \in Registered
    THEN UNCHANGED regVars
    ELSE /\ slots' = [slots EXCEPT ![count + 1] = c]
         /\ count' = count + 1

RegisterNext ==
  /\ op = "register"
  /\ RegisterCommand(Head(work))
  /\ EditNext
  /\ UNCHANGED <<running, booting, shift, queue, clientVars>>

(* The search loop of cmnd_unregister.                                      *)
UnregisterNext ==
  /\ op = "unregister" /\ shift = 0
  /\ \/ \E i \in 1..count :
          /\ slots[i] = Head(work)
          /\ \A j \in 1..(i - 1) : slots[j] # Head(work)
          /\ shift' = i
          /\ UNCHANGED <<op, work>>
     \/ /\ Head(work) \notin Registered
        /\ EditNext
        /\ UNCHANGED shift
  /\ UNCHANGED <<regVars, running, booting, queue, clientVars>>

(* The shift loop of cmnd_unregister: one element copied down per step, and *)
(* command_count decremented once the last entry has been moved.            *)
ShiftEntry_DropsLast ==
  \/ /\ shift + 1 < count
     /\ slots' = [slots EXCEPT ![shift] = slots[shift + 1]]
     /\ shift' = shift + 1
     /\ UNCHANGED <<count, op, work>>
  \/ /\ shift + 1 >= count
     /\ count' = count - 1
     /\ shift' = 0
     /\ EditNext
     /\ UNCHANGED slots
ShiftEntry ==
  \/ /\ shift < count
     /\ slots' = [slots EXCEPT ![shift] = slots[shift + 1]]
     /\ shift' = shift + 1
     /\ UNCHANGED <<count, op, work>>
  \/ /\ shift >= count
     /\ count' = count - 1
     /\ shift' = 0
     /\ EditNext
     /\ UNCHANGED slots

Unshift ==
  /\ op = "unregister" /\ shift # 0
  /\ ShiftEntry
  /\ UNCHANGED <<running, booting, queue, clientVars>>

-----------------------------------------------------------------------------

(* supervisor_adapter_control_handler: the named adapter is switched on or  *)
(* off; arguments without name and state change nothing.                    *)
ControlAdapter(args) ==
  IF args = NoArgs THEN UNCHANGED <<running, editVars>>
  ELSE IF args[2] THEN AdapterInit(args[1]) ELSE AdapterShutdown(args[1])

(* esp_safe_restart from a handler: RAM is lost and the device boots again. *)
Reboot ==
  /\ slots' = [i \in 1..MaxCommands |->
                 IF i <= CoreCount THEN CoreCommands[i] ELSE NoCommand]
  /\ count' = CoreCount
  /\ running' = {} /\ booting' = BootOrder
  /\ op' = "none" /\ work' = <<>> /\ shift' = 0
  /\ queue' = <<>>
  /\ pc' = [c \in Client |-> "idle"]
  /\ UNCHANGED <<req, pos>>

(* The command half of one round of supervisor_task: receive a job, call    *)
(* the handler found behind its pointer now, free the job.                  *)
RunJob_Peeks ==
  /\ booting = <<>> /\ op = "none" /\ queue # <<>>
  /\ slots[Head(queue).slot] = AdapterCmd
  /\ ControlAdapter(Head(queue).req.args)
  /\ UNCHANGED <<regVars, booting, queue, clientVars>>
RunJob ==
  /\ booting = <<>> /\ op = "none" /\ queue # <<>>
  /\ LET job == Head(queue)
         cmd == slots[job.slot]
     IN \/ /\ cmd \in RestartCmds
           /\ Reboot
        \/ /\ cmd \notin RestartCmds
           /\ queue' = Tail(queue)
           /\ IF cmd = AdapterCmd THEN ControlAdapter(job.req.args)
                                  ELSE UNCHANGED <<running, editVars>>
           /\ UNCHANGED <<regVars, booting, clientVars>>

-----------------------------------------------------------------------------

(* cmnd_submit enters cmnd_find.                                            *)
StartSubmit(c) ==
  /\ pc[c] = "idle"
  /\ \E r \in Request : req' = [req EXCEPT ![c] = r]
  /\ pc' = [pc EXCEPT ![c] = "find"]
  /\ pos' = [pos EXCEPT ![c] = 1]
  /\ UNCHANGED <<regVars, running, booting, editVars, queue>>

(* One round of the loop of cmnd_find, and the return when it ends.         *)
FindEntry_SkipsFirst(c) ==
  /\ pos[c] <= count
  /\ pos' = [pos EXCEPT ![c] = @ + 1]
  /\ pc' = [pc EXCEPT ![c] = IF slots[pos[c]] = req[c].cmd /\ pos[c] # 1 THEN "send" ELSE "find"]
FindEntry(c) ==
  \/ /\ pos[c] <= count
     /\ slots[pos[c]] = req[c].cmd
     /\ pc' = [pc EXCEPT ![c] = "send"]
     /\ UNCHANGED pos
  \/ /\ pos[c] <= count
     /\ slots[pos[c]] # req[c].cmd
     /\ pos' = [pos EXCEPT ![c] = @ + 1]
     /\ UNCHANGED pc
  \/ /\ pos[c] > count            \* "Unknown command"
     /\ pc' = [pc EXCEPT ![c] = "idle"]
     /\ UNCHANGED pos

Find(c) ==
  /\ pc[c] = "find"
  /\ FindEntry(c)
  /\ UNCHANGED <<regVars, running, booting, editVars, queue, req>>

(* cmnd_enqueue_job: the job is queued, or freed when the queue stays full  *)
(* for 100 ms.                                                              *)
Send(c) ==
  /\ pc[c] = "send"
  /\ pc' = [pc EXCEPT ![c] = "idle"]
  /\ \/ /\ Len(queue) < QueueLength
        /\ queue' = Append(queue, [slot |-> pos[c], req |-> req[c]])
     \/ /\ Len(queue) >= QueueLength
        /\ UNCHANGED queue
  /\ UNCHANGED <<regVars, running, booting, editVars, req, pos>>

Supervisor == BootAdapter \/ RegisterNext \/ UnregisterNext \/ Unshift \/ RunJob
Submit(c) == Find(c) \/ Send(c)

Next ==
  \/ BootAdapter
  \/ RegisterNext
  \/ UnregisterNext
  \/ Unshift
  \/ RunJob
  \/ \E c \in Client : StartSubmit(c) \/ Find(c) \/ Send(c)

Spec == Init /\ [][Next]_vars

(* The supervisor task and the submitting tasks are FreeRTOS tasks that     *)
(* block only on the queue, so each keeps making progress; nothing obliges  *)
(* a client to submit.                                                      *)
FairSpec == Spec /\ WF_vars(Supervisor) /\ \A c \in Client : WF_vars(Submit(c))

-----------------------------------------------------------------------------
(* The state properties.                                                    *)

(* What a client holds between cmnd_find and xQueueSend, as a job.          *)
Pending(c) == [slot |-> pos[c], req |-> req[c]]
Jobs == Range(queue) \cup {Pending(c) : c \in {d \in Client : pc[d] = "send"}}

(* A job for a core command still points at that command when the           *)
(* supervisor comes to run it, however many adapters were shut down and     *)
(* started again in between: core_commands is registered first and nothing  *)
(* ever moves it.                                                           *)
CoreJobsRunOwnHandler ==
  \A j \in Jobs : j.req.cmd \in Core => slots[j.slot] = j.req.cmd

(* The move of entries never turns a job for an adapter's command into a    *)
(* core command: what was asked of a led or a switch cannot restart the     *)
(* device, reset its configuration or switch an adapter off.                *)
AdapterJobsStayOffCore ==
  \A j \in Jobs : j.req.cmd \notin Core => slots[j.slot] \notin Core

(* cmnd_find, run by a client while the supervisor task moves entries under *)
(* it, never misses a core command: the entry is still ahead of the loop.   *)
CoreNeverUnknown ==
  \A c \in Client :
    pc[c] = "find" /\ req[c].cmd \in Core
      => \E i \in pos[c]..count : slots[i] = req[c].cmd

(* Between two jobs the registry holds the core commands and commands of    *)
(* running adapters only, each once: an adapter that was shut down leaves   *)
(* no entry behind that could call into it.                                 *)
NoOrphanCommands ==
  op = "none" =>
    /\ Registered \subseteq Core \cup UNION {Range(Group[a]) : a \in running}
    /\ \A i, j \in 1..count : slots[i] = slots[j] => i = j

(* Between two jobs every command of every running adapter is registered,   *)
(* as long as all of them together fit the array and no two adapters share  *)
(* an id.                                                                   *)
RunningAdaptersRegistered ==
  op = "none" =>
    Core \cup UNION {Range(Group[a]) : a \in running} \subseteq Registered

(* A job still in the queue points at its own command while no adapter has  *)
(* been shut down: registering never moves an entry, whatever the order.    *)
RegisteringMovesNothing ==
  [][op = "register" => \A i \in 1..count : slots'[i] = slots[i]]_regVars

(* The description registered with every adapter command (led.c:374: "Set   *)
(* LED brightness (0-255)") says what it does: a command of a running       *)
(* adapter is carried out by its own handler.                               *)
AdapterJobsRunOwnHandler ==
  \A j \in Range(queue), a \in running :
    op = "none" /\ j.req.cmd \in Range(Group[a]) => slots[j.slot] = j.req.cmd

(* Once the clients fall silent, the supervisor works the queue off and     *)
(* finishes every registry edit the jobs started.                           *)
QueueDrains ==
  (<>[](\A c \in Client : pc[c] = "idle")) => <>[](queue = <<>> /\ op = "none")

-----------------------------------------------------------------------------
(* The inductive invariant behind the first three properties.               *)

(* The core commands occupy the first elements of the array for good, and   *)
(* no element behind them, in use or stale, ever holds one.                 *)
CoreInPlace ==
  /\ CoreCount <= count
  /\ \A i \in 1..MaxCommands :
       IF i <= CoreCount THEN slots[i] = CoreCommands[i] ELSE slots[i] \notin Core

(* A registry edit concerns an adapter's commands and has one in hand; the  *)
(* shift works on elements in use, behind the core commands.                *)
EditBehindCore ==
  /\ op = "none" <=> work = <<>>
  /\ \A k \in 1..Len(work) : work[k] \notin Core
  /\ shift # 0 => op = "unregister" /\ CoreCount < shift /\ shift <= count

(* A slot lies among the core commands exactly for a job that asked for one,*)
(* and is then that command's.                                              *)
Aligned(j) ==
  IF j.slot <= CoreCount THEN j.req.cmd = CoreCommands[j.slot] ELSE j.req.cmd \notin Core
JobsAligned ==
  /\ \A k \in 1..Len(queue) : Aligned(queue[k])
  /\ \A c \in Client : pc[c] = "send" => pos[c] <= MaxCommands /\ Aligned(Pending(c))

(* The loop of cmnd_find has not passed the core command it looks for.      *)
FindBeforeCore ==
  \A c \in Client : pc[c] = "find" /\ req[c].cmd \in Core =>
    \E i \in 1..CoreCount : pos[c] <= i /\ CoreCommands[i] = req[c].cmd

CoreInv == CoreInPlace /\ EditBehindCore /\ JobsAligned /\ FindBeforeCore

=============================================================================
