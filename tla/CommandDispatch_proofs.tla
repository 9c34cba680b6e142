------------------------ MODULE CommandDispatch_proofs ------------------------
(***************************************************************************)
(* Proofs about CommandDispatch, for any adapters, clients, core commands, *)
(* registry size and queue length: a job for a core command runs that      *)
(* command's handler, an adapter's job never runs a core command, and      *)
(* cmnd_find never misses a core command (from CoreInv: the core commands  *)
(* are registered first and stay in place); no adapter that was shut down  *)
(* leaves a command behind (RegistryInv); and, for a device whose commands *)
(* fit the array and whose adapters share none, those of a running adapter *)
(* are all there (CompleteInv).                                            *)
(***************************************************************************)
EXTENDS CommandDispatch, FiniteSets, FiniteSetTheorems, FunctionTheorems, TLAPS

USE SizeAssumption

(* What the proofs use of the constants.                                    *)
LEMMA CoreFacts ==
  /\ CoreCount \in Nat /\ 1 <= CoreCount /\ CoreCount <= MaxCommands
  /\ \A i \in 1..CoreCount : CoreCommands[i] \in Core
  /\ \A c \in Core : \E i \in 1..CoreCount : CoreCommands[i] = c
  /\ Core \subseteq Command
  /\ AdapterCmd \in Core /\ RestartCmds \subseteq Core
  /\ NoCommand \notin Core
<1>1. DOMAIN CoreCommands = 1..CoreCount
  BY CoreAssumption DEF CoreCount
<1>2. \A i \in 1..CoreCount : CoreCommands[i] \in Core
  BY <1>1 DEF Core, Range
<1>3. \A c \in Core : \E i \in 1..CoreCount : CoreCommands[i] = c
  BY <1>1 DEF Core, Range
<1>4. Core \subseteq Command
  BY DEF Command
<1>5. 1 <= CoreCount
  BY <1>3, CoreAssumption
<1>6. QED
  BY <1>2, <1>3, <1>4, <1>5, CoreAssumption

LEMMA GroupFacts ==
  ASSUME NEW a \in Adapter
  PROVE  /\ Group[a] \in Seq(Command)
         /\ \A k \in 1..Len(Group[a]) : Group[a][k] \notin Core
<1>1. Group[a] \in Seq(Command) /\ Range(Group[a]) \cap Core = {}
  BY GroupAssumption
<1>2. DOMAIN Group[a] = 1..Len(Group[a])
  BY <1>1
<1>3. QED
  BY <1>1, <1>2 DEF Range

LEMMA RequestFacts ==
  ASSUME NEW r \in Request
  PROVE  /\ r.cmd \in Command
         /\ r.args # NoArgs => r.args[1] \in Adapter
  BY CoreFacts DEF Request, NoArgs

-----------------------------------------------------------------------------

LEMMA InitInv == Init => TypeOK /\ CoreInv
<1> SUFFICES ASSUME Init PROVE TypeOK /\ CoreInv
  OBVIOUS
<1> USE CoreFacts
<1>1. TypeOK
  <2>1. [cmd |-> AdapterCmd, args |-> NoArgs] \in Request
    BY DEF Request
  <2>2. QED
    BY <2>1, GroupAssumption DEF Init, InitRegistry, TypeOK
<1>2. CoreInv
  BY DEF Init, InitRegistry, CoreInv, CoreInPlace, EditBehindCore, JobsAligned,
         FindBeforeCore
<1>3. QED
  BY <1>1, <1>2

(* An adapter's init() or shutdown() and the edit it starts keep the parts  *)
(* of the invariant that speak of the edit.                                 *)
LEMMA ControlKeeps ==
  ASSUME TypeOK, EditBehindCore, op = "none", NEW a \in Adapter,
         AdapterInit(a) \/ AdapterShutdown(a)
  PROVE  /\ running' \in SUBSET Adapter
         /\ op' \in {"none", "register", "unregister"}
         /\ work' \in Seq(Command) /\ shift' = 0
         /\ op' = "none" <=> work' = <<>>
         /\ \A k \in 1..Len(work') : work'[k] \notin Core
<1> USE GroupFacts DEF TypeOK, EditBehindCore
<1>1. CASE UNCHANGED <<running, editVars>>
  BY <1>1 DEF editVars
<1>2. CASE running' \in SUBSET Adapter /\ StartEdit("register", a)
  BY <1>2 DEF StartEdit
<1>3. CASE running' \in SUBSET Adapter /\ StartEdit("unregister", a)
  BY <1>3 DEF StartEdit
<1>4. QED
  BY <1>1, <1>2, <1>3 DEF AdapterInit, AdapterShutdown

(* Dropping the command in hand keeps the parts that speak of the edit.     *)
LEMMA EditNextKeeps ==
  ASSUME TypeOK, EditBehindCore, op # "none", EditNext
  PROVE  /\ op' \in {"none", "register", "unregister"}
         /\ work' \in Seq(Command)
         /\ op' = "none" <=> work' = <<>>
         /\ \A k \in 1..Len(work') : work'[k] \notin Core
         /\ Head(work) \in Command \ Core
<1>1. work # <<>> /\ work \in Seq(Command)
  BY DEF EditBehindCore, TypeOK
<1>2. /\ Tail(work) \in Seq(Command) /\ Len(Tail(work)) = Len(work) - 1
      /\ Head(work) = work[1] /\ Len(work) \in Nat \ {0} /\ work[1] \in Command
      /\ \A k \in 1..Len(Tail(work)) : Tail(work)[k] = work[k + 1]
  BY <1>1
<1>3. \A k \in 1..Len(Tail(work)) : k + 1 \in 1..Len(work)
  BY <1>2
<1>4. QED
  BY <1>1, <1>2, <1>3 DEF EditNext, EditBehindCore, TypeOK
-----------------------------------------------------------------------------
(* One lemma per action of the supervisor task and of the clients.          *)

LEMMA BootAdapterKeeps ==
  ASSUME TypeOK, CoreInv, BootAdapter
  PROVE  TypeOK' /\ CoreInv'
<1> USE CoreFacts
<1>1. booting \in Seq(Adapter) /\ booting # <<>>
  BY DEF BootAdapter, TypeOK
<1>2. Head(booting) \in Adapter /\ Tail(booting) \in Seq(Adapter)
  BY <1>1
<1>3. /\ running' \in SUBSET Adapter
      /\ op' \in {"none", "register", "unregister"}
      /\ work' \in Seq(Command) /\ shift' = 0
      /\ op' = "none" <=> work' = <<>>
      /\ \A k \in 1..Len(work') : work'[k] \notin Core
  BY <1>2, ControlKeeps DEF BootAdapter, CoreInv
<1>4. UNCHANGED <<slots, count, queue, pc, req, pos>> /\ booting' \in Seq(Adapter)
  BY <1>2 DEF BootAdapter, regVars, clientVars
<1>5. TypeOK'
  BY <1>3, <1>4 DEF TypeOK
<1>6. CoreInPlace' /\ EditBehindCore'
  BY <1>3, <1>4 DEF CoreInv, CoreInPlace, EditBehindCore
<1>7. JobsAligned' /\ FindBeforeCore'
  BY <1>4 DEF CoreInv, JobsAligned, FindBeforeCore, Aligned, Pending
<1>8. QED
  BY <1>5, <1>6, <1>7 DEF CoreInv

LEMMA RegisterKeeps ==
  ASSUME TypeOK, CoreInv, RegisterNext
  PROVE  TypeOK' /\ CoreInv'
<1> USE CoreFacts
<1>1. /\ op' \in {"none", "register", "unregister"}
      /\ work' \in Seq(Command)
      /\ op' = "none" <=> work' = <<>>
      /\ \A k \in 1..Len(work') : work'[k] \notin Core
      /\ Head(work) \in Command \ Core
  BY EditNextKeeps DEF RegisterNext, CoreInv
<1>2. UNCHANGED <<running, booting, shift, queue, pc, req, pos>>
  BY DEF RegisterNext, clientVars
<1>3. shift = 0
  BY DEF RegisterNext, CoreInv, EditBehindCore
<1>4. \/ UNCHANGED <<slots, count>>
      \/ /\ count < MaxCommands /\ count' = count + 1
         /\ slots' = [slots EXCEPT ![count + 1] = Head(work)]
  BY DEF RegisterNext, RegisterCommand, regVars, TypeOK
<1>5. TypeOK'
  <2>1. slots \in [1..MaxCommands -> Command \cup {NoCommand}] /\ count \in 0..MaxCommands
    BY DEF TypeOK
  <2>2. slots' \in [1..MaxCommands -> Command \cup {NoCommand}]
    BY <1>1, <1>4, <2>1
  <2>3. count' \in 0..MaxCommands
    BY <1>4, <2>1
  <2>4. QED
    BY <2>2, <2>3, <1>1, <1>2 DEF TypeOK
<1>6. CoreInPlace'
  <2>1. slots \in [1..MaxCommands -> Command \cup {NoCommand}] /\ count \in 0..MaxCommands
    BY DEF TypeOK
  <2>2. /\ CoreCount <= count
        /\ \A i \in 1..MaxCommands :
             IF i <= CoreCount THEN slots[i] = CoreCommands[i] ELSE slots[i] \notin Core
    BY DEF CoreInv, CoreInPlace
  <2>3. CASE UNCHANGED <<slots, count>>
    BY <2>2, <2>3 DEF CoreInPlace
  <2>4. CASE /\ count < MaxCommands /\ count' = count + 1
             /\ slots' = [slots EXCEPT ![count + 1] = Head(work)]
    <3>1. \A i \in 1..MaxCommands :
            slots'[i] = IF i = count + 1 THEN Head(work) ELSE slots[i]
      BY <2>1, <2>4
    <3>2. CoreCount <= count'
      BY <2>1, <2>2, <2>4
    <3>3. QED
      BY <2>1, <2>2, <3>1, <3>2, <1>1 DEF CoreInPlace
  <2>5. QED
    BY <2>3, <2>4, <1>4
<1>7. EditBehindCore'
  BY <1>1, <1>2, <1>3 DEF CoreInv, EditBehindCore
<1>8. JobsAligned' /\ FindBeforeCore'
  BY <1>2 DEF CoreInv, JobsAligned, FindBeforeCore, Aligned, Pending
<1>9. QED
  BY <1>5, <1>6, <1>7, <1>8 DEF CoreInv

LEMMA UnregisterKeeps ==
  ASSUME TypeOK, CoreInv, UnregisterNext
  PROVE  TypeOK' /\ CoreInv'
<1> USE CoreFacts
<1>1. UNCHANGED <<slots, count, running, booting, queue, pc, req, pos>>
  BY DEF UnregisterNext, regVars, clientVars
<1>2. JobsAligned' /\ FindBeforeCore' /\ CoreInPlace'
  BY <1>1 DEF CoreInv, CoreInPlace, JobsAligned, FindBeforeCore, Aligned, Pending
<1>3. ASSUME NEW i \in 1..count, slots[i] = Head(work), shift' = i, UNCHANGED <<op, work>>
      PROVE  TypeOK' /\ EditBehindCore'
  <2>1. Head(work) \notin Core
    BY DEF UnregisterNext, CoreInv, EditBehindCore, TypeOK
  <2>2. CoreCount < i /\ i <= count /\ i \in 1..MaxCommands
    BY <1>3, <2>1 DEF CoreInv, CoreInPlace, TypeOK
  <2>3. TypeOK'
    BY <1>1, <1>3, <2>2 DEF TypeOK
  <2>4. EditBehindCore'
    BY <1>1, <1>3, <2>2 DEF CoreInv, EditBehindCore, UnregisterNext
  <2>5. QED
    BY <2>3, <2>4
<1>4. ASSUME EditNext, UNCHANGED shift
      PROVE  TypeOK' /\ EditBehindCore'
  <2>1. /\ op' \in {"none", "register", "unregister"}
        /\ work' \in Seq(Command)
        /\ op' = "none" <=> work' = <<>>
        /\ \A k \in 1..Len(work') : work'[k] \notin Core
    BY <1>4, EditNextKeeps DEF UnregisterNext, CoreInv
  <2>2. TypeOK'
    BY <1>1, <1>4, <2>1 DEF TypeOK
  <2>3. EditBehindCore'
    BY <1>4, <2>1 DEF EditBehindCore, UnregisterNext
  <2>4. QED
    BY <2>2, <2>3
<1>5. QED
  BY <1>2, <1>3, <1>4 DEF UnregisterNext, CoreInv

LEMMA UnshiftKeeps ==
  ASSUME TypeOK, CoreInv, Unshift
  PROVE  TypeOK' /\ CoreInv'
<1> USE CoreFacts
<1>1. UNCHANGED <<running, booting, queue, pc, req, pos>>
  BY DEF Unshift, clientVars
<1>2. JobsAligned' /\ FindBeforeCore'
  BY <1>1 DEF CoreInv, JobsAligned, FindBeforeCore, Aligned, Pending
<1>3. op = "unregister" /\ CoreCount < shift /\ shift <= count
  BY DEF Unshift, CoreInv, EditBehindCore
<1>4. CASE shift < count
  <2>1. /\ slots' = [slots EXCEPT ![shift] = slots[shift + 1]]
        /\ shift' = shift + 1 /\ UNCHANGED <<count, op, work>>
    BY <1>4, <1>3 DEF Unshift, ShiftEntry, TypeOK
  <2>2. shift + 1 \in 1..MaxCommands /\ slots[shift + 1] \notin Core
    <3>1. shift + 1 \in 1..MaxCommands /\ ~(shift + 1 <= CoreCount)
      BY <1>3, <1>4 DEF TypeOK
    <3>2. QED
      BY <3>1 DEF CoreInv, CoreInPlace
  <2>3. TypeOK'
    BY <1>1, <1>3, <1>4, <2>1, <2>2 DEF TypeOK
  <2>4. CoreInPlace'
    BY <1>3, <2>1, <2>2 DEF CoreInv, CoreInPlace, TypeOK
  <2>5. EditBehindCore'
    BY <1>3, <1>4, <2>1 DEF CoreInv, EditBehindCore, TypeOK
  <2>6. QED
    BY <1>2, <2>3, <2>4, <2>5 DEF CoreInv
<1>5. CASE shift >= count
  <2>1. count' = count - 1 /\ shift' = 0 /\ EditNext /\ UNCHANGED slots
    BY <1>3, <1>5 DEF Unshift, ShiftEntry, TypeOK
  <2>2. /\ op' \in {"none", "register", "unregister"}
        /\ work' \in Seq(Command)
        /\ op' = "none" <=> work' = <<>>
        /\ \A k \in 1..Len(work') : work'[k] \notin Core
    BY <1>3, <2>1, EditNextKeeps DEF CoreInv
  <2>3. TypeOK'
    BY <1>1, <1>3, <2>1, <2>2 DEF TypeOK
  <2>4. CoreInPlace' /\ EditBehindCore'
    BY <1>3, <2>1, <2>2 DEF CoreInv, CoreInPlace, EditBehindCore, TypeOK
  <2>5. QED
    BY <1>2, <2>3, <2>4 DEF CoreInv
<1>6. shift < count \/ shift >= count
  <2>1. shift \in Nat /\ count \in Nat
    BY DEF TypeOK
  <2>2. QED
    BY <2>1
<1>7. QED
  BY <1>4, <1>5, <1>6

LEMMA RebootKeeps ==
  ASSUME TypeOK, Reboot
  PROVE  TypeOK' /\ CoreInv'
<1> USE CoreFacts
<1>1. TypeOK'
  BY GroupAssumption DEF Reboot, TypeOK
<1>2. CoreInv'
  BY DEF Reboot, CoreInv, CoreInPlace, EditBehindCore, JobsAligned, FindBeforeCore
<1>3. QED
  BY <1>1, <1>2

LEMMA RunJobKeeps ==
  ASSUME TypeOK, CoreInv, RunJob
  PROVE  TypeOK' /\ CoreInv'
<1> USE CoreFacts
<1> DEFINE job == Head(queue)
           cmd == slots[job.slot]
<1>1. /\ queue \in Seq(Job) /\ queue # <<>> /\ op = "none" /\ work = <<>> /\ shift = 0
  BY DEF RunJob, TypeOK, CoreInv, EditBehindCore
<1>2. job \in Job /\ Tail(queue) \in Seq(Job) /\ Len(Tail(queue)) = Len(queue) - 1
      /\ \A k \in 1..Len(Tail(queue)) :
           k + 1 \in 1..Len(queue) /\ Tail(queue)[k] = queue[k + 1]
  BY <1>1
<1>3. CASE cmd \in RestartCmds
  BY <1>3, RebootKeeps DEF RunJob
<1>4. CASE cmd \notin RestartCmds
  <2>1. /\ queue' = Tail(queue)
        /\ UNCHANGED <<slots, count, booting, pc, req, pos>>
    BY <1>4 DEF RunJob, Reboot, regVars, clientVars
  <2>2. \/ UNCHANGED <<running, editVars>>
        \/ \E a \in Adapter : AdapterInit(a) \/ AdapterShutdown(a)
    <3>1. CASE cmd # AdapterCmd
      BY <1>4, <3>1 DEF RunJob
    <3>2. CASE cmd = AdapterCmd
      <4>1. ControlAdapter(job.req.args)
        BY <1>4, <3>2 DEF RunJob
      <4>2. job.req \in Request
        BY <1>2 DEF Job
      <4>3. CASE job.req.args = NoArgs
        BY <4>1, <4>3 DEF ControlAdapter
      <4>4. CASE job.req.args # NoArgs
        BY <4>1, <4>2, <4>4, RequestFacts DEF ControlAdapter
      <4>5. QED
        BY <4>3, <4>4
    <3>3. QED
      BY <3>1, <3>2
  <2>3. /\ running' \in SUBSET Adapter
        /\ op' \in {"none", "register", "unregister"}
        /\ work' \in Seq(Command) /\ shift' = 0
        /\ op' = "none" <=> work' = <<>>
        /\ \A k \in 1..Len(work') : work'[k] \notin Core
    <3>1. CASE UNCHANGED <<running, editVars>>
      BY <1>1, <3>1 DEF editVars, TypeOK
    <3>2. CASE \E a \in Adapter : AdapterInit(a) \/ AdapterShutdown(a)
      BY <1>1, <3>2, ControlKeeps DEF CoreInv
    <3>3. QED
      BY <2>2, <3>1, <3>2
  <2>4. TypeOK'
    BY <1>2, <2>1, <2>3 DEF TypeOK
  <2>5. CoreInPlace' /\ EditBehindCore' /\ FindBeforeCore'
    BY <2>1, <2>3 DEF CoreInv, CoreInPlace, EditBehindCore, FindBeforeCore
  <2>6. JobsAligned'
    BY <1>2, <2>1 DEF CoreInv, JobsAligned, Aligned, Pending
  <2>7. QED
    BY <2>4, <2>5, <2>6 DEF CoreInv
<1>5. QED
  BY <1>3, <1>4

LEMMA StartSubmitKeeps ==
  ASSUME TypeOK, CoreInv, NEW c \in Client, StartSubmit(c)
  PROVE  TypeOK' /\ CoreInv'
<1> USE CoreFacts
<1>1. UNCHANGED <<slots, count, running, booting, op, work, shift, queue>>
  BY DEF StartSubmit, regVars, editVars
<1>2. PICK r \in Request : /\ req' = [req EXCEPT ![c] = r]
                           /\ pc' = [pc EXCEPT ![c] = "find"]
                           /\ pos' = [pos EXCEPT ![c] = 1]
  BY DEF StartSubmit
<1>3. TypeOK'
  BY <1>1, <1>2 DEF TypeOK
<1>4. CoreInPlace' /\ EditBehindCore'
  BY <1>1 DEF CoreInv, CoreInPlace, EditBehindCore
<1>5. JobsAligned'
  BY <1>1, <1>2 DEF CoreInv, JobsAligned, Aligned, Pending, TypeOK
<1>6. FindBeforeCore'
  <2> SUFFICES ASSUME NEW d \in Client, pc'[d] = "find", req'[d].cmd \in Core
               PROVE  \E i \in 1..CoreCount :
                        pos'[d] <= i /\ CoreCommands[i] = req'[d].cmd
    BY DEF FindBeforeCore
  <2>1. CASE d = c
    <3>1. pos'[d] = 1
      BY <1>2, <2>1 DEF TypeOK
    <3>2. PICK i \in 1..CoreCount : CoreCommands[i] = req'[d].cmd
      OBVIOUS
    <3>3. QED
      BY <3>1, <3>2
  <2>2. CASE d # c
    <3>1. pc'[d] = pc[d] /\ req'[d] = req[d] /\ pos'[d] = pos[d]
      BY <1>2, <2>2 DEF TypeOK
    <3>2. QED
      BY <3>1 DEF CoreInv, FindBeforeCore
  <2>3. QED
    BY <2>1, <2>2
<1>7. QED
  BY <1>3, <1>4, <1>5, <1>6 DEF CoreInv

LEMMA FindKeeps ==
  ASSUME TypeOK, CoreInv, NEW c \in Client, Find(c)
  PROVE  TypeOK' /\ CoreInv'
<1> USE CoreFacts
<1>1. UNCHANGED <<slots, count, running, booting, op, work, shift, queue, req>> /\ pc[c] = "find"
  BY DEF Find, regVars, editVars
<1>2. pos[c] \in 1..(MaxCommands + 1) /\ count \in 0..MaxCommands /\ c \in DOMAIN pc
  BY DEF TypeOK
<1>3. CoreInPlace' /\ EditBehindCore'
  BY <1>1 DEF CoreInv, CoreInPlace, EditBehindCore
<1>4. CASE /\ pos[c] <= count /\ slots[pos[c]] = req[c].cmd
           /\ pc' = [pc EXCEPT ![c] = "send"] /\ UNCHANGED pos
  <2>1. TypeOK'
    BY <1>1, <1>4 DEF TypeOK
  <2>2. pos[c] <= MaxCommands /\ Aligned(Pending(c))
    BY <1>2, <1>4 DEF CoreInv, CoreInPlace, Aligned, Pending
  <2>3. JobsAligned'
    BY <1>1, <1>4, <2>2 DEF CoreInv, JobsAligned, Aligned, Pending, TypeOK
  <2>4. FindBeforeCore'
    BY <1>1, <1>4 DEF CoreInv, FindBeforeCore, TypeOK
  <2>5. QED
    BY <1>3, <2>1, <2>3, <2>4 DEF CoreInv
<1>5. CASE /\ pos[c] <= count /\ slots[pos[c]] # req[c].cmd
           /\ pos' = [pos EXCEPT ![c] = @ + 1] /\ UNCHANGED pc
  <2>1. TypeOK'
    BY <1>1, <1>2, <1>5 DEF TypeOK
  <2>2. JobsAligned'
    BY <1>1, <1>5 DEF CoreInv, JobsAligned, Aligned, Pending, TypeOK
  <2>3. ASSUME NEW i \in 1..CoreCount, pos[c] <= i, CoreCommands[i] = req[c].cmd
        PROVE  pos[c] + 1 <= i
    BY <1>2, <1>5, <2>3 DEF CoreInv, CoreInPlace
  <2>4. FindBeforeCore'
    BY <1>1, <1>5, <2>3 DEF CoreInv, FindBeforeCore, TypeOK
  <2>5. QED
    BY <1>3, <2>1, <2>2, <2>4 DEF CoreInv
<1>6. CASE pc' = [pc EXCEPT ![c] = "idle"] /\ UNCHANGED pos
  <2>1. TypeOK'
    BY <1>1, <1>6 DEF TypeOK
  <2>2. JobsAligned' /\ FindBeforeCore'
    BY <1>1, <1>6 DEF CoreInv, JobsAligned, FindBeforeCore, Aligned, Pending, TypeOK
  <2>3. QED
    BY <1>3, <2>1, <2>2 DEF CoreInv
<1>7. QED
  BY <1>4, <1>5, <1>6 DEF Find, FindEntry

LEMMA SendKeeps ==
  ASSUME TypeOK, CoreInv, NEW c \in Client, Send(c)
  PROVE  TypeOK' /\ CoreInv'
<1> USE CoreFacts
<1> DEFINE job == Pending(c)
<1>1. /\ UNCHANGED <<slots, count, running, booting, op, work, shift, req, pos>>
      /\ pc[c] = "send" /\ pc' = [pc EXCEPT ![c] = "idle"]
      /\ \/ Len(queue) < QueueLength /\ queue' = Append(queue, job)
         \/ UNCHANGED queue
  BY DEF Send, regVars, editVars, Pending
<1>2. pos[c] <= MaxCommands /\ Aligned(job)
  BY <1>1 DEF CoreInv, JobsAligned
<1>3. job \in Job
  BY <1>2 DEF Pending, Job, TypeOK
<1>4. queue' \in Seq(Job) /\ Len(queue') <= QueueLength
  <2>1. queue \in Seq(Job) /\ Len(queue) <= QueueLength /\ Len(queue) \in Nat
    BY DEF TypeOK
  <2>2. Append(queue, job) \in Seq(Job) /\ Len(Append(queue, job)) = Len(queue) + 1
    BY <1>3, <2>1
  <2>3. QED
    BY <1>1, <2>1, <2>2
<1>5. TypeOK'
  BY <1>1, <1>4 DEF TypeOK
<1>6. CoreInPlace' /\ EditBehindCore' /\ FindBeforeCore'
  BY <1>1 DEF CoreInv, CoreInPlace, EditBehindCore, FindBeforeCore, TypeOK
<1>7. \A k \in 1..Len(queue') : Aligned(queue'[k])
  <2>1. \A k \in 1..Len(queue) : Aligned(queue[k])
    BY DEF CoreInv, JobsAligned
  <2>2. CASE queue' = Append(queue, job)
    <3>1. queue \in Seq(Job)
      BY DEF TypeOK
    <3>2. /\ Len(queue') = Len(queue) + 1 /\ queue'[Len(queue) + 1] = job
          /\ \A k \in 1..Len(queue) : queue'[k] = queue[k]
      BY <2>2, <3>1, <1>3
    <3>3. QED
      BY <2>1, <3>1, <3>2, <1>2
  <2>3. CASE UNCHANGED queue
    BY <2>1, <2>3
  <2>4. QED
    BY <1>1, <2>2, <2>3
<1>8. JobsAligned'
  BY <1>1, <1>7 DEF CoreInv, JobsAligned, Aligned, Pending, TypeOK
<1>9. QED
  BY <1>5, <1>6, <1>8 DEF CoreInv

-----------------------------------------------------------------------------

(* Whatever the tasks do and in whatever order, the core commands stay in   *)
(* place and every job stays on its side of them.                           *)
THEOREM CoreInvariant == Spec => [](TypeOK /\ CoreInv)
<1>1. TypeOK /\ CoreInv /\ [Next]_vars => (TypeOK /\ CoreInv)'
  <2> SUFFICES ASSUME TypeOK, CoreInv, [Next]_vars
               PROVE  TypeOK' /\ CoreInv'
    OBVIOUS
  <2>1. CASE UNCHANGED vars
    BY <2>1 DEF vars, TypeOK, CoreInv, CoreInPlace, EditBehindCore, JobsAligned,
                FindBeforeCore, Aligned, Pending
  <2>2. CASE \E c \in Client : StartSubmit(c) \/ Find(c) \/ Send(c)
    BY <2>2, StartSubmitKeeps, FindKeeps, SendKeeps
  <2>3. QED
    BY <2>1, <2>2, BootAdapterKeeps, RegisterKeeps, UnregisterKeeps, UnshiftKeeps,
       RunJobKeeps DEF Next
<1>2. QED
  BY <1>1, InitInv, PTL DEF Spec

(* The members of Jobs are the queued jobs and those about to be sent.      *)
LEMMA JobsAreAligned ==
  ASSUME TypeOK, JobsAligned, NEW j \in Jobs
  PROVE  Aligned(j) /\ j.slot \in 1..MaxCommands
<1>1. CASE j \in Range(queue)
  <2>1. PICK k \in 1..Len(queue) : j = queue[k]
    BY <1>1 DEF Range, TypeOK
  <2>2. queue[k] \in Job
    BY DEF TypeOK
  <2>3. QED
    BY <2>1, <2>2 DEF JobsAligned, Job
<1>2. CASE \E c \in Client : pc[c] = "send" /\ j = Pending(c)
  BY <1>2 DEF JobsAligned, Pending, TypeOK
<1>3. QED
  BY <1>1, <1>2 DEF Jobs

(* A job for a core command runs that command's handler.                    *)
THEOREM CoreJobsRight == Spec => []CoreJobsRunOwnHandler
<1>1. TypeOK /\ CoreInv => CoreJobsRunOwnHandler
  BY JobsAreAligned, CoreFacts DEF CoreInv, CoreInPlace, CoreJobsRunOwnHandler, Aligned
<1>2. QED
  BY <1>1, CoreInvariant, PTL

(* A job for an adapter's command never runs a core command.                *)
THEOREM AdapterJobsHarmless == Spec => []AdapterJobsStayOffCore
<1>1. TypeOK /\ CoreInv => AdapterJobsStayOffCore
  BY JobsAreAligned, CoreFacts DEF CoreInv, CoreInPlace, AdapterJobsStayOffCore, Aligned
<1>2. QED
  BY <1>1, CoreInvariant, PTL

(* cmnd_find never misses a core command while the array moves under it.    *)
THEOREM CoreFound == Spec => []CoreNeverUnknown
<1>1. TypeOK /\ CoreInv => CoreNeverUnknown
  BY CoreFacts DEF CoreInv, CoreInPlace, FindBeforeCore, CoreNeverUnknown, TypeOK
<1>2. QED
  BY <1>1, CoreInvariant, PTL

(* Registering an adapter's commands never moves an entry in use.           *)
THEOREM RegisteringStable == Spec => RegisteringMovesNothing
<1>1. TypeOK /\ [Next]_vars =>
        [op = "register" => \A i \in 1..count : slots'[i] = slots[i]]_regVars
  <2> SUFFICES ASSUME TypeOK, [Next]_vars, op = "register"
               PROVE  \A i \in 1..count : slots'[i] = slots[i]
    BY DEF regVars
  <2>1. CASE RegisterNext
    BY <2>1 DEF RegisterNext, RegisterCommand, regVars, TypeOK
  <2>2. CASE \E c \in Client : StartSubmit(c) \/ Find(c) \/ Send(c)
    BY <2>2 DEF StartSubmit, Find, Send, regVars
  <2>3. CASE UNCHANGED vars
    BY <2>3 DEF vars
  <2>4. QED
    BY <2>1, <2>2, <2>3 DEF Next, BootAdapter, UnregisterNext, Unshift, RunJob
<1>2. QED
  BY <1>1, CoreInvariant, PTL DEF Spec, RegisteringMovesNothing

-----------------------------------------------------------------------------
(* What the registry holds.  While cmnd_unregister moves entries, element    *)
(* shift is the one being given up: it holds the command to be removed, and  *)
(* later a second copy of an entry that has been moved.                      *)

Commands(A) == UNION {Range(Group[a]) : a \in A}
Allowed == Core \cup Commands(running)
Entries == (1..count) \ {shift}

(* The commands an unregistration has still to remove from Entries.          *)
IsLeaving(c) ==
  op = "unregister" /\ \E k \in 1..Len(work) : work[k] = c /\ (shift = 0 \/ k > 1)

(* No entry is there twice; each belongs to the core, to a running adapter,  *)
(* or is about to leave; and what is being registered is a running adapter's.*)
EntriesOnce == \A i, j \in Entries : slots[i] = slots[j] => i = j
EntriesAllowed == \A i \in Entries : slots[i] \in Allowed \/ IsLeaving(slots[i])
RegistersAllowed == op = "register" => \A k \in 1..Len(work) : work[k] \in Allowed
RegistryInv == EntriesOnce /\ EntriesAllowed /\ RegistersAllowed

(* The commands of a set of adapters grow with it.                           *)
LEMMA CommandsFacts ==
  /\ \A A : \A a \in A : Range(Group[a]) \subseteq Commands(A)
  /\ \A A, B : A \subseteq B => Commands(A) \subseteq Commands(B)
  /\ \A A, a : Commands(A) \subseteq Commands(A \ {a}) \cup Range(Group[a])
  /\ \A A : A \subseteq Adapter => Core \cup Commands(A) \subseteq Command
  BY DEF Commands, Command

(* A group, as a list and as a set.                                          *)
LEMMA GroupRange ==
  ASSUME NEW a \in Adapter
  PROVE  Range(Group[a]) = {Group[a][k] : k \in 1..Len(Group[a])}
<1>1. Group[a] \in Seq(Command)
  BY GroupFacts
<1> QED BY <1>1 DEF Range

(* Dropping the command in hand leaves the others, in their order.           *)
LEMMA TailFacts ==
  ASSUME TypeOK, work # <<>>
  PROVE  /\ Len(work) \in Nat \ {0} /\ Head(work) = work[1] /\ Head(work) \in Command
         /\ Tail(work) \in Seq(Command) /\ Len(Tail(work)) = Len(work) - 1
         /\ \A k \in 1..Len(Tail(work)) :
              k + 1 \in 1..Len(work) /\ Tail(work)[k] = work[k + 1]
         /\ \A k \in 2..Len(work) :
              k - 1 \in 1..Len(Tail(work)) /\ work[k] = Tail(work)[k - 1]
<1>1. work \in Seq(Command)
  BY DEF TypeOK
<1> QED BY <1>1

(* A registry with the core commands alone, as after a start.                *)
FreshRegistry ==
  /\ slots = [i \in 1..MaxCommands |-> IF i <= CoreCount THEN CoreCommands[i] ELSE NoCommand]
  /\ count = CoreCount /\ op = "none" /\ work = <<>> /\ shift = 0 /\ running = {}

LEMMA FreshRegistryInv == FreshRegistry => RegistryInv
<1> SUFFICES ASSUME FreshRegistry PROVE RegistryInv
  OBVIOUS
<1>1. Entries = 1..CoreCount /\ \A i \in Entries : slots[i] = CoreCommands[i]
  BY CoreFacts DEF FreshRegistry, Entries
<1>2. \A i, j \in 1..CoreCount : CoreCommands[i] = CoreCommands[j] => i = j
  BY CoreAssumption DEF IsInjective, CoreCount
<1>3. EntriesOnce
  BY <1>1, <1>2 DEF EntriesOnce
<1>4. EntriesAllowed
  BY <1>1, CoreFacts DEF EntriesAllowed, Allowed
<1>5. RegistersAllowed
  BY DEF RegistersAllowed, FreshRegistry
<1> QED BY <1>3, <1>4, <1>5 DEF RegistryInv

LEMMA ControlKeepsRegistry ==
  ASSUME TypeOK, CoreInv, RegistryInv, op = "none", UNCHANGED regVars, NEW a \in Adapter,
         AdapterInit(a) \/ AdapterShutdown(a)
  PROVE  RegistryInv'
<1> USE DEF RegistryInv, Allowed
<1>1. work = <<>> /\ shift = 0 /\ UNCHANGED <<slots, count>> /\ shift' = 0
  BY DEF CoreInv, EditBehindCore, regVars, AdapterInit, AdapterShutdown, StartEdit, editVars
<1>2. EntriesOnce'
  BY <1>1 DEF EntriesOnce, Entries
<1>3. \A i \in Entries' : slots[i] \in Core \cup Commands(running)
  BY <1>1 DEF EntriesAllowed, Entries, IsLeaving
<1>4. CASE UNCHANGED <<running, editVars>>
  BY <1>1, <1>2, <1>3, <1>4 DEF EntriesAllowed, RegistersAllowed, Entries, IsLeaving, editVars
<1>5. CASE running' = running \cup {a} /\ StartEdit("register", a)
  <2>1. Commands(running) \subseteq Commands(running') /\ Range(Group[a]) \subseteq Commands(running')
    BY <1>5, CommandsFacts
  <2>2. work' = Group[a]
    BY <1>5 DEF StartEdit
  <2> QED
    BY <1>1, <1>2, <1>3, <2>1, <2>2, GroupRange
    DEF EntriesAllowed, RegistersAllowed, Entries
<1>6. CASE running' = running \ {a} /\ StartEdit("unregister", a)
  <2>1. Commands(running) \subseteq Commands(running') \cup Range(Group[a])
    BY <1>6, CommandsFacts
  <2>2. work' = Group[a] /\ (op' = "unregister" \/ Group[a] = <<>>) /\ op' # "register"
    BY <1>6 DEF StartEdit
  <2>3. \A c \in Range(Group[a]) : IsLeaving(c)'
    <3> SUFFICES ASSUME NEW c \in Range(Group[a]) PROVE IsLeaving(c)'
      OBVIOUS
    <3>1. PICK k \in 1..Len(Group[a]) : Group[a][k] = c
      BY GroupRange
    <3>2. op' = "unregister"
      BY <2>2, <3>1
    <3> QED BY <1>1, <2>2, <3>1, <3>2 DEF IsLeaving
  <2> QED
    BY <1>1, <1>2, <1>3, <2>1, <2>2, <2>3 DEF EntriesAllowed, RegistersAllowed
<1> QED BY <1>4, <1>5, <1>6 DEF AdapterInit, AdapterShutdown

LEMMA RegisterKeepsRegistry ==
  ASSUME TypeOK, CoreInv, RegistryInv, RegisterNext
  PROVE  RegistryInv'
<1> USE DEF RegistryInv, Allowed
<1>1. /\ op = "register" /\ shift = 0 /\ shift' = 0 /\ running' = running /\ work # <<>>
      /\ work' = Tail(work) /\ op' \in {"none", "register"}
      /\ count \in 0..MaxCommands
  BY DEF RegisterNext, CoreInv, EditBehindCore, EditNext, TypeOK
<1>2. RegistersAllowed'
  BY <1>1, TailFacts DEF RegistersAllowed
<1>3. \A i \in 1..count : slots[i] \in Core \cup Commands(running)
  BY <1>1 DEF EntriesAllowed, Entries, IsLeaving
<1>4. Head(work) \in Core \cup Commands(running)
  BY <1>1, TailFacts DEF RegistersAllowed
<1>5. CASE UNCHANGED regVars
  BY <1>1, <1>2, <1>3, <1>5 DEF EntriesOnce, EntriesAllowed, Entries, regVars
<1>6. CASE /\ count < MaxCommands /\ Head(work) \notin Registered
           /\ slots' = [slots EXCEPT ![count + 1] = Head(work)]
           /\ count' = count + 1
  <2>1. /\ slots'[count + 1] = Head(work) /\ \A i \in 1..count : slots'[i] = slots[i]
        /\ \A i \in 1..count : slots[i] # Head(work)
    BY <1>1, <1>6 DEF TypeOK, Registered
  <2>2. EntriesOnce'
    BY <1>1, <1>6, <2>1 DEF EntriesOnce, Entries
  <2>3. EntriesAllowed'
    BY <1>1, <1>3, <1>4, <1>6, <2>1 DEF EntriesAllowed, Entries
  <2> QED BY <1>2, <2>2, <2>3
<1> QED
  BY <1>1, <1>5, <1>6 DEF RegisterNext, RegisterCommand

LEMMA UnregisterKeepsRegistry ==
  ASSUME TypeOK, CoreInv, RegistryInv, UnregisterNext
  PROVE  RegistryInv'
<1> USE DEF RegistryInv, Allowed
<1>1. /\ op = "unregister" /\ shift = 0 /\ UNCHANGED <<slots, count, running>> /\ work # <<>>
  BY DEF UnregisterNext, CoreInv, EditBehindCore, regVars
<1>2. \A c : IsLeaving(c) => c = Head(work) \/ \E k \in 2..Len(work) : work[k] = c
  BY <1>1, TailFacts DEF IsLeaving
<1>3. ASSUME NEW i \in 1..count, slots[i] = Head(work), shift' = i, UNCHANGED <<op, work>>
      PROVE  RegistryInv'
  <2>1. \A c : (\E k \in 2..Len(work) : work[k] = c) => IsLeaving(c)'
    BY <1>1, <1>3, TailFacts DEF IsLeaving
  <2>2. EntriesAllowed'
    BY <1>1, <1>2, <1>3, <2>1, TailFacts DEF EntriesAllowed, EntriesOnce, Entries, TypeOK
  <2> QED
    BY <1>1, <1>3, <2>2 DEF EntriesOnce, Entries, RegistersAllowed
<1>4. ASSUME Head(work) \notin Registered, EditNext, UNCHANGED shift
      PROVE  RegistryInv'
  <2>1. work' = Tail(work) /\ (op' = "unregister" \/ Tail(work) = <<>>) /\ op' # "register"
    BY <1>1, <1>4 DEF EditNext
  <2>2. \A c : (\E k \in 2..Len(work) : work[k] = c) => IsLeaving(c)'
    <3> SUFFICES ASSUME NEW c, NEW k \in 2..Len(work), work[k] = c PROVE IsLeaving(c)'
      OBVIOUS
    <3>1. k - 1 \in 1..Len(work') /\ work'[k - 1] = c
      BY <1>1, <2>1, TailFacts
    <3>2. work' # <<>>
      BY <3>1
    <3>3. op' = "unregister" /\ shift' = 0
      BY <1>1, <1>4, <2>1, <3>2
    <3> QED BY <3>1, <3>3 DEF IsLeaving
  <2>3. \A i \in 1..count : slots[i] # Head(work)
    BY <1>4 DEF Registered
  <2> QED
    BY <1>1, <1>2, <1>4, <2>1, <2>2, <2>3
    DEF EntriesOnce, EntriesAllowed, Entries, RegistersAllowed
<1> QED BY <1>3, <1>4 DEF UnregisterNext

LEMMA UnshiftKeepsRegistry ==
  ASSUME TypeOK, CoreInv, RegistryInv, Unshift
  PROVE  RegistryInv'
<1> USE DEF RegistryInv, Allowed
<1>1. /\ op = "unregister" /\ running' = running /\ work # <<>>
      /\ shift \in 1..count /\ count \in 0..MaxCommands
  BY DEF Unshift, CoreInv, EditBehindCore, TypeOK
<1>2. \A c : IsLeaving(c) <=> \E k \in 2..Len(work) : work[k] = c
  BY <1>1, TailFacts DEF IsLeaving
<1>3. CASE shift < count
  <2>1. /\ slots' = [slots EXCEPT ![shift] = slots[shift + 1]]
        /\ shift' = shift + 1 /\ UNCHANGED <<count, op, work>>
    BY <1>3, <1>1 DEF Unshift, ShiftEntry
  <2>2. /\ slots'[shift] = slots[shift + 1] /\ shift \in Entries' /\ shift + 1 \in Entries
        /\ \A i \in Entries' \ {shift} : slots'[i] = slots[i] /\ i \in Entries /\ i # shift + 1
    BY <1>1, <1>3, <2>1 DEF Entries, TypeOK
  <2>3. \A c : IsLeaving(c)' <=> IsLeaving(c)
    BY <1>1, <2>1 DEF IsLeaving
  <2> QED
    BY <1>1, <2>1, <2>2, <2>3 DEF EntriesOnce, EntriesAllowed, RegistersAllowed
<1>4. CASE shift >= count
  <2>1. /\ count' = count - 1 /\ shift' = 0 /\ EditNext /\ UNCHANGED slots
    BY <1>4, <1>1 DEF Unshift, ShiftEntry
  <2>2. Entries' = Entries
    BY <1>1, <1>4, <2>1 DEF Entries
  <2>3. work' = Tail(work) /\ (op' = "unregister" \/ Tail(work) = <<>>) /\ op' # "register"
    BY <1>1, <2>1 DEF EditNext
  <2>4. \A c : IsLeaving(c) => IsLeaving(c)'
    <3> SUFFICES ASSUME NEW c, IsLeaving(c) PROVE IsLeaving(c)'
      OBVIOUS
    <3>1. PICK k \in 2..Len(work) : work[k] = c
      BY <1>2
    <3>2. k - 1 \in 1..Len(work') /\ work'[k - 1] = c
      BY <1>1, <2>3, <3>1, TailFacts
    <3>3. op' = "unregister" /\ shift' = 0
      BY <2>1, <2>3, <3>2
    <3> QED BY <3>2, <3>3 DEF IsLeaving
  <2> QED
    BY <1>1, <2>1, <2>2, <2>3, <2>4 DEF EntriesOnce, EntriesAllowed, RegistersAllowed
<1> QED BY <1>1, <1>3, <1>4

(* Only the supervisor's registry edits and the starts and stops of adapters *)
(* touch what the registry invariants speak of.                              *)
registryVars == <<regVars, running, editVars>>
LEMMA NextOnRegistry ==
  ASSUME TypeOK, CoreInv, [Next]_vars
  PROVE  \/ op = "none" /\ UNCHANGED regVars
            /\ \E a \in Adapter : AdapterInit(a) \/ AdapterShutdown(a)
         \/ RegisterNext \/ UnregisterNext \/ Unshift \/ Reboot
         \/ UNCHANGED registryVars
<1>1. CASE BootAdapter
  <2>1. booting \in Seq(Adapter) /\ booting # <<>>
    BY <1>1 DEF BootAdapter, TypeOK
  <2> QED BY <1>1, <2>1 DEF BootAdapter
<1>2. CASE RunJob
  <2> DEFINE job == Head(queue)
  <2>1. queue \in Seq(Job) /\ queue # <<>> /\ op = "none"
    BY <1>2 DEF RunJob, TypeOK
  <2>2. job \in Job
    BY <2>1
  <2>3. CASE Reboot
    BY <2>3
  <2>4. CASE ControlAdapter(job.req.args) /\ UNCHANGED regVars
    BY <2>1, <2>2, <2>4, RequestFacts DEF Job, ControlAdapter, registryVars
  <2>5. CASE UNCHANGED <<running, editVars>> /\ UNCHANGED regVars
    BY <2>5 DEF registryVars
  <2> QED BY <1>2, <2>3, <2>4, <2>5 DEF RunJob
<1>3. CASE \E c \in Client : StartSubmit(c) \/ Find(c) \/ Send(c)
  BY <1>3 DEF StartSubmit, Find, Send, registryVars
<1>4. CASE UNCHANGED vars
  BY <1>4 DEF vars, registryVars, regVars, editVars
<1> QED BY <1>1, <1>2, <1>3, <1>4 DEF Next

(* The registry never holds an entry twice, nor one of an adapter that is    *)
(* neither running nor being unregistered.                                   *)
THEOREM RegistryInvariant == Spec => []RegistryInv
<1>1. TypeOK /\ CoreInv /\ RegistryInv /\ [Next]_vars => RegistryInv'
  <2> SUFFICES ASSUME TypeOK, CoreInv, RegistryInv, [Next]_vars PROVE RegistryInv'
    OBVIOUS
  <2>1. CASE Reboot
    <3>1. FreshRegistry'
      BY <2>1 DEF Reboot, FreshRegistry
    <3>2. FreshRegistry' => RegistryInv'
      BY FreshRegistryInv, PTL
    <3> QED BY <3>1, <3>2
  <2>2. CASE UNCHANGED registryVars
    BY <2>2 DEF registryVars, regVars, editVars, RegistryInv, EntriesOnce, EntriesAllowed,
                RegistersAllowed, Entries, Allowed, IsLeaving
  <2> QED
    BY <2>1, <2>2, NextOnRegistry, ControlKeepsRegistry, RegisterKeepsRegistry,
       UnregisterKeepsRegistry, UnshiftKeepsRegistry
<1>2. Init => RegistryInv
  BY FreshRegistryInv DEF Init, InitRegistry, FreshRegistry
<1> QED BY <1>1, <1>2, CoreInvariant, PTL DEF Spec

(* Between two jobs the registry holds, each once, commands of the core and  *)
(* of running adapters only.                                                 *)
THEOREM NoOrphans == Spec => []NoOrphanCommands
<1>1. CoreInv /\ RegistryInv => NoOrphanCommands
  <2> SUFFICES ASSUME CoreInv, RegistryInv, op = "none"
               PROVE  /\ Registered \subseteq Core \cup UNION {Range(Group[a]) : a \in running}
                      /\ \A i, j \in 1..count : slots[i] = slots[j] => i = j
    BY DEF NoOrphanCommands
  <2>1. work = <<>> /\ shift = 0
    BY DEF CoreInv, EditBehindCore
  <2>2. Entries = 1..count /\ \A c : ~IsLeaving(c)
    BY <2>1 DEF Entries, IsLeaving
  <2> QED
    BY <2>2 DEF RegistryInv, EntriesOnce, EntriesAllowed, Allowed, Commands, Registered
<1> QED BY <1>1, CoreInvariant, RegistryInvariant, PTL

-----------------------------------------------------------------------------
(* Completeness of the registry, for a device whose commands all fit the     *)
(* array and none of whose adapters share a command id.  Where two adapters  *)
(* do (the "sntp" of inet.c and of inet_ethernet.c), shutting one down takes *)
(* the id away from the other.                                               *)

CommandsFit == IsFiniteSet(Command) /\ Cardinality(Command) <= MaxCommands
GroupsDisjoint ==
  \A a, b \in Adapter : a # b => Range(Group[a]) \cap Range(Group[b]) = {}

Registering(c) == op = "register" /\ \E k \in 1..Len(work) : work[k] = c

(* Every command of the core and of a running adapter has its entry or is    *)
(* about to get it, and none of them is being removed.                       *)
AllHaveEntries == \A c \in Allowed : (\E i \in Entries : slots[i] = c) \/ Registering(c)
NoneIsLeaving == op = "unregister" => \A k \in 1..Len(work) : work[k] \notin Allowed
CompleteInv == AllHaveEntries /\ NoneIsLeaving

LEMMA FreshComplete == FreshRegistry => CompleteInv
<1> SUFFICES ASSUME FreshRegistry PROVE CompleteInv
  OBVIOUS
<1>1. /\ Entries = 1..CoreCount /\ Allowed = Core /\ op = "none"
      /\ \A i \in Entries : slots[i] = CoreCommands[i]
  BY CoreFacts DEF FreshRegistry, Entries, Allowed, Commands
<1> QED BY <1>1, CoreFacts DEF CompleteInv, AllHaveEntries, NoneIsLeaving

LEMMA ControlKeepsComplete ==
  ASSUME GroupsDisjoint, TypeOK, CoreInv, CompleteInv, op = "none", UNCHANGED regVars,
         NEW a \in Adapter, AdapterInit(a) \/ AdapterShutdown(a)
  PROVE  CompleteInv'
<1>1. shift = 0 /\ Entries' = Entries /\ UNCHANGED slots
  BY DEF CoreInv, EditBehindCore, regVars, AdapterInit, AdapterShutdown, StartEdit,
         editVars, Entries
<1>2. \A c \in Allowed : \E i \in Entries' : slots'[i] = c
  BY <1>1 DEF CompleteInv, AllHaveEntries, Registering
<1>3. CASE UNCHANGED <<running, editVars>>
  <2>1. Allowed' = Allowed /\ op' = "none"
    BY <1>3 DEF Allowed, editVars
  <2> QED BY <1>2, <2>1 DEF CompleteInv, AllHaveEntries, NoneIsLeaving
<1>4. CASE running' = running \cup {a} /\ StartEdit("register", a)
  <2>1. Allowed' = Allowed \cup Range(Group[a])
    BY <1>4 DEF Allowed, Commands
  <2>2. work' = Group[a] /\ (op' = "register" \/ Group[a] = <<>>) /\ op' # "unregister"
    BY <1>4 DEF StartEdit
  <2>3. \A c \in Range(Group[a]) : Registering(c)'
    <3> SUFFICES ASSUME NEW c \in Range(Group[a]) PROVE Registering(c)'
      OBVIOUS
    <3>1. PICK k \in 1..Len(Group[a]) : Group[a][k] = c
      BY GroupRange
    <3>2. op' = "register"
      BY <2>2, <3>1
    <3> QED BY <2>2, <3>1, <3>2 DEF Registering
  <2> QED BY <1>2, <2>1, <2>2, <2>3 DEF CompleteInv, AllHaveEntries, NoneIsLeaving
<1>5. CASE running' = running \ {a} /\ StartEdit("unregister", a)
  <2>1. Allowed' \subseteq Allowed /\ work' = Group[a]
    BY <1>5 DEF Allowed, Commands, StartEdit
  <2>2. \A k \in 1..Len(Group[a]) : Group[a][k] \notin Allowed'
    <3> SUFFICES ASSUME NEW k \in 1..Len(Group[a]) PROVE Group[a][k] \notin Allowed'
      OBVIOUS
    <3>1. Group[a][k] \notin Core /\ Group[a][k] \in Range(Group[a])
      BY GroupFacts, GroupRange
    <3>2. \A b \in running' : Group[a][k] \notin Range(Group[b])
      BY <1>5, <3>1 DEF GroupsDisjoint, TypeOK
    <3> QED BY <3>1, <3>2 DEF Allowed, Commands
  <2> QED BY <1>2, <2>1, <2>2 DEF CompleteInv, AllHaveEntries, NoneIsLeaving
<1> QED BY <1>3, <1>4, <1>5 DEF AdapterInit, AdapterShutdown

(* A registry of pairwise different commands that is full holds them all.    *)
LEMMA FullRegistryHasAll ==
  ASSUME CommandsFit, TypeOK, count = MaxCommands, NEW c \in Command,
         \A i \in 1..count : slots[i] \in Command,
         \A i, j \in 1..count : slots[i] = slots[j] => i = j
  PROVE  \E i \in 1..count : slots[i] = c
<1> SUFFICES ASSUME \A i \in 1..count : slots[i] # c PROVE FALSE
  OBVIOUS
<1> DEFINE Rest == Command \ {c}
           f == [i \in 1..count |-> slots[i]]
<1>1. IsFiniteSet(Rest) /\ Cardinality(Rest) = Cardinality(Command) - 1
  BY FS_RemoveElement DEF CommandsFit
<1>2. f \in [1..count -> Rest] /\ \A i, j \in 1..count : f[i] = f[j] => i = j
  OBVIOUS
<1>3. f \in Injection(1..count, Rest)
  BY <1>2, Fun_IsInj
<1>4. Cardinality(1..count) <= Cardinality(Rest)
  BY <1>1, <1>3, FS_Injection
<1>5. Cardinality(1..count) = MaxCommands
  BY FS_Interval
<1>6. Cardinality(Command) \in Nat
  BY FS_CardinalityType DEF CommandsFit
<1> QED BY <1>1, <1>4, <1>5, <1>6 DEF CommandsFit

LEMMA RegisterKeepsComplete ==
  ASSUME CommandsFit, TypeOK, CoreInv, RegistryInv, CompleteInv, RegisterNext
  PROVE  CompleteInv'
<1>1. /\ op = "register" /\ shift = 0 /\ shift' = 0 /\ running' = running /\ work # <<>>
      /\ work' = Tail(work) /\ (op' = "register" \/ Tail(work) = <<>>) /\ op' # "unregister"
      /\ count \in 0..MaxCommands /\ Allowed' = Allowed /\ Entries = 1..count
  BY DEF RegisterNext, CoreInv, EditBehindCore, EditNext, TypeOK, Allowed, Entries
<1>2. \A c : Registering(c) => c = Head(work) \/ Registering(c)'
  <2> SUFFICES ASSUME NEW c, Registering(c), c # Head(work) PROVE Registering(c)'
    OBVIOUS
  <2>1. PICK k \in 2..Len(work) : work[k] = c
    BY <1>1, TailFacts DEF Registering
  <2>2. k - 1 \in 1..Len(work') /\ work'[k - 1] = c
    BY <1>1, <2>1, TailFacts
  <2>3. work' # <<>>
    BY <2>2
  <2> QED BY <1>1, <2>2, <2>3 DEF Registering
<1>3. \A i \in 1..count : slots'[i] = slots[i] /\ i \in 1..count'
  BY <1>1 DEF RegisterNext, RegisterCommand, regVars, TypeOK
<1>4. \E i \in 1..count' : slots'[i] = Head(work)
  <2>1. CASE Head(work) \in Registered
    BY <1>1, <1>3, <2>1 DEF Registered
  <2>2. CASE count < MaxCommands /\ Head(work) \notin Registered
    <3>1. slots' = [slots EXCEPT ![count + 1] = Head(work)] /\ count' = count + 1
      BY <1>1, <2>2 DEF RegisterNext, RegisterCommand
    <3>2. slots'[count + 1] = Head(work) /\ count + 1 \in 1..count'
      BY <1>1, <2>2, <3>1 DEF TypeOK
    <3> QED BY <3>2
  <2>3. CASE count >= MaxCommands
    <3>1. \A i \in 1..count : slots[i] \in Command
      BY <1>1, CommandsFacts
      DEF RegistryInv, EntriesAllowed, Allowed, IsLeaving, TypeOK
    <3>2. Head(work) \in Command
      BY <1>1, TailFacts
    <3>3. \E i \in 1..count : slots[i] = Head(work)
      BY <1>1, <2>3, <3>1, <3>2, FullRegistryHasAll DEF RegistryInv, EntriesOnce
    <3> QED BY <1>3, <3>3
  <2> QED BY <1>1, <2>1, <2>2, <2>3
<1>5. Entries' = 1..count'
  BY <1>1 DEF Entries, RegisterNext, RegisterCommand, regVars
<1> QED
  BY <1>1, <1>2, <1>3, <1>4, <1>5 DEF CompleteInv, AllHaveEntries, NoneIsLeaving

LEMMA UnregisterKeepsComplete ==
  ASSUME TypeOK, CoreInv, CompleteInv, UnregisterNext
  PROVE  CompleteInv'
<1>1. /\ op = "unregister" /\ shift = 0 /\ UNCHANGED <<slots, count, running>> /\ work # <<>>
      /\ Allowed' = Allowed /\ Entries = 1..count
  BY DEF UnregisterNext, CoreInv, EditBehindCore, regVars, Allowed, Entries
<1>2. /\ \A c \in Allowed : \E i \in 1..count : slots[i] = c
      /\ Head(work) \notin Allowed
  BY <1>1, TailFacts DEF CompleteInv, AllHaveEntries, NoneIsLeaving, Registering
<1>3. ASSUME NEW i \in 1..count, slots[i] = Head(work), shift' = i, UNCHANGED <<op, work>>
      PROVE  CompleteInv'
  BY <1>1, <1>2, <1>3 DEF CompleteInv, AllHaveEntries, NoneIsLeaving, Entries
<1>4. ASSUME EditNext, UNCHANGED shift PROVE CompleteInv'
  <2>1. work' = Tail(work) /\ Entries' = Entries
    BY <1>1, <1>4 DEF EditNext, Entries
  <2>2. \A k \in 1..Len(work') : work'[k] \notin Allowed
    BY <1>1, <2>1, TailFacts DEF CompleteInv, NoneIsLeaving
  <2> QED BY <1>1, <1>2, <2>1, <2>2 DEF CompleteInv, AllHaveEntries, NoneIsLeaving
<1> QED BY <1>3, <1>4 DEF UnregisterNext

LEMMA UnshiftKeepsComplete ==
  ASSUME TypeOK, CoreInv, CompleteInv, Unshift
  PROVE  CompleteInv'
<1>1. /\ op = "unregister" /\ running' = running /\ work # <<>> /\ Allowed' = Allowed
      /\ shift \in 1..count /\ count \in 0..MaxCommands
  BY DEF Unshift, CoreInv, EditBehindCore, TypeOK, Allowed
<1>2. \A c \in Allowed : \E i \in Entries : slots[i] = c
  BY <1>1 DEF CompleteInv, AllHaveEntries, Registering
<1>3. CASE shift < count
  <2>1. /\ slots' = [slots EXCEPT ![shift] = slots[shift + 1]]
        /\ shift' = shift + 1 /\ UNCHANGED <<count, op, work>>
    BY <1>3, <1>1 DEF Unshift, ShiftEntry
  <2>2. /\ slots'[shift] = slots[shift + 1] /\ shift \in Entries'
        /\ \A i \in Entries \ {shift + 1} : slots'[i] = slots[i] /\ i \in Entries'
    BY <1>1, <1>3, <2>1 DEF Entries, TypeOK
  <2>3. \A c \in Allowed : \E i \in Entries' : slots'[i] = c
    <3> SUFFICES ASSUME NEW c \in Allowed PROVE \E i \in Entries' : slots'[i] = c
      OBVIOUS
    <3>1. PICK i \in Entries : slots[i] = c
      BY <1>2
    <3>2. CASE i = shift + 1
      BY <2>2, <3>1, <3>2
    <3>3. CASE i # shift + 1
      BY <2>2, <3>1, <3>3
    <3> QED BY <3>2, <3>3
  <2> QED
    BY <1>1, <2>1, <2>3 DEF CompleteInv, AllHaveEntries, NoneIsLeaving
<1>4. CASE shift >= count
  <2>1. /\ count' = count - 1 /\ shift' = 0 /\ work' = Tail(work) /\ UNCHANGED slots
    BY <1>4, <1>1 DEF Unshift, ShiftEntry, EditNext
  <2>2. Entries' = Entries
    BY <1>1, <1>4, <2>1 DEF Entries
  <2>3. \A k \in 1..Len(work') : work'[k] \notin Allowed
    BY <1>1, <2>1, TailFacts DEF CompleteInv, NoneIsLeaving
  <2> QED
    BY <1>1, <1>2, <2>1, <2>2, <2>3 DEF CompleteInv, AllHaveEntries, NoneIsLeaving
<1> QED BY <1>1, <1>3, <1>4

(* On such a device every command of the core and of a running adapter is    *)
(* registered whenever no registry edit is under way.                        *)
THEOREM RunningRegistered ==
  ASSUME CommandsFit, GroupsDisjoint
  PROVE  Spec => []RunningAdaptersRegistered
<1>1. TypeOK /\ CoreInv /\ RegistryInv /\ CompleteInv /\ [Next]_vars => CompleteInv'
  <2> SUFFICES ASSUME TypeOK, CoreInv, RegistryInv, CompleteInv, [Next]_vars
               PROVE  CompleteInv'
    OBVIOUS
  <2>1. CASE Reboot
    <3>1. FreshRegistry'
      BY <2>1 DEF Reboot, FreshRegistry
    <3>2. FreshRegistry' => CompleteInv'
      BY FreshComplete, PTL
    <3> QED BY <3>1, <3>2
  <2>2. CASE UNCHANGED registryVars
    BY <2>2 DEF registryVars, regVars, editVars, CompleteInv, AllHaveEntries,
                NoneIsLeaving, Entries, Allowed, Registering
  <2> QED
    BY <2>1, <2>2, NextOnRegistry, ControlKeepsComplete, RegisterKeepsComplete,
       UnregisterKeepsComplete, UnshiftKeepsComplete
<1>2. Init => CompleteInv
  BY FreshComplete DEF Init, InitRegistry, FreshRegistry
<1>3. CoreInv /\ CompleteInv => RunningAdaptersRegistered
  <2> SUFFICES ASSUME CoreInv, CompleteInv, op = "none"
               PROVE  Core \cup UNION {Range(Group[a]) : a \in running} \subseteq Registered
    BY DEF RunningAdaptersRegistered
  <2>1. Entries = 1..count
    BY DEF CoreInv, EditBehindCore, Entries
  <2> QED
    BY <2>1 DEF CompleteInv, AllHaveEntries, Registering, Allowed, Commands, Registered
<1> QED BY <1>1, <1>2, <1>3, CoreInvariant, RegistryInvariant, PTL DEF Spec

=============================================================================
