------------------------------ MODULE TeleRegistry ------------------------------
(***************************************************************************)
(* The telemetry registry: an array of appenders, each with its name, that *)
(* the supervisor's task (before it, the main task) edits when adapters go *)
(* on and off, and that the MQTT and HTTP tasks walk meanwhile, without a  *)
(* lock.                                                                   *)
(*                                                                         *)
(* A name stands for its appender too: in the array the two are words of   *)
(* their own, written and read one after the other.  Walks change nothing, *)
(* so one of them stands for each.  What an appender appends is left out.  *)
(*                                                                         *)
(* A definition Name_Fault, before the definition Name, is Name with a     *)
(* fault seeded; nothing uses it but the mutants of PROJECT.json.          *)
(***************************************************************************)
EXTENDS Naturals, Sequences, Functions

CONSTANTS
  CoreTele,  \* core_tele and tasks_dict, in their order
  TeleGroup, \* the tele_group of each adapter
  MdnsTele,  \* registered for PLATFORM_INITIALIZED, by each network adapter
  TeleMax,   \* CONFIG_SUPERVISOR_MAX_TELE
  NoTele     \* content of an element never written

CoreTeles == Range(CoreTele)
Teles == CoreTeles \cup {MdnsTele} \cup UNION {Range(g) : g \in TeleGroup}

ASSUME TeleAssumption ==
  /\ CoreTele \in Seq(CoreTeles) /\ IsInjective(CoreTele)
  /\ TeleMax \in Nat /\ Len(CoreTele) <= TeleMax /\ NoTele \notin Teles
  /\ \A g \in TeleGroup : g \in Seq(Teles) /\ Range(g) \cap CoreTeles = {}
  /\ MdnsTele \notin CoreTeles

VARIABLES
  teIds, teFns, \* tele_registry[i].tele_id and .fn
  teCount,      \* tele_count
  teOn,         \* the groups of the adapters that are on
  teOp,         \* the edit going on: "none", "register" or "unregister"
  teWork,       \* the names it has still to handle
  teShift,      \* the element being overwritten, 0 if none
  teHalf,       \* the first word of an element is written and the second not
  teAt,         \* the walk: "none", or what it does next: "test", "fn" or "id"
  tePos,        \* its index
  teFn,         \* the appender it read
  teCalls,      \* history: the calls of this walk, with the names they got
  teMoved       \* history: entries were removed during this walk

teArray == <<teIds, teFns, teCount>>
teEdit == <<teOp, teWork, teShift, teHalf>>
teWalk == <<teAt, tePos, teFn, teCalls>>
teleVars == <<teArray, teOn, teEdit, teWalk, teMoved>>

TeleTypeOK ==
  /\ {teIds, teFns} \subseteq [1..TeleMax -> Teles \cup {NoTele}]
  /\ teCount \in 0..TeleMax /\ teShift \in 0..TeleMax /\ teOn \subseteq TeleGroup
  /\ teOp \in {"none", "register", "unregister"} /\ {teHalf, teMoved} \subseteq BOOLEAN
  /\ teAt \in {"none", "test", "fn", "id"} /\ tePos \in 1..(TeleMax + 1)

(* supervisor_init: nothing walks before it.                                *)
TeleInit ==
  /\ teIds = [i \in 1..TeleMax |-> IF i <= Len(CoreTele) THEN CoreTele[i] ELSE NoTele]
  /\ teFns = teIds /\ teCount = Len(CoreTele)
  /\ teOn = {} /\ teOp = "none" /\ teWork = <<>> /\ teShift = 0 /\ teHalf = FALSE
  /\ teAt = "none" /\ tePos = 1 /\ teFn = NoTele /\ teCalls = <<>> /\ teMoved = FALSE

-----------------------------------------------------------------------------
(* The supervisor's task                                                    *)

Edit(kind, group) ==
  /\ teOp = "none" /\ group # <<>>
  /\ teOp' = kind /\ teWork' = group
  /\ teMoved' = (teMoved \/ (kind = "unregister" /\ teAt # "none"))
  /\ UNCHANGED <<teArray, teShift, teHalf, teWalk>>

(* supervisor_adapter_init and supervisor_adapter_shutdown, after an ESP_OK,*)
(* and inet_common_on_event.                                                *)
SwitchGroup ==
  \/ \E g \in TeleGroup \ teOn : Edit("register", g) /\ teOn' = teOn \cup {g}
  \/ \E g \in teOn : Edit("unregister", g) /\ teOn' = teOn \ {g}
RegisterMdns == Edit("register", <<MdnsTele>>) /\ UNCHANGED teOn

NextName ==
  /\ teWork' = Tail(teWork)
  /\ teOp' = IF Tail(teWork) = <<>> THEN "none" ELSE teOp

(* tele_register: nothing, or a new element, which only the count reveals.  *)
Taken(name) == \E i \in 1..teCount : teIds[i] = name
RegisterTele ==
  /\ teOp = "register"
  /\ \/ /\ teCount >= TeleMax \/ (Taken(Head(teWork)) /\ ~teHalf)
        /\ NextName
        /\ UNCHANGED <<teArray, teHalf>>
     \/ /\ teCount < TeleMax /\ ~Taken(Head(teWork)) /\ ~teHalf
        /\ teIds' = [teIds EXCEPT ![teCount + 1] = Head(teWork)]
        /\ teHalf' = TRUE
        /\ UNCHANGED <<teFns, teCount, teOp, teWork>>
     \/ /\ teHalf
        /\ teFns' = [teFns EXCEPT ![teCount + 1] = Head(teWork)]
        /\ teCount' = teCount + 1
        /\ teHalf' = FALSE
        /\ NextName
        /\ UNCHANGED teIds
  /\ UNCHANGED <<teOn, teShift, teWalk, teMoved>>

(* tele_unregister_group: the search, and the loop that moves the entries   *)
(* behind the one it found.                                                 *)
FindTele ==
  /\ teOp = "unregister" /\ teShift = 0
  /\ \/ \E i \in 1..teCount :
          /\ teIds[i] = Head(teWork)
          /\ \A j \in 1..(i - 1) : teIds[j] # Head(teWork)
          /\ teShift' = i
          /\ UNCHANGED <<teOp, teWork>>
     \/ ~Taken(Head(teWork)) /\ NextName /\ UNCHANGED teShift
  /\ UNCHANGED <<teArray, teOn, teHalf, teWalk, teMoved>>
MoveTele_StopsEarly ==
  /\ teShift # 0
  /\ \/ /\ teShift + 1 < teCount
        /\ teIds' = [teIds EXCEPT ![teShift] = teIds[teShift + 1]]
        /\ teFns' = [teFns EXCEPT ![teShift] = teFns[teShift + 1]]
        /\ teShift' = teShift + 1
        /\ UNCHANGED <<teCount, teHalf, teOp, teWork>>
     \/ /\ teShift + 1 >= teCount
        /\ teCount' = teCount - 1 /\ teShift' = 0
        /\ NextName
        /\ UNCHANGED <<teIds, teFns, teHalf>>
  /\ UNCHANGED <<teOn, teWalk, teMoved>>
MoveTele ==
  /\ teShift # 0
  /\ \/ /\ teShift < teCount /\ ~teHalf
        /\ teIds' = [teIds EXCEPT ![teShift] = teIds[teShift + 1]]
        /\ teHalf' = TRUE
        /\ UNCHANGED <<teFns, teCount, teShift, teOp, teWork>>
     \/ /\ teHalf
        /\ teFns' = [teFns EXCEPT ![teShift] = teFns[teShift + 1]]
        /\ teHalf' = FALSE /\ teShift' = teShift + 1
        /\ UNCHANGED <<teIds, teCount, teOp, teWork>>
     \/ /\ teShift >= teCount
        /\ teCount' = teCount - 1 /\ teShift' = 0
        /\ NextName
        /\ UNCHANGED <<teIds, teFns, teHalf>>
  /\ UNCHANGED <<teOn, teWalk, teMoved>>

-----------------------------------------------------------------------------
(* A walk: tele_append_all                                                  *)

StartWalk ==
  /\ teAt = "none"
  /\ teAt' = "test"
  /\ teMoved' = (teOp = "unregister")
  /\ UNCHANGED <<teArray, teOn, teEdit, tePos, teFn, teCalls>>
TestCount ==
  /\ teAt = "test" /\ tePos <= teCount
  /\ teAt' = "fn"
  /\ UNCHANGED <<teArray, teOn, teEdit, tePos, teFn, teCalls, teMoved>>
EndWalk ==
  /\ teAt = "test" /\ tePos > teCount
  /\ teAt' = "none" /\ tePos' = 1 /\ teCalls' = <<>> /\ teMoved' = FALSE
  /\ UNCHANGED <<teArray, teOn, teEdit, teFn>>
ReadFn ==
  /\ teAt = "fn"
  /\ teFn' = teFns[tePos] /\ teAt' = "id"
  /\ UNCHANGED <<teArray, teOn, teEdit, tePos, teCalls, teMoved>>
ReadId ==
  /\ teAt = "id"
  /\ teCalls' = Append(teCalls, [fn |-> teFn, id |-> teIds[tePos]])
  /\ tePos' = tePos + 1 /\ teAt' = "test" /\ teFn' = NoTele
  /\ UNCHANGED <<teArray, teOn, teEdit, teMoved>>

TeleNext ==
  \/ SwitchGroup \/ RegisterMdns \/ RegisterTele \/ FindTele \/ MoveTele
  \/ StartWalk \/ TestCount \/ EndWalk \/ ReadFn \/ ReadId

TeleSpec == TeleInit /\ [][TeleNext]_teleVars

-----------------------------------------------------------------------------
CoreCalls == [k \in DOMAIN CoreTele |-> [fn |-> CoreTele[k], id |-> CoreTele[k]]]
Behind == SubSeq(teCalls, Len(CoreTele) + 1, Len(teCalls))
Live == CoreTeles \cup {MdnsTele} \cup UNION {Range(g) : g \in teOn}

(* However entries are moved under it, a walk that ends has called each     *)
(* core appender once, with its own name; and if nothing was removed during *)
(* it, it has called each appender that is registered once, with its own    *)
(* name, and none of an adapter that is off (tele.c:127-133 walks without a *)
(* lock).                                                                   *)
TelemetryComplete ==
  [][EndWalk =>
       /\ SubSeq(teCalls, 1, Len(CoreTele)) = CoreCalls
       /\ \A k \in DOMAIN Behind : {Behind[k].fn, Behind[k].id} \cap CoreTeles = {}
       /\ ~teMoved =>
            LET called == {c.id : c \in Range(teCalls)} IN
              /\ \A c \in Range(teCalls) : c.fn = c.id
              /\ IsInjective(teCalls)
              /\ called = {teIds[i] : i \in 1..teCount} /\ called \subseteq Live
    ]_teleVars
===============================================================================
