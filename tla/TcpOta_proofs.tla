----------------------------- MODULE TcpOta_proofs -----------------------------
(***************************************************************************)
(* Proofs about TcpOta, for any set of tasks that stop the service.        *)
(***************************************************************************)
EXTENDS TcpOta, TLAPS

(* A task and its handle exist together; a connection is served with the    *)
(* in-progress flag set.                                                    *)
Alive == /\ handle <=> at # "none"
         /\ at \in Header \cup Update => busy

(* An image is selected only behind the comparison of the digests.          *)
Checked == /\ at = "select" => content = "whole"
           /\ selected => at = "restart" /\ content = "whole"

(* Between the last stop and the next start the task finds the request      *)
(* until it has cleared it itself, accept gets its socket closed, and as    *)
(* long as the task can serve a client some stop has yet to close the       *)
(* socket, or waits and cannot return: it is not over the limit, or the     *)
(* flag of the update holds it.                                             *)
Requested == ~wanted /\ at \notin {"none", "gone"} => quit
Unblocked == ~wanted /\ at = "accept" /\ listen => \E c \in Caller : pc[c] = "close"
Held(c)   == pc[c] = "close" \/ (pc[c] = "wait" /\ (busy \/ ~over[c]))
Awaited   == ~wanted /\ at \in Serving => \E c \in Caller : Held(c)

ServiceInv == PlacesOK /\ Alive /\ Checked /\ Requested /\ Unblocked /\ Awaited

LEMMA InitServiceInv == Init => ServiceInv
  BY CallerAssumption DEF Init, ServiceInv, PlacesOK, Alive, Checked, Requested, Unblocked,
     Awaited, Held, Serving, Header, Update

(* The task's own steps.                                                    *)
LEMMA TaskStepInv ==
  ASSUME ServiceInv,
         OpenSocket \/ Loop \/ Accept \/ BeginSession \/ EndSession \/ CloseAndLeave
           \/ ClearRequest \/ ClearHandle
  PROVE  ServiceInv'
<1> USE DEF ServiceInv, PlacesOK, Alive, Checked, Requested, Unblocked, Awaited, Held,
            Serving, Header, Update, callers, session, image
<1>1. CASE OpenSocket
  BY <1>1 DEF OpenSocket
<1>2. CASE Loop
  BY <1>2 DEF Loop
<1>3. CASE Accept
  BY <1>3 DEF Accept
<1>4. CASE BeginSession
  BY <1>4 DEF BeginSession
<1>5. CASE EndSession
  BY <1>5 DEF EndSession
<1>6. CASE CloseAndLeave
  BY <1>6 DEF CloseAndLeave
<1>7. CASE ClearRequest
  BY <1>7 DEF ClearRequest
<1>8. CASE ClearHandle
  BY <1>8 DEF ClearHandle
<1>9. QED
  BY <1>1, <1>2, <1>3, <1>4, <1>5, <1>6, <1>7, <1>8

LEMMA SessionStepInv ==
  ASSUME ServiceInv,
         TakeHeader \/ WrongMagic \/ SkipHeader \/ OtaBegin \/ HashSetup \/ WriteChunk
           \/ FinalAck \/ Verify \/ SelectImage
  PROVE  ServiceInv'
<1> USE DEF ServiceInv, PlacesOK, Alive, Checked, Requested, Unblocked, Awaited, Held,
            Serving, Header, Update, Following, frame, callers, session, image
<1>1. CASE TakeHeader
  BY <1>1 DEF TakeHeader
<1>2. CASE WrongMagic
  BY <1>2 DEF WrongMagic
<1>3. CASE SkipHeader
  BY <1>3 DEF SkipHeader
<1>4. CASE OtaBegin
  BY <1>4 DEF OtaBegin
<1>5. CASE HashSetup
  BY <1>5 DEF HashSetup
<1>6. CASE WriteChunk
  BY <1>6 DEF WriteChunk
<1>7. CASE FinalAck
  BY <1>7 DEF FinalAck
<1>8. CASE Verify
  BY <1>8 DEF Verify
<1>9. CASE SelectImage
  BY <1>9 DEF SelectImage
<1>10. QED
  BY <1>1, <1>2, <1>3, <1>4, <1>5, <1>6, <1>7, <1>8, <1>9

(* The steps of the tasks that start and stop the service.                  *)
LEMMA CallerStepInv ==
  ASSUME ServiceInv,
         Start \/ (\E c \in Caller : Stop(c) \/ CloseListen(c) \/ Count(c) \/ StopReturns(c))
  PROVE  ServiceInv'
<1> USE DEF ServiceInv, PlacesOK, Alive, Checked, Requested, Unblocked, Awaited, Held,
            Serving, Header, Update, session, image
<1>1. CASE Start
  BY <1>1, CallerAssumption DEF Start
<1>2. ASSUME NEW c \in Caller, Stop(c) PROVE ServiceInv'
  BY <1>2 DEF Stop
<1>3. ASSUME NEW c \in Caller, CloseListen(c) PROVE ServiceInv'
  BY <1>3 DEF CloseListen
<1>4. ASSUME NEW c \in Caller, Count(c) PROVE ServiceInv'
  BY <1>4 DEF Count, Slow
<1>5. ASSUME NEW c \in Caller, StopReturns(c) PROVE ServiceInv'
  BY <1>5 DEF StopReturns
<1>6. QED
  BY <1>1, <1>2, <1>3, <1>4, <1>5

LEMMA RestartInv == ServiceInv /\ Restart => ServiceInv'
  BY DEF ServiceInv, PlacesOK, Alive, Checked, Requested, Unblocked, Awaited, Held, Serving,
     Header, Update, Restart

LEMMA ServiceInvariant == Spec => []ServiceInv
<1>1. ServiceInv /\ [Next]_vars => ServiceInv'
  <2> SUFFICES ASSUME ServiceInv, [Next]_vars PROVE ServiceInv'
    OBVIOUS
  <2>1. CASE UNCHANGED vars
    BY <2>1 DEF ServiceInv, PlacesOK, Alive, Checked, Requested, Unblocked, Awaited, Held,
                Serving, vars
  <2>2. QED
    BY <2>1, TaskStepInv, SessionStepInv, CallerStepInv, RestartInv DEF Next
<1>2. QED
  BY InitServiceInv, <1>1, PTL DEF Spec

LEMMA FlagsInvariant == Spec => []FlagsOK
<1>1. Init => FlagsOK
  BY DEF Init, FlagsOK
<1>2. FlagsOK /\ [Next]_vars => FlagsOK'
  <2> SUFFICES ASSUME FlagsOK, [Next]_vars PROVE FlagsOK'
    OBVIOUS
  <2> USE DEF FlagsOK, session, image, callers, frame
  <2>1. CASE Start
    BY <2>1, Zenon DEF Start
  <2>2. CASE OpenSocket
    BY <2>2, Zenon DEF OpenSocket
  <2>3. CASE Loop
    BY <2>3, Zenon DEF Loop
  <2>4. CASE Accept
    BY <2>4, Zenon DEF Accept
  <2>5. CASE BeginSession
    BY <2>5, Zenon DEF BeginSession
  <2>6. CASE EndSession
    BY <2>6, Zenon DEF EndSession
  <2>7. CASE CloseAndLeave
    BY <2>7, Zenon DEF CloseAndLeave
  <2>8. CASE ClearRequest
    BY <2>8, Zenon DEF ClearRequest
  <2>9. CASE ClearHandle
    BY <2>9, Zenon DEF ClearHandle
  <2>10. CASE TakeHeader
    BY <2>10, Zenon DEF TakeHeader
  <2>11. CASE WrongMagic
    BY <2>11, Zenon DEF WrongMagic
  <2>12. CASE SkipHeader
    BY <2>12, Zenon DEF SkipHeader
  <2>13. CASE OtaBegin
    BY <2>13, Zenon DEF OtaBegin
  <2>14. CASE HashSetup
    BY <2>14, Zenon DEF HashSetup
  <2>15. CASE WriteChunk
    BY <2>15, Zenon DEF WriteChunk
  <2>16. CASE FinalAck
    BY <2>16, Zenon DEF FinalAck
  <2>17. CASE Verify
    BY <2>17, Zenon DEF Verify
  <2>18. CASE SelectImage
    BY <2>18, Zenon DEF SelectImage
  <2>19. CASE Restart
    BY <2>19, Zenon DEF Restart
  <2>20. ASSUME NEW c \in Caller, Stop(c) \/ CloseListen(c) \/ Count(c) \/ StopReturns(c)
         PROVE  FlagsOK'
    <3>1. CASE Stop(c)
      BY <3>1, Zenon DEF Stop
    <3>2. CASE CloseListen(c)
      BY <3>2, Zenon DEF CloseListen
    <3>3. CASE Count(c)
      BY <3>3, Zenon DEF Count
    <3>4. CASE StopReturns(c)
      BY <3>4, Zenon DEF StopReturns
    <3>5. QED
      BY <2>20, <3>1, <3>2, <3>3, <3>4
  <2>21. CASE UNCHANGED vars
    BY <2>21, Zenon DEF vars
  <2>22. QED
    BY <2>1, <2>2, <2>3, <2>4, <2>5, <2>6, <2>7, <2>8, <2>9, <2>10, <2>11, <2>12,
       <2>13, <2>14, <2>15, <2>16, <2>17, <2>18, <2>19, <2>20, <2>21 DEF Next
<1>3. QED
  BY <1>1, <1>2, PTL DEF Spec

(* The OTA task and its handle exist together, so the service can always be *)
(* started again.                                                           *)
THEOREM HandleIsTask == Spec => []HandleMeansTask
<1>1. ServiceInv /\ FlagsOK => HandleMeansTask
  BY DEF ServiceInv, Alive, HandleMeansTask, TypeOK
<1>2. QED
  BY <1>1, ServiceInvariant, FlagsInvariant, PTL

(* Only a complete image with its announced digest is ever selected.        *)
THEOREM SelectedIsWhole == Spec => []OnlyWholeImageSelected
<1>1. ServiceInv => OnlyWholeImageSelected
  BY DEF ServiceInv, Checked, OnlyWholeImageSelected
<1>2. QED
  BY <1>1, ServiceInvariant, PTL

(* What a stop that returned has left behind serves no client any more.     *)
THEOREM StopIsFinal == Spec => []StoppedMeansStopped
<1>1. ServiceInv => StoppedMeansStopped
  BY DEF ServiceInv, Requested, Unblocked, Awaited, Held, StoppedMeansStopped
<1>2. QED
  BY <1>1, ServiceInvariant, PTL
=============================================================================
