---------------------------- MODULE SafeMode_proofs ----------------------------
(***************************************************************************)
(* Proofs about SafeMode, for every threshold, stable time and number of   *)
(* boots.  The theorems about the boot counter assume that NVS works; the  *)
(* ones about the images do not.                                           *)
(***************************************************************************)
EXTENDS SafeMode, TLAPS

(* There are two partitions: Other(s) is the one that is not s.             *)
LEMMA OtherSlot ==
  ASSUME NEW s \in Slot
  PROVE  Other(s) \in Slot /\ Other(s) # s /\ \A t \in Slot : t = s \/ t = Other(s)
<1>1. PICK t \in Slot : Slot = {s, t} /\ s # t
  BY SlotAssumption
<1>2. t \in Slot /\ t # s
  BY <1>1
<1>3. Other(s) \in Slot /\ Other(s) # s
  BY <1>2 DEF Other
<1>4. QED
  BY <1>1, <1>3

LEMMA VerdictIsFlag == CheckSafeMode => safe' \in BOOLEAN
  BY DEF CheckSafeMode

(* Every reachable state is well typed; the counter never goes below 0.     *)
THEOREM TypeCorrect == Spec => []TypeOK
<1>1. Init => TypeOK
  <2> SUFFICES ASSUME Init PROVE TypeOK
    OBVIOUS
  <2>1. NumbersOK
    BY NumberAssumption DEF Init, NumbersOK
  <2>2. FlagsOK
    BY DEF Init, FlagsOK
  <2>3. StatesOK
    BY SlotAssumption DEF Init, StatesOK, ImageState
  <2>4. QED
    BY <2>1, <2>2, <2>3 DEF TypeOK
<1>2. TypeOK /\ [Next]_vars => NumbersOK'
  <2> SUFFICES ASSUME TypeOK, [Next]_vars PROVE NumbersOK'
    OBVIOUS
  <2> USE NumberAssumption DEF TypeOK, NumbersOK, counters, clock, history
  <2>1. CASE Boot
    BY <2>1 DEF Boot
  <2>2. CASE CheckSafeMode
    BY <2>2 DEF CheckSafeMode, SetCounter, Validate, Unreadable
  <2>3. CASE InitAdapters
    BY <2>3 DEF InitAdapters
  <2>4. CASE Elapse
    BY <2>4 DEF Elapse
  <2>5. CASE Intervals
    BY <2>5 DEF Intervals, SetCounter, Validate, Unreadable
  <2>6. CASE ControlAdapter
    BY <2>6 DEF ControlAdapter
  <2>7. CASE SetConf
    BY <2>7 DEF SetConf, SetCounter
  <2>8. CASE Restart
    BY <2>8 DEF Restart, SafeRestart, SetCounter
  <2>9. CASE ResetConf
    BY <2>9 DEF ResetConf
  <2>10. CASE BeginUpdate
    BY <2>10 DEF BeginUpdate
  <2>11. CASE FinishUpdate
    BY <2>11 DEF FinishUpdate, SafeRestart, SetCounter
  <2>12. CASE Reset
    BY <2>12 DEF Reset, Down
  <2>13. CASE Crash
    BY <2>13 DEF Crash, Down
  <2>14. CASE PowerLoss
    BY <2>14 DEF PowerLoss, Down
  <2>15. CASE UNCHANGED vars
    BY <2>15 DEF vars
  <2>16. QED
    BY <2>1, <2>2, <2>3, <2>4, <2>5, <2>6, <2>7, <2>8,
       <2>9, <2>10, <2>11, <2>12, <2>13, <2>14, <2>15 DEF Next
<1>3. TypeOK /\ [Next]_vars => FlagsOK'
  <2> SUFFICES ASSUME TypeOK, [Next]_vars PROVE FlagsOK'
    OBVIOUS
  <2> USE DEF TypeOK, FlagsOK, clock, adapters, validation
  <2>1. CASE Boot
    BY <2>1 DEF Boot
  <2>2. CASE CheckSafeMode
    <3>1. safe' \in BOOLEAN
      BY <2>2, VerdictIsFlag
    <3>2. validated' \in BOOLEAN /\ unread' \in BOOLEAN
      BY <2>2, Zenon DEF CheckSafeMode, Validate, Unreadable, validation
    <3>3. QED
      BY <2>2, <3>1, <3>2, Zenon DEF CheckSafeMode
  <2>3. CASE InitAdapters
    BY <2>3 DEF InitAdapters
  <2>4. CASE Elapse
    BY <2>4 DEF Elapse
  <2>5. CASE Intervals
    BY <2>5 DEF Intervals, SetCounter, Validate, Unreadable
  <2>6. CASE ControlAdapter
    BY <2>6 DEF ControlAdapter
  <2>7. CASE SetConf
    BY <2>7 DEF SetConf, SetCounter
  <2>8. CASE Restart
    BY <2>8 DEF Restart, SafeRestart, SetCounter
  <2>9. CASE ResetConf
    BY <2>9 DEF ResetConf
  <2>10. CASE BeginUpdate
    BY <2>10 DEF BeginUpdate
  <2>11. CASE FinishUpdate
    BY <2>11 DEF FinishUpdate, SafeRestart, SetCounter
  <2>12. CASE Reset
    BY <2>12 DEF Reset, Down
  <2>13. CASE Crash
    BY <2>13 DEF Crash, Down
  <2>14. CASE PowerLoss
    BY <2>14 DEF PowerLoss, Down
  <2>15. CASE UNCHANGED vars
    BY <2>15 DEF vars
  <2>16. QED
    BY <2>1, <2>2, <2>3, <2>4, <2>5, <2>6, <2>7, <2>8,
       <2>9, <2>10, <2>11, <2>12, <2>13, <2>14, <2>15 DEF Next
<1>4. TypeOK /\ [Next]_vars => StatesOK'
  <2> SUFFICES ASSUME TypeOK, [Next]_vars PROVE StatesOK'
    OBVIOUS
  <2> USE DEF TypeOK, StatesOK, ImageState, slots, history
  <2>1. CASE Boot
    BY <2>1, OtherSlot DEF Boot
  <2>2. CASE CheckSafeMode
    BY <2>2 DEF CheckSafeMode, SetCounter, Validate, Unreadable
  <2>3. CASE InitAdapters
    BY <2>3 DEF InitAdapters
  <2>4. CASE Elapse
    BY <2>4 DEF Elapse
  <2>5. CASE Intervals
    BY <2>5 DEF Intervals, SetCounter, Validate, Unreadable
  <2>6. CASE ControlAdapter
    BY <2>6 DEF ControlAdapter
  <2>7. CASE SetConf
    BY <2>7 DEF SetConf, SetCounter
  <2>8. CASE Restart
    BY <2>8 DEF Restart, SafeRestart, SetCounter
  <2>9. CASE ResetConf
    BY <2>9 DEF ResetConf
  <2>10. CASE BeginUpdate
    BY <2>10 DEF BeginUpdate
  <2>11. CASE FinishUpdate
    BY <2>11, OtherSlot DEF FinishUpdate, SafeRestart, SetCounter
  <2>12. CASE Reset
    BY <2>12 DEF Reset, Down
  <2>13. CASE Crash
    BY <2>13 DEF Crash, Down
  <2>14. CASE PowerLoss
    BY <2>14 DEF PowerLoss, Down
  <2>15. CASE UNCHANGED vars
    BY <2>15 DEF vars
  <2>16. QED
    BY <2>1, <2>2, <2>3, <2>4, <2>5, <2>6, <2>7, <2>8,
       <2>9, <2>10, <2>11, <2>12, <2>13, <2>14, <2>15 DEF Next
<1>5. TypeOK /\ [Next]_vars => TypeOK'
  BY <1>2, <1>3, <1>4 DEF TypeOK
<1>6. QED
  BY <1>1, <1>5, PTL DEF Spec

-----------------------------------------------------------------------------
(* The boot counter                                                         *)

(* While the supervisor may act on it, the RAM copy is what the next boot   *)
(* will read; a stable run ends a row of crashes; the check's verdict       *)
(* follows from the counter; and a restart that leaves safe mode leaves at  *)
(* most the crash it ended in.                                              *)
CopyAgrees == pc \in {"check", "init", "run"} => ram = nvs
Stable == /\ pc = "run" /\ uptime > StableTime => row = 0
          /\ pc \in {"check", "init"} => uptime = 0
Verdict == pc = "init" => (safe => nvs >= Threshold) /\ (nvs >= Threshold => safe)
Leaving == /\ pc = "exit" /\ safe /\ inet => nvs = 0
           /\ pc \in {"off", "check"} /\ before = "left" => nvs = 0
           /\ pc = "init" /\ before = "left" => nvs <= 1
CounterInv == CounterBetween /\ CopyAgrees /\ Stable /\ Verdict /\ Leaving

LEMMA CounterStep ==
  ASSUME NvsReliable, TypeOK, CounterInv, [Next]_vars
  PROVE  CounterInv'
<1> USE NumberAssumption DEF TypeOK, NumbersOK, CounterInv, CounterBetween, CopyAgrees,
            Stable, Verdict, Leaving, Uncounted, counters, clock, adapters, slots, history
<1>1. CASE Boot
  BY <1>1 DEF Boot
<1>2. CASE CheckSafeMode
  <2>1. /\ pc = "check" /\ pc' = "init" /\ UNCHANGED <<reset, uptime, row, streak, before>>
        /\ nvs' = nvs + Uncounted /\ ram' = nvs'
    BY <1>2 DEF CheckSafeMode, SetCounter
  <2>2. safe' = (ram' >= Threshold)
    BY <1>2 DEF CheckSafeMode
  <2>3. Verdict'
    <3>1. (safe' => ram' >= Threshold) /\ (ram' >= Threshold => safe')
      BY <2>2, Zenon
    <3>2. QED
      BY <2>1, <3>1
  <2>4. CounterBetween' /\ CopyAgrees' /\ Stable' /\ Leaving'
    BY <2>1
  <2>5. QED
    BY <2>3, <2>4
<1>3. CASE InitAdapters
  <2>1. pc = "init" /\ pc' = "run" /\ UNCHANGED <<nvs, ram, reset, uptime, row, streak>>
    BY <1>3 DEF InitAdapters
  <2>2. uptime <= StableTime
    BY <2>1
  <2>3. QED
    BY <2>1, <2>2
<1>4. CASE Elapse
  BY <1>4 DEF Elapse
<1>5. CASE Intervals
  BY <1>5 DEF Intervals, SetCounter
<1>6. CASE ControlAdapter
  BY <1>6 DEF ControlAdapter
<1>7. CASE SetConf
  BY <1>7 DEF SetConf, SetCounter
<1>8. CASE Restart
  BY <1>8 DEF Restart, SafeRestart, SetCounter
<1>9. CASE ResetConf
  BY <1>9 DEF ResetConf
<1>10. CASE BeginUpdate
  BY <1>10 DEF BeginUpdate
<1>11. CASE FinishUpdate
  BY <1>11 DEF FinishUpdate, SafeRestart, SetCounter
<1>12. CASE Reset
  BY <1>12 DEF Reset, Down
<1>13. CASE Crash
  BY <1>13 DEF Crash, Down
<1>14. CASE PowerLoss
  BY <1>14 DEF PowerLoss, Down
<1>15. CASE UNCHANGED vars
  BY <1>15 DEF vars
<1>16. QED
  BY <1>1, <1>2, <1>3, <1>4, <1>5, <1>6, <1>7, <1>8, <1>9, <1>10, <1>11,
     <1>12, <1>13, <1>14, <1>15 DEF Next

LEMMA CounterInvariant == ASSUME NvsReliable PROVE Spec => []CounterInv
<1>1. Init => CounterInv
  BY DEF Init, CounterInv, CounterBetween, CopyAgrees, Stable, Verdict, Leaving, Uncounted
<1>2. TypeOK /\ CounterInv /\ [Next]_vars => CounterInv'
  BY CounterStep
<1>3. QED
  BY <1>1, <1>2, TypeCorrect, PTL DEF Spec

(* With NVS working, a device in safe mode has crashed at least Threshold   *)
(* times since its last stable run or its last exit from safe mode.         *)
THEOREM SafeModeJustified ==
  ASSUME NvsReliable PROVE Spec => []SafeModeOnlyAfterCrashes
<1>1. TypeOK /\ CounterInv => SafeModeOnlyAfterCrashes
  BY NumberAssumption DEF TypeOK, NumbersOK, CounterInv, CounterBetween, Verdict, Uncounted, SafeModeOnlyAfterCrashes
<1>2. QED
  BY <1>1, CounterInvariant, TypeCorrect, PTL

(* With NVS working, Threshold unstable runs in a row end in safe mode.     *)
THEOREM CrashLoopsCaught ==
  ASSUME NvsReliable PROVE Spec => []CrashLoopCaught
<1>1. TypeOK /\ CounterInv => CrashLoopCaught
  BY NumberAssumption DEF TypeOK, NumbersOK, CounterInv, CounterBetween, Verdict, Uncounted, CrashLoopCaught
<1>2. QED
  BY <1>1, CounterInvariant, TypeCorrect, PTL

(* With NVS working, a restart through esp_safe_restart leaves safe mode    *)
(* whatever happens until the next check.                                   *)
THEOREM RestartLeaves ==
  ASSUME NvsReliable PROVE Spec => []RestartLeavesSafeMode
<1>1. TypeOK /\ CounterInv => RestartLeavesSafeMode
  BY NumberAssumption DEF TypeOK, NumbersOK, CounterInv, Verdict, Leaving, RestartLeavesSafeMode
<1>2. QED
  BY <1>1, CounterInvariant, TypeCorrect, PTL

-----------------------------------------------------------------------------
(* The images                                                               *)

(* Until an update completes, the running image is the selected one; it is  *)
(* valid or in its first run, and in its first run nothing replaces the     *)
(* image it would be rolled back to.                                        *)
Running ==
  pc # "off" =>
    /\ image[booted] \in {"valid", "pending"}
    /\ pc # "exit" => boot = booted
    /\ boot # booted => image[booted] = "valid" /\ image[boot] = "new"
SlotInv == AlwaysBootable /\ Running /\ ValidatedMeansValid

LEMMA SlotStep ==
  ASSUME TypeOK, SlotInv, [Next]_vars
  PROVE  SlotInv'
<1>1. /\ Other(booted) \in Slot /\ Other(booted) # booted
      /\ Other(boot) \in Slot /\ Other(boot) # boot /\ Other(Other(boot)) = boot
      /\ boot # booted => Other(boot) = booted
      /\ Other(Other(booted)) = booted
  BY OtherSlot DEF TypeOK, StatesOK
<1> USE DEF TypeOK, StatesOK, ImageState, SlotInv, AlwaysBootable, Running, ValidatedMeansValid,
            counters, clock, adapters, slots, history, validation
<1>2. CASE Boot
  BY <1>1, <1>2 DEF Boot
<1>3. CASE CheckSafeMode
  BY <1>1, <1>3 DEF CheckSafeMode, Validate, Unreadable
<1>4. CASE Intervals
  BY <1>1, <1>4 DEF Intervals, Validate, Unreadable
<1>5. CASE BeginUpdate
  BY <1>1, <1>5 DEF BeginUpdate
<1>6. CASE FinishUpdate
  BY <1>1, <1>6 DEF FinishUpdate, SafeRestart
<1>7. CASE Restart \/ ResetConf
  BY <1>1, <1>7 DEF Restart, SafeRestart, ResetConf
<1>8. CASE InitAdapters \/ Elapse \/ ControlAdapter \/ SetConf
  BY <1>8 DEF InitAdapters, Elapse, ControlAdapter, SetConf
<1>9. CASE Reset \/ Crash \/ PowerLoss
  BY <1>1, <1>9 DEF Reset, Crash, PowerLoss, Down
<1>10. CASE UNCHANGED vars
  BY <1>10 DEF vars
<1>11. QED
  BY <1>2, <1>3, <1>4, <1>5, <1>6, <1>7, <1>8, <1>9, <1>10 DEF Next

LEMMA SlotInvariant == Spec => []SlotInv
<1>1. Init => SlotInv
  BY SlotAssumption DEF Init, SlotInv, AlwaysBootable, Running, ValidatedMeansValid
<1>2. TypeOK /\ SlotInv /\ [Next]_vars => SlotInv'
  BY SlotStep
<1>3. QED
  BY <1>1, <1>2, TypeCorrect, PTL DEF Spec

(* The device can always be started, even if NVS fails.                     *)
THEOREM Bootable == Spec => []AlwaysBootable
  BY SlotInvariant, PTL DEF SlotInv

(* firmware_validated hides an image that is still to be validated only in  *)
(* a run in which the OTA library failed to tell the state of the image.    *)
THEOREM ValidatedIsValid == Spec => []ValidatedMeansValid
  BY SlotInvariant, PTL DEF SlotInv
=============================================================================
