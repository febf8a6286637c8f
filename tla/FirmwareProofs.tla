--------------------------- MODULE FirmwareProofs ---------------------------
(***************************************************************************)
(* Proofs about Firmware, for every period, window and duration.           *)
(***************************************************************************)
EXTENDS Firmware, TLAPS

(* What hw_init leaves satisfies the inductive invariant. *)
LEMMA InitIInv == Init => IInv
<1> SUFFICES ASSUME Init PROVE IInv
  OBVIOUS
<1> USE TimingAssumption DEF Init
<1>1. TypeOK
  <2>1. /\ busy \in Nat /\ cycle \in 0 .. (Divisor - 1) /\ phase \in 0 .. Period
        /\ age \in 0 .. Window /\ length \in Nat
    OBVIOUS
  <2>2. s_cycle_flag \in BOOLEAN /\ timerOn \in BOOLEAN /\ owed \in BOOLEAN
    BY Zenon
  <2>3. pc = "setup"
    OBVIOUS
  <2> QED BY <2>1, <2>2, <2>3, Zenon DEF TypeOK
<1>2. WindowKept
  BY DEF WindowKept, Alive
<1>3. NoLostWakeup
  BY DEF NoLostWakeup
<1> QED BY <1>1, <1>2, <1>3 DEF IInv

(* Only the handlers of a tick can bring the watchdog to the end of its    *)
(* window: while time passes outside them, the timer's next callback is    *)
(* less than a window away.                                                *)
LEMMA AdvanceIInv == IInv /\ Advance => IInv'
<1> SUFFICES ASSUME IInv, Advance PROVE IInv'
  OBVIOUS
<1> USE TimingAssumption DEF IInv, Advance, Alive
<1>1. TypeOK'
  BY DEF TypeOK, WindowKept
<1>2. WindowKept'
  <2>1. CASE pc = "setup"
    BY <2>1 DEF TypeOK, WindowKept
  <2>2. CASE pc = "run"
    BY <2>2 DEF TypeOK, WindowKept
  <2>3. CASE pc = "wait"
    BY <2>3 DEF TypeOK, WindowKept
  <2> QED BY <2>1, <2>2, <2>3
<1>3. NoLostWakeup'
  BY DEF NoLostWakeup
<1> QED BY <1>1, <1>2, <1>3

(* Every step preserves the inductive invariant. *)
LEMMA NextIInv == IInv /\ [Next]_vars => IInv'
<1> SUFFICES ASSUME IInv, [Next]_vars PROVE IInv'
  OBVIOUS
<1> USE TimingAssumption DEF IInv, TypeOK, WindowKept, NoLostWakeup, Alive
<1>1. CASE Advance
  BY <1>1, AdvanceIInv
<1>2. CASE RateTimerCallback
  <2> USE <1>2 DEF RateTimerCallback
  <2>1. TypeOK'
    <3>1. s_cycle_flag' \in BOOLEAN /\ owed' \in BOOLEAN
      BY Zenon
    <3>2. phase' \in 0 .. Period
      OBVIOUS
    <3> QED BY <3>1, <3>2, Zenon
  <2>2. WindowKept'
    <3>1. pc # "setup"
      BY Zenon
    <3>2. s_cycle_flag' /\ pc' = pc /\ age' = age
      BY Zenon
    <3>3. busy' = busy /\ length' = length /\ (timerOn' <=> timerOn)
      BY Zenon
    <3>4. /\ pc' = "tick" => age' = 0
          /\ pc' = "run" => age' + busy' = length'
          /\ pc' # "run" => age' < Window
      BY <3>2, <3>3
    <3>5. timerOn' /\ pc' # "setup"
      BY <3>1, <3>2, <3>3, Zenon
    <3> QED BY <3>1, <3>2, <3>4, <3>5, Zenon
  <2>3. NoLostWakeup'
    BY Zenon
  <2> QED BY <2>1, <2>2, <2>3
<1>3. CASE WatchdogBites
  <2>1. Init'
    BY <1>3 DEF WatchdogBites, Init
  <2>2. Init' => IInv'
    BY InitIInv, PTL
  <2> QED BY <2>1, <2>2
<1>4. CASE SetupDone
  BY <1>4 DEF SetupDone
<1>5. CASE SeeFlag
  BY <1>5 DEF SeeFlag
<1>6. CASE ClearFlag
  BY <1>6 DEF ClearFlag
<1>7. CASE Kick
  BY <1>7 DEF Kick
<1>8. CASE TickDone
  BY <1>8 DEF TickDone
<1>9. ASSUME NEW fast \in Durations4Hz, NEW slow \in Durations1Hz, Tick(fast, slow)
      PROVE  IInv'
  <2>1. fast \in Nat /\ slow \in Nat
    OBVIOUS
  <2>2. busy' \in Nat /\ length' = busy'
    BY <1>9, <2>1 DEF Tick
  <2>3. cycle' \in 0 .. (Divisor - 1)
    <3>1. cycle' = (cycle + 1) % Divisor /\ cycle \in Nat
      BY <1>9 DEF Tick
    <3> HIDE DEF IInv, TypeOK, WindowKept
    <3> QED BY <3>1
  <2>4. TypeOK'
    BY <1>9, <2>2, <2>3, Zenon DEF Tick
  <2>5. WindowKept'
    <3>1. age' = 0 /\ pc' = "run" /\ phase' \in 0 .. Period
      BY <1>9 DEF Tick
    <3>2. timerOn' /\ pc' # "setup"
      BY <1>9, Zenon DEF Tick
    <3>3. age' + phase' <= MaxSetup + Period
      <4>1. phase' \in Nat /\ phase' <= Period
        BY <3>1
      <4>2. \A p \in Nat : p <= Period => 0 + p <= MaxSetup + Period
        OBVIOUS
      <4> QED BY <3>1, <4>1, <4>2
    <3>4. age' + busy' = length'
      <4>1. \A n \in Nat : 0 + n = n
        OBVIOUS
      <4> QED BY <2>2, <3>1, <4>1
    <3> QED BY <3>1, <3>2, <3>3, <3>4 DEF WindowKept
  <2>6. NoLostWakeup'
    BY <1>9, Zenon DEF Tick
  <2> QED BY <2>4, <2>5, <2>6
<1>10. CASE UNCHANGED vars
  BY <1>10 DEF vars
<1> QED BY <1>1, <1>2, <1>3, <1>4, <1>5, <1>6, <1>7, <1>8, <1>9, <1>10 DEF Next, Loop

(* The inductive invariant holds in every reachable state. *)
THEOREM FirmwareInvariant == Spec => []IInv
  BY InitIInv, NextIInv, PTL DEF Spec

(* The types of main's variables and of the hardware's. *)
THEOREM FirmwareTypeCorrect == Spec => []TypeOK
<1>1. IInv => TypeOK
  BY DEF IInv
<1> QED BY <1>1, FirmwareInvariant, PTL

(* No callback of the timer is forgotten, wherever in the loop it comes.   *)
THEOREM WakeupSafe == Spec => []NoLostWakeup
<1>1. IInv => NoLostWakeup
  BY DEF IInv
<1> QED BY <1>1, FirmwareInvariant, PTL

(* The watchdog bites only in a tick whose handlers take a whole window.   *)
THEOREM WatchdogSafe == Spec => []BitesOnlyInLongTick
<1>1. IInv => BitesOnlyInLongTick
  BY TimingAssumption DEF IInv, TypeOK, WindowKept, BitesOnlyInLongTick, Alive
<1> QED BY <1>1, FirmwareInvariant, PTL

(* If the handlers of a tick never take the whole window between them, the *)
(* watchdog is kicked within every window: the bound a handler has to keep *)
(* (and which initModule does not keep: see the run firmware_window).      *)
THEOREM ShortTicksKeepWindow ==
    ASSUME \A fast \in Durations4Hz, slow \in Durations1Hz : fast + slow < Window
    PROVE  Spec => []KickedWithinWindow
<1> DEFINE Short == length < Window
<1>1. Init => Short
  BY TimingAssumption DEF Init
<1>2. IInv /\ Short /\ [Next]_vars => Short'
  <2> SUFFICES ASSUME IInv, Short, [Next]_vars PROVE Short'
    OBVIOUS
  <2>1. ASSUME NEW fast \in Durations4Hz, NEW slow \in Durations1Hz, Tick(fast, slow)
        PROVE  Short'
    <3>1. fast + slow < Window /\ fast \in Nat /\ slow \in Nat
      BY TimingAssumption
    <3>2. length' = fast + (IF cycle = 0 THEN slow ELSE 0)
      BY <2>1 DEF Tick
    <3> QED BY <3>1, <3>2, TimingAssumption
  <2>2. CASE WatchdogBites
    BY <2>2, TimingAssumption DEF WatchdogBites
  <2>3. CASE UNCHANGED length
    BY <2>3
  <2> QED BY <2>1, <2>2, <2>3 DEF Next, Loop, vars, Advance, RateTimerCallback,
             SetupDone, SeeFlag, ClearFlag, Kick, TickDone
<1>3. IInv /\ Short => KickedWithinWindow
  BY TimingAssumption DEF IInv, TypeOK, WindowKept, KickedWithinWindow, Alive
<1> QED BY <1>1, <1>2, <1>3, FirmwareInvariant, PTL DEF Spec
=============================================================================
