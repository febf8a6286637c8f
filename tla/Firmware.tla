------------------------------ MODULE Firmware ------------------------------
(***************************************************************************)
(* Top/main.cpp: the main loop, the repeating timer that paces it, and the *)
(* hardware watchdog.  Time is discrete.  It passes only while the         *)
(* program has work to do or waits for the timer: the loop's own           *)
(* statements take none, but the timer's interrupt may come between any    *)
(* two of them.                                                            *)
(*                                                                         *)
(* One tick of the timer component drives F Prime's rate groups, and every *)
(* handler they dispatch runs to its end before the loop goes on: there is *)
(* one thread.  What a handler does is the business of the other modules;  *)
(* here it is the time it takes.                                           *)
(***************************************************************************)
EXTENDS Naturals

CONSTANTS Period,        \* of the repeating timer: 250 ms
          Window,        \* hal_watchdog_enable(2000)
          MaxSetup,      \* longest setupTopology
          Divisor,       \* of the slow rate group in s_rateDivs
          Durations4Hz,  \* times the 4 Hz group's handlers may take in a tick
          Durations1Hz,  \* times the 1 Hz group's handlers may take in a tick
          AtTimeout,     \* of sendAT: LORA_AT_TIMEOUT_US, after two writes
          ResetTimeout,  \* of sendAT("AT+RESET"), after two writes
          RetryDelay,    \* between two attempts to reach the LoRa module
          SettleDelay,   \* after its reset
          Retries        \* LORA_INIT_RETRIES

ASSUME TimingAssumption ==
    /\ Period \in Nat \ {0} /\ Window \in Nat /\ MaxSetup \in Nat
    /\ MaxSetup + Period < Window
    /\ Divisor \in Nat \ {0}
    /\ Durations4Hz \subseteq Nat /\ Durations1Hz \subseteq Nat
    /\ Durations4Hz # {} /\ Durations1Hz # {}
    /\ {AtTimeout, ResetTimeout, RetryDelay, SettleDelay} \subseteq Nat
    /\ Retries \in Nat \ {0}

VARIABLES s_cycle_flag,  \* set by the timer's callback, cleared by the loop
          pc,            \* the statement of main that is next
          busy,          \* time the work in hand still takes
          cycle,         \* RateGroupDriver's count of ticks, modulo Divisor
          timerOn,       \* whether the repeating timer has been started
          phase,         \* time until its next callback
          age,           \* time since the watchdog was kicked
          length,        \* history: time the handlers of this tick take in all
          owed           \* history: a callback has come since the last tick

vars == <<s_cycle_flag, pc, busy, cycle, timerOn, phase, age, length, owed>>

(* initModule, which LORA_RESET's handler runs, when every one of its      *)
(* exchanges lasts as long as it may.                                      *)
LongestInit == (Retries - 1) * (AtTimeout + RetryDelay) + AtTimeout
                   + ResetTimeout + SettleDelay + 5 * AtTimeout
(* The operators whose names end in _Bug are plausible mistakes in the     *)
(* definition they precede; nothing uses them.                             *)

(* What hw_init leaves: the watchdog runs before setupTopology does.       *)
Init == /\ s_cycle_flag = FALSE
        /\ pc = "setup" /\ busy \in 0 .. MaxSetup
        /\ cycle = 0
        /\ timerOn = FALSE /\ phase = Period
        /\ age = 0 /\ length = 0 /\ owed = FALSE

Alive == age < Window

-----------------------------------------------------------------------------
(* Time and the hardware. *)

(* Time passes: a handler works, or the loop waits for the flag. *)
Advance == /\ Alive
           /\ timerOn => phase > 0
           /\ \/ pc \in {"setup", "run"} /\ busy > 0
              \/ pc = "wait" /\ ~ s_cycle_flag
           /\ age' = age + 1
           /\ phase' = IF timerOn THEN phase - 1 ELSE phase
           /\ busy' = IF pc = "wait" THEN busy ELSE busy - 1
           /\ UNCHANGED <<s_cycle_flag, pc, cycle, timerOn, length, owed>>

(* The callback returns false: the timer does not repeat. *)
RateTimerCallback_Bug ==
    /\ Alive /\ timerOn /\ phase = 0
    /\ s_cycle_flag' = TRUE
    /\ timerOn' = FALSE
    /\ phase' = Period
    /\ owed' = TRUE
    /\ UNCHANGED <<pc, busy, cycle, age, length>>

(* rate_timer_callback.  A callback that finds the flag set is merged with *)
(* the one before.                                                         *)
RateTimerCallback ==
    /\ Alive /\ timerOn /\ phase = 0
    /\ s_cycle_flag' = TRUE
    /\ phase' = Period
    /\ owed' = TRUE
    /\ UNCHANGED <<pc, busy, cycle, timerOn, age, length>>

(* The watchdog has not been kicked for its whole window: the processor    *)
(* starts again.                                                           *)
WatchdogBites ==
    /\ ~ Alive
    /\ s_cycle_flag' = FALSE
    /\ pc' = "setup" /\ busy' \in 0 .. MaxSetup
    /\ cycle' = 0
    /\ timerOn' = FALSE /\ phase' = Period
    /\ age' = 0 /\ length' = 0 /\ owed' = FALSE

-----------------------------------------------------------------------------
(* main. *)

(* The end of setupTopology, and add_repeating_timer_ms. *)
SetupDone == /\ Alive /\ pc = "setup" /\ busy = 0
             /\ pc' = "wait"
             /\ timerOn' = TRUE
             /\ UNCHANGED <<s_cycle_flag, busy, cycle, phase, age, length, owed>>

SeeFlag == /\ Alive /\ pc = "wait" /\ s_cycle_flag
           /\ pc' = "clear"
           /\ UNCHANGED <<s_cycle_flag, busy, cycle, timerOn, phase, age, length, owed>>

ClearFlag == /\ Alive /\ pc = "clear"
             /\ s_cycle_flag' = FALSE
             /\ pc' = "kick"
             /\ UNCHANGED <<busy, cycle, timerOn, phase, age, length, owed>>

(* hal_watchdog_kick. *)
Kick == /\ Alive /\ pc = "kick"
        /\ age' = 0
        /\ pc' = "tick"
        /\ UNCHANGED <<s_cycle_flag, busy, cycle, timerOn, phase, length, owed>>

(* A count of ticks that never returns to zero. *)
TickNoWrap_Bug(fast, slow) ==
    /\ Alive /\ pc = "tick"
    /\ pc' = "run"
    /\ busy' = fast + (IF cycle = 0 THEN slow ELSE 0)
    /\ length' = busy'
    /\ cycle' = cycle + 1
    /\ owed' = FALSE
    /\ UNCHANGED <<s_cycle_flag, timerOn, phase, age>>

(* A count of ticks that starts again from one. *)
TickFromOne_Bug(fast, slow) ==
    /\ Alive /\ pc = "tick"
    /\ pc' = "run"
    /\ busy' = fast + (IF cycle = 0 THEN slow ELSE 0)
    /\ length' = busy'
    /\ cycle' = (cycle % (Divisor - 1)) + 1
    /\ owed' = FALSE
    /\ UNCHANGED <<s_cycle_flag, timerOn, phase, age>>

(* baremetalTimer.tick: the fast rate group's handlers, and in every       *)
(* Divisor-th tick the slow group's too.                                   *)
Tick(fast, slow) ==
    /\ Alive /\ pc = "tick"
    /\ pc' = "run"
    /\ busy' = fast + (IF cycle = 0 THEN slow ELSE 0)
    /\ length' = busy'
    /\ cycle' = (cycle + 1) % Divisor
    /\ owed' = FALSE
    /\ UNCHANGED <<s_cycle_flag, timerOn, phase, age>>

(* The flag is cleared at the end of the tick. *)
TickDone_Bug == /\ Alive /\ pc = "run" /\ busy = 0
                /\ pc' = "wait"
                /\ s_cycle_flag' = FALSE
                /\ UNCHANGED <<busy, cycle, timerOn, phase, age, length, owed>>

TickDone == /\ Alive /\ pc = "run" /\ busy = 0
            /\ pc' = "wait"
            /\ UNCHANGED <<s_cycle_flag, busy, cycle, timerOn, phase, age, length, owed>>

-----------------------------------------------------------------------------
Loop == \/ SetupDone \/ SeeFlag \/ ClearFlag \/ Kick \/ TickDone
        \/ \E fast \in Durations4Hz, slow \in Durations1Hz : Tick(fast, slow)

Next == Advance \/ RateTimerCallback \/ WatchdogBites \/ Loop

Spec == Init /\ [][Next]_vars

(* The processor runs the program and the timer counts. *)
FairSpec == Spec /\ WF_vars(Next)
-----------------------------------------------------------------------------
(* The type invariant. *)
TypeOK == /\ s_cycle_flag \in BOOLEAN
          /\ pc \in {"setup", "wait", "clear", "kick", "tick", "run"}
          /\ busy \in Nat
          /\ cycle \in 0 .. (Divisor - 1)
          /\ timerOn \in BOOLEAN
          /\ phase \in 0 .. Period
          /\ age \in 0 .. Window
          /\ length \in Nat
          /\ owed \in BOOLEAN

(* The watchdog never bites because of the loop, its start or a callback   *)
(* that came at a bad moment: it bites only in a tick whose own handlers   *)
(* take the whole window.                                                  *)
BitesOnlyInLongTick == ~ Alive => pc = "run" /\ length >= Window

(* A callback is always followed by the beginning of a tick, although the  *)
(* interrupt handler and the loop write the same flag without a lock: when *)
(* no tick has begun since the callback, the flag is still set or the loop *)
(* is about to begin one.                                                  *)
NoLostWakeup == owed => s_cycle_flag \/ pc \in {"kick", "tick"}

(* The handlers of both rate groups are run again and again, although      *)
(* ticks are merged and the watchdog restarts the program.                 *)
SlowGroupRunsForever == []<>(pc = "tick" /\ cycle = 0)

-----------------------------------------------------------------------------
(* Where the program stands in its window.  A callback that comes while    *)
(* the flag is set changes nothing here, so the flag matters: while it is  *)
(* clear, the next callback is the one that will lead to the next kick.    *)
WindowKept ==
    /\ pc = "setup" => age + busy <= MaxSetup /\ phase = Period
    /\ timerOn <=> pc # "setup"
    /\ pc \in {"wait", "tick", "run"} /\ ~ s_cycle_flag
           => age + phase <= MaxSetup + Period
    /\ pc = "tick" => age = 0
    /\ pc = "run" => age + busy = length
    /\ pc # "run" => Alive

(* The strengthening that is inductive. *)
IInv == TypeOK /\ WindowKept /\ NoLostWakeup
-----------------------------------------------------------------------------
(* rp2040_hal.h: the watchdog must be kicked within each window.           *)
KickedWithinWindow == Alive
=============================================================================
