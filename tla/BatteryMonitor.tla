--------------------------- MODULE BatteryMonitor ---------------------------
(***************************************************************************)
(* Components/BatteryMonitor: the 1 Hz poll of the IP5306 battery chip     *)
(* over I2C1, with the telemetry and the events made of what it reads.     *)
(*                                                                         *)
(* A poll reads the chip twice: the status registers 0x70 to 0x72 in one   *)
(* burst, and the output-enable bit of 0x77 on its own; either read may    *)
(* fail, and the chip may change between them.                             *)
(***************************************************************************)
EXTENDS Naturals

CONSTANTS Charges,     \* true charge of the battery, in percent
          Thresholds,  \* thresholds the operator sets
          MaxErrors,   \* bound: failed reads of the status registers
          MaxFull      \* bound: times the battery becomes full

ASSUME BatteryAssumption ==
    /\ Charges \subseteq 0 .. 100 /\ Charges # {}
    /\ Thresholds \subseteq 0 .. 255
    /\ MaxErrors \in Nat /\ MaxFull \in Nat

BATTERY_CRITICAL_THRESHOLD == 5
NoState == 255                     \* the sentinel of m_lastChargeState
ChargeStates == {0, 2, 4}          \* not charging, constant current, done
IsCharging(state) == state \in 1 .. 3
IsFull(charge) == charge = 100

(* The operators whose names end in _Bug are plausible mistakes in the     *)
(* definition they precede; nothing uses them.                             *)

VARIABLES
    \* the chip: true charge, CHARGE_STATE, OUTPUT_EN
    charge, chargeState, outputOn,
    \* members of BatteryMonitor
    m_lowThreshold, m_lastChargeState, m_lastFull, m_i2cErrors, m_criticalEventSent,
    \* where the poll stands and what its first read brought
    pc, reading,
    \* telemetry, and the state the last ChargeStateChanged event told
    tlm, toldState,
    \* history: whether the last poll that published sent BatteryLow, and
    \* counts of BatteryFull and of what it reports
    warned, fullEvents, fullEpisodes

chipVars == <<charge, chargeState, outputOn>>
memberVars == <<m_lowThreshold, m_lastChargeState, m_lastFull, m_i2cErrors,
                m_criticalEventSent>>
outVars == <<tlm, toldState, warned, fullEvents>>
vars == <<chipVars, memberVars, pc, reading, outVars, fullEpisodes>>

NoReading == [percent |-> 0, state |-> 0, full |-> FALSE]

Init == /\ charge \in Charges /\ ~ IsFull(charge)
        /\ chargeState \in ChargeStates /\ outputOn \in BOOLEAN
        /\ m_lowThreshold = 20 /\ m_lastChargeState = NoState /\ m_lastFull = FALSE
        /\ m_i2cErrors = 0 /\ m_criticalEventSent = FALSE
        /\ pc = "idle" /\ reading = NoReading
        /\ tlm = [percent |-> 0, state |-> NoState, output |-> FALSE]
        /\ toldState = NoState
        /\ warned = FALSE /\ fullEvents = 0 /\ fullEpisodes = 0

-----------------------------------------------------------------------------
(* The battery and the chip change as they like. *)
ChipChanges ==
    /\ charge' \in Charges /\ chargeState' \in ChargeStates /\ outputOn' \in BOOLEAN
    /\ fullEpisodes' = fullEpisodes + (IF IsFull(charge') /\ ~ IsFull(charge) THEN 1 ELSE 0)
    /\ fullEpisodes' <= MaxFull
    /\ UNCHANGED <<memberVars, pc, reading, outVars>>

(* kLevelPercent of BATTERY_LEVEL, which has a value for each quarter.     *)
LevelPercent(c) == CASE c <= 25 -> 12
                     [] c \in 26 .. 50 -> 37
                     [] c \in 51 .. 75 -> 62
                     [] c > 75 -> 88

Percent(c) == IF IsFull(c) THEN 100 ELSE LevelPercent(c)

(* A failed read forgets what was full. *)
ReadStatusFails_Bug == /\ pc = "idle" /\ m_i2cErrors < MaxErrors
                       /\ m_i2cErrors' = m_i2cErrors + 1
                       /\ m_lastFull' = FALSE
                       /\ UNCHANGED <<chipVars, m_lowThreshold, m_lastChargeState,
                                      m_criticalEventSent, pc, reading, outVars, fullEpisodes>>

(* The first read of doPoll fails: the poll ends. *)
ReadStatusFails == /\ pc = "idle" /\ m_i2cErrors < MaxErrors
                   /\ m_i2cErrors' = m_i2cErrors + 1
                   /\ UNCHANGED <<chipVars, m_lowThreshold, m_lastChargeState, m_lastFull,
                                  m_criticalEventSent, pc, reading, outVars, fullEpisodes>>

ReadStatus == /\ pc = "idle"
              /\ pc' = "output"
              /\ reading' = [percent |-> Percent(charge), state |-> chargeState,
                             full |-> IsFull(charge)]
              /\ UNCHANGED <<chipVars, memberVars, outVars, fullEpisodes>>

(* The comparison is strict. *)
ThresholdEvents_Bug ==
    LET fatal == reading.percent <= BATTERY_CRITICAL_THRESHOLD /\ ~ m_criticalEventSent
    IN  IF IsCharging(reading.state)
        THEN /\ m_criticalEventSent' = FALSE
             /\ warned' = FALSE
        ELSE /\ m_criticalEventSent' = (m_criticalEventSent \/ fatal)
             /\ warned' = (~ fatal /\ reading.percent < m_lowThreshold)

(* The threshold events of a poll. *)
ThresholdEvents ==
    LET fatal == reading.percent <= BATTERY_CRITICAL_THRESHOLD /\ ~ m_criticalEventSent
    IN  IF IsCharging(reading.state)
        THEN /\ m_criticalEventSent' = FALSE
             /\ warned' = FALSE
        ELSE /\ m_criticalEventSent' = (m_criticalEventSent \/ fatal)
             /\ warned' = (~ fatal /\ reading.percent <= m_lowThreshold)

(* The change is noted only while the battery discharges. *)
StateEvents_Bug == /\ toldState' = IF reading.state # m_lastChargeState
                                   THEN reading.state ELSE toldState
                   /\ m_lastChargeState' = IF IsCharging(reading.state)
                                           THEN m_lastChargeState ELSE reading.state

(* The charge-state event of a poll. *)
StateEvents == /\ toldState' = IF reading.state # m_lastChargeState
                               THEN reading.state ELSE toldState
               /\ m_lastChargeState' = reading.state

(* The rest of doPoll.  A failed second read is taken for a disabled       *)
(* output.                                                                 *)
Publish(ok) ==
    /\ pc = "output"
    /\ pc' = "idle"
    /\ reading' = NoReading
    /\ tlm' = [percent |-> reading.percent, state |-> reading.state,
               output |-> ok /\ outputOn]
    /\ ThresholdEvents
    /\ StateEvents
    /\ fullEvents' = fullEvents + (IF reading.full /\ ~ m_lastFull THEN 1 ELSE 0)
    /\ m_lastFull' = reading.full
    /\ UNCHANGED <<chipVars, m_lowThreshold, m_i2cErrors, fullEpisodes>>

(* Every threshold is taken. *)
SetLowThreshold_Bug(t) ==
                      /\ pc = "idle"
                      /\ m_lowThreshold' = t
                      /\ UNCHANGED <<chipVars, m_lastChargeState, m_lastFull, m_i2cErrors,
                                     m_criticalEventSent, pc, reading, outVars, fullEpisodes>>

(* BATTERY_SET_LOW_THRESHOLD; other values are refused. *)
SetLowThreshold(t) == /\ pc = "idle" /\ t \in 1 .. 99
                      /\ m_lowThreshold' = t
                      /\ UNCHANGED <<chipVars, m_lastChargeState, m_lastFull, m_i2cErrors,
                                     m_criticalEventSent, pc, reading, outVars, fullEpisodes>>

-----------------------------------------------------------------------------
(* schedIn and BATTERY_POLL both poll. *)
Poll == ReadStatus \/ ReadStatusFails \/ \E ok \in BOOLEAN : Publish(ok)

Next == ChipChanges \/ Poll \/ \E t \in Thresholds : SetLowThreshold(t)

Spec == Init /\ [][Next]_vars

(* The 1 Hz rate group polls for ever; failures of the bus are bounded. *)
FairSpec == Spec /\ WF_vars(Poll)
-----------------------------------------------------------------------------
(* The type invariant. *)
TypeOK == /\ charge \in Charges /\ chargeState \in ChargeStates /\ outputOn \in BOOLEAN
          /\ m_lowThreshold \in 1 .. 99
          /\ m_lastChargeState \in ChargeStates \cup {NoState}
          /\ m_lastFull \in BOOLEAN /\ m_criticalEventSent \in BOOLEAN
          /\ m_i2cErrors \in 0 .. MaxErrors
          /\ pc \in {"idle", "output"}
          /\ reading \in [percent : 0 .. 100, state : ChargeStates, full : BOOLEAN]
          /\ tlm \in [percent : 0 .. 100, state : ChargeStates \cup {NoState},
                      output : BOOLEAN]
          /\ toldState \in ChargeStates \cup {NoState}
          /\ warned \in BOOLEAN
          /\ fullEvents \in Nat /\ fullEpisodes \in 0 .. MaxFull

(* The event stream and the telemetry tell the same charge state, across   *)
(* failed polls and changes of the chip between the reads of a poll.       *)
EventsAgreeWithTelemetry == toldState = tlm.state

(* BatteryFull is sent at most once for each time the battery became full: *)
(* a failed poll in between does not make the same charge look new.        *)
FullReportedOnce == fullEvents <= fullEpisodes

(* The inductive invariant behind them.  A full battery that is yet to be  *)
(* announced is in the chip, or in the reading of a poll under way, and    *)
(* for each there is an episode that no event has told.                    *)
StateInv == m_lastChargeState = toldState /\ toldState = tlm.state

Unannounced == \/ pc = "idle" /\ ~ m_lastFull /\ IsFull(charge)
               \/ pc = "output" /\ ~ m_lastFull /\ reading.full
               \/ pc = "output" /\ ~ reading.full /\ IsFull(charge)

IInv == /\ TypeOK /\ StateInv
        /\ FullReportedOnce
        /\ Unannounced => fullEvents < fullEpisodes

(* The published percentage is at or below the threshold and the battery   *)
(* is not charging. *)
Low == Percent(charge) <= m_lowThreshold /\ ~ IsCharging(chargeState)

(* A battery that stays low is warned of, poll after poll, in the end.     *)
LowBatteryReported == <>[]Low => <>[]warned

-----------------------------------------------------------------------------
(* fpp: BatteryCritical is sent when the battery has dropped to 5 % or     *)
(* below.  A battery that stays that flat and discharges would then be     *)
(* reported as critical in the end.                                        *)
CriticalReported ==
    <>[](charge <= BATTERY_CRITICAL_THRESHOLD /\ ~ IsCharging(chargeState))
      => <>m_criticalEventSent
=============================================================================
