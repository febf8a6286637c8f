---------------------------- MODULE BatteryProofs ----------------------------
(***************************************************************************)
(* Proofs about BatteryMonitor, for every set of charges and thresholds    *)
(* and every number of failed reads.                                       *)
(***************************************************************************)
EXTENDS BatteryMonitor, TLAPS

LEMMA InitIInv == Init => IInv
  <1> SUFFICES ASSUME Init PROVE IInv
    OBVIOUS
  <1>1. TypeOK
    <2>1. /\ charge \in Charges /\ chargeState \in ChargeStates /\ outputOn \in BOOLEAN
          /\ m_lastFull \in BOOLEAN /\ m_criticalEventSent \in BOOLEAN /\ warned \in BOOLEAN
      BY DEF Init
    <2>2. reading \in [percent : 0 .. 100, state : ChargeStates, full : BOOLEAN]
      BY DEF Init, NoReading, ChargeStates
    <2>3. tlm \in [percent : 0 .. 100, state : ChargeStates \cup {NoState}, output : BOOLEAN]
      BY DEF Init
    <2>4. /\ m_lowThreshold \in 1 .. 99 /\ m_i2cErrors \in 0 .. MaxErrors
          /\ fullEvents \in Nat /\ fullEpisodes \in 0 .. MaxFull
          /\ pc \in {"idle", "output"}
          /\ m_lastChargeState \in ChargeStates \cup {NoState}
          /\ toldState \in ChargeStates \cup {NoState}
      BY BatteryAssumption DEF Init
    <2> QED BY <2>1, <2>2, <2>3, <2>4, Zenon DEF TypeOK
  <1>2. StateInv /\ FullReportedOnce /\ ~ Unannounced
    BY DEF Init, StateInv, FullReportedOnce, Unannounced, IsFull
  <1> QED BY <1>1, <1>2 DEF IInv

(* A reading is a percentage. *)
LEMMA PercentType ==
  ASSUME NEW c \in Charges
  PROVE  Percent(c) \in 0 .. 100
  <1>1. c \in 0 .. 100
    BY BatteryAssumption
  <1> QED BY <1>1 DEF Percent, LevelPercent, IsFull

(* The chip may become full at any time: then there is one episode more.   *)
LEMMA ChipStep ==
  ASSUME IInv, ChipChanges
  PROVE  IInv'
  <1> USE DEF IInv, ChipChanges, memberVars, outVars
  <1>1. /\ fullEpisodes \in Nat /\ fullEvents \in Nat /\ fullEvents <= fullEpisodes
        /\ MaxFull \in Nat
    BY BatteryAssumption DEF TypeOK, FullReportedOnce
  <1>2. fullEpisodes' \in 0 .. MaxFull /\ fullEpisodes <= fullEpisodes'
    BY <1>1
  <1>3. TypeOK'
    BY <1>2 DEF TypeOK
  <1>4. StateInv'
    BY DEF StateInv
  <1>5. FullReportedOnce'
    BY <1>1, <1>2 DEF FullReportedOnce
  <1>6. Unannounced' => fullEvents' < fullEpisodes'
    <2>1. CASE IsFull(charge') /\ ~ IsFull(charge)
      BY <1>1, <2>1
    <2>2. CASE Unannounced
      BY <1>1, <1>2, <2>2
    <2>3. CASE ~ Unannounced /\ ~ (IsFull(charge') /\ ~ IsFull(charge))
      BY <2>3 DEF Unannounced
    <2> QED BY <2>1, <2>2, <2>3
  <1> QED BY <1>3, <1>4, <1>5, <1>6

LEMMA ReadStep ==
  ASSUME IInv, ReadStatus
  PROVE  IInv'
  <1> USE DEF IInv, ReadStatus, chipVars, memberVars, outVars
  <1>1. TypeOK'
    <2>1. Percent(charge) \in 0 .. 100
      BY PercentType DEF TypeOK
    <2>2. IsFull(charge) \in BOOLEAN
      BY DEF IsFull
    <2>3. reading' \in [percent : 0 .. 100, state : ChargeStates, full : BOOLEAN]
      BY <2>1, <2>2 DEF TypeOK
    <2> QED BY <2>3 DEF TypeOK
  <1>2. StateInv' /\ FullReportedOnce'
    BY DEF StateInv, FullReportedOnce
  <1>3. Unannounced' => Unannounced
    BY DEF Unannounced
  <1> QED BY <1>1, <1>2, <1>3

LEMMA FailStep ==
  ASSUME IInv, ReadStatusFails
  PROVE  IInv'
  <1> USE DEF IInv, ReadStatusFails, chipVars, outVars
  <1>1. TypeOK'
    BY BatteryAssumption DEF TypeOK
  <1>2. StateInv' /\ FullReportedOnce' /\ (Unannounced' => Unannounced)
    BY DEF StateInv, FullReportedOnce, Unannounced
  <1> QED BY <1>1, <1>2

LEMMA ThresholdStep ==
  ASSUME IInv, NEW t \in Thresholds, SetLowThreshold(t)
  PROVE  IInv'
  <1> USE DEF IInv, SetLowThreshold, chipVars, outVars
  <1>1. TypeOK'
    BY DEF TypeOK
  <1>2. StateInv' /\ FullReportedOnce' /\ (Unannounced' => Unannounced)
    BY DEF StateInv, FullReportedOnce, Unannounced
  <1> QED BY <1>1, <1>2

(* A poll that publishes tells the state it has read, and a full battery   *)
(* only if there is an episode left.                                       *)
LEMMA PublishStep ==
  ASSUME IInv, NEW ok \in BOOLEAN, Publish(ok)
  PROVE  IInv'
  <1> USE DEF IInv, Publish, chipVars
  <1>1. /\ fullEpisodes \in 0 .. MaxFull /\ fullEvents \in Nat /\ fullEvents <= fullEpisodes
        /\ MaxFull \in Nat /\ fullEpisodes' = fullEpisodes /\ charge' = charge
        /\ pc = "output" /\ pc' = "idle" /\ m_lastFull' = reading.full
        /\ reading \in [percent : 0 .. 100, state : ChargeStates, full : BOOLEAN]
    BY BatteryAssumption DEF TypeOK, FullReportedOnce
  <1>2. /\ m_lastChargeState' = reading.state /\ tlm'.state = reading.state
        /\ toldState' = reading.state
    BY DEF StateInv, StateEvents, TypeOK
  <1>3. fullEvents' \in Nat /\ fullEvents' <= fullEpisodes'
    <2>1. CASE reading.full /\ ~ m_lastFull
      BY <1>1, <2>1 DEF Unannounced
    <2>2. CASE ~ (reading.full /\ ~ m_lastFull)
      BY <1>1, <2>2
    <2> QED BY <2>1, <2>2
  <1>4. Unannounced' => fullEvents' < fullEpisodes'
    BY <1>1 DEF Unannounced
  <1>5. TypeOK'
    <2>1. m_criticalEventSent' \in BOOLEAN /\ warned' \in BOOLEAN
      BY DEF ThresholdEvents, TypeOK
    <2>2. tlm' \in [percent : 0 .. 100, state : ChargeStates \cup {NoState}, output : BOOLEAN]
      BY <1>1 DEF TypeOK
    <2>3. reading' \in [percent : 0 .. 100, state : ChargeStates, full : BOOLEAN]
      BY DEF NoReading, ChargeStates
    <2>4. m_lastFull' \in BOOLEAN /\ reading.state \in ChargeStates
      BY <1>1
    <2> QED BY <1>1, <1>2, <1>3, <2>1, <2>2, <2>3, <2>4 DEF TypeOK
  <1> QED BY <1>2, <1>3, <1>4, <1>5 DEF StateInv, FullReportedOnce

LEMMA NextIInv == IInv /\ [Next]_vars => IInv'
  <1> SUFFICES ASSUME IInv, [Next]_vars PROVE IInv'
    OBVIOUS
  <1>1. CASE UNCHANGED vars
    BY <1>1 DEF vars, chipVars, memberVars, outVars, IInv, TypeOK, StateInv, FullReportedOnce,
                Unannounced
  <1> QED BY <1>1, ChipStep, ReadStep, FailStep, ThresholdStep, PublishStep DEF Next, Poll

-----------------------------------------------------------------------------
(* The inductive invariant holds in every reachable state. *)
THEOREM BatteryInvariant == Spec => []IInv
  BY InitIInv, NextIInv, PTL DEF Spec

(* The members of the component and its telemetry keep their types. *)
THEOREM BatteryTypeCorrect == Spec => []TypeOK
  <1>1. IInv => TypeOK
    BY DEF IInv
  <1> QED BY <1>1, BatteryInvariant, PTL

(* The last charge-state event and the telemetry tell the same, whichever  *)
(* reads fail and however the chip changes between the two of a poll.      *)
THEOREM EventsAgree == Spec => []EventsAgreeWithTelemetry
  <1>1. IInv => EventsAgreeWithTelemetry
    BY DEF IInv, StateInv, EventsAgreeWithTelemetry
  <1> QED BY <1>1, BatteryInvariant, PTL

(* BatteryFull is sent at most once for each time the battery fills up.    *)
THEOREM FullOnce == Spec => []FullReportedOnce
  <1>1. IInv => FullReportedOnce
    BY DEF IInv
  <1> QED BY <1>1, BatteryInvariant, PTL
=============================================================================
