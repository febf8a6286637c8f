-------------------------- MODULE MCBatteryMonitor --------------------------
(* A small instance of BatteryMonitor for TLC: a battery that is critical, *)
(* low, half full, or full.                                                *)
EXTENDS BatteryMonitor

MCCharges == {3, 20, 60, 100}
MCThresholds == {0, 11, 12, 70}
=============================================================================
