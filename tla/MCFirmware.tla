----------------------------- MODULE MCFirmware -----------------------------
(* Instances of Firmware for TLC: one with small numbers, in which a tick  *)
(* may end within its period, run over one or two callbacks, or outlast    *)
(* the watchdog's window; and one with the numbers of the code, in units   *)
(* of 10 ms, in which the only long handler is LORA_RESET's.               *)
EXTENDS Firmware

MCShort == 0 .. 5
MCLong == {0, 2, 9, 15}

MCPolls == {1}
MCCodeDurations == {1, LongestInit}
=============================================================================
