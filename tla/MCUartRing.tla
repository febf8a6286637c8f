----------------------------- MODULE MCUartRing -----------------------------
(* A small instance of UartRing for TLC: the receive ring has four slots.  *)
EXTENDS UartRing

CONSTANTS b0, b1   \* two byte values, enough to tell order and loss apart

MCByte == {b0, b1}
=============================================================================
