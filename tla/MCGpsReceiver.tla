--------------------------- MODULE MCGpsReceiver ---------------------------
(* A small instance of GpsReceiver for TLC.  The ring holds less than two  *)
(* sentences, as the 255 bytes of the ring are less than what the receiver *)
(* sends between two polls.                                                *)
EXTENDS GpsReceiver
=============================================================================
