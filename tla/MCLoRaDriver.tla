---------------------------- MODULE MCLoRaDriver ----------------------------
(* Small instances of LoRaDriver for TLC.  DrainLimit is one more than the *)
(* ring's capacity, as 256 is one more than 255 in the code.               *)
EXTENDS LoRaDriver

MCRfSettings == <<"BAND", "CRFOP">>
MCUserCommands == {"RESET", "BADPARAMETER"}

(* Packets come while the driver sends; the operator's commands, which     *)
(* would multiply with them, are left to the other instance.               *)
MCDownlinkSpec == Init /\ [][Driver \/ Module \/ Preamble \/ DataIn \/ SchedIn]_vars
=============================================================================
