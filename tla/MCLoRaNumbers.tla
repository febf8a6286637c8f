--------------------------- MODULE MCLoRaNumbers ---------------------------
(* The instance of LoRaDriver, and beside it a number that is converted:   *)
(* either the driver starts or one number comes, so that the two do not    *)
(* multiply.  Word is small enough for frequencies to leave it.            *)
EXTENDS MCLoRaDriver, AtNumbers

MCOrders == [op : {"sf", "power", "payload"}, arg : 0 .. 255]
            \cup [op : {"freq"}, arg : 0 .. 140]

Letter == 49
MCReports == [op : {"report"}, addr : {0, 1, 65535},
              data : UNION {[1 .. k -> {Letter, Comma, 7}] : k \in 0 .. 4},
              rssi : {-120, -99, -8, 0}, snr10 : {-205, -100, -5, 0, 7, 95, 110}]

(* The driver's and its module's actions while no number has come. *)
DriverRuns == datum = NoDatum /\ UNCHANGED datum /\ Driver
ModuleRuns == datum = NoDatum /\ UNCHANGED datum /\ Module
Calling == datum = NoDatum /\ UNCHANGED datum /\ (Preamble \/ DataIn \/ SchedIn)
Resets == datum = NoDatum /\ UNCHANGED datum /\ CmdReset
Ordering == datum = NoDatum /\ UNCHANGED datum /\ \E c \in UserCommands : CmdSend(c)

Converts == Init /\ DatumComes /\ UNCHANGED vars

MCFairSpec == /\ Init /\ InitDatum
              /\ [][\/ DriverRuns \/ ModuleRuns \/ Calling \/ Resets \/ Ordering
                    \/ Converts]_<<vars, datum>>
              /\ WF_vars(Driver)
=============================================================================
