---------------------------- MODULE MCGpsFields ----------------------------
(* The instance of GpsReceiver, and beside it a field that is converted:   *)
(* either the receiver starts or one field comes, so that the two do not   *)
(* multiply.  The fields are positions with up to five decimals, the       *)
(* example of GpsReceiver.fpp among them, and every short text of digits,  *)
(* points, signs and another character.                                    *)
EXTENDS MCGpsReceiver, NmeaFields

Other == 15
Texts(C, n) == UNION {[1 .. k -> C] : k \in 0 .. n}

MCFields == {w \o <<Dot>> \o d : w \in Texts({0, 1, 8}, 4) \cup {<<1, 7, 9, 5, 9>>},
                                 d \in Texts({0, 5, 9}, 3) \cup {<<9, 9, 9, 9, 9>>,
                                         <<0, 0, 0, 1, 9>>, <<8, 3, 3, 3>>, <<0, 0, 1, 0, 5>>}}
            \cup {<<3, 8, 0, 7, Dot, 4, 2, 3>>}
            \cup {<<Minus>> \o w \o <<Dot>> \o d : w \in Texts({0, 2}, 2), d \in Texts({0, 7}, 3)}
            \cup Texts({0, 2, 5, Dot, Minus, Other}, 5)

(* The receiver's actions while no field has come. *)
Sends == field = NoField /\ UNCHANGED field /\ \E kind \in Kinds : Send(kind)
Arrives == field = NoField /\ UNCHANGED field /\ RxIrq
Polls == field = NoField /\ UNCHANGED field /\ (SchedIn \/ DrainEnd)
Splits == field = NoField /\ UNCHANGED field /\ DrainLf
Stores == field = NoField /\ UNCHANGED field /\ DrainByte
Resets == field = NoField /\ UNCHANGED field /\ GpsReset
Enables == field = NoField /\ UNCHANGED field /\ \E enabled \in BOOLEAN : GpsSetEnabled(enabled)

Converts == Init /\ FieldComes /\ UNCHANGED vars

MCInit == \E none \in {NoField} : Init /\ field = none

MCSpec == /\ MCInit
          /\ [][\/ Sends \/ Arrives \/ Polls \/ Splits \/ Stores \/ Resets \/ Enables
                \/ Converts]_<<vars, field>>
=============================================================================
