----------------------------- MODULE NmeaFields -----------------------------
(***************************************************************************)
(* The conversions of Components/GpsReceiver: parseDegMin, parseFP and     *)
(* parseU8, applied to a field of a sentence.                              *)
(***************************************************************************)
EXTENDS Digits

CONSTANT Fields  \* the fields that may come, as texts

(* At most five characters stand before the point, three digits of degrees *)
(* and two of minutes, so that int32_t does not overflow.                  *)
ASSUME FieldsAssumption ==
    /\ Fields \subseteq Seq(Char)
    /\ \A text \in Fields : Len(text) > 5 => \E i \in 1 .. 6 : text[i] = Dot

VARIABLE field   \* the field that is converted

NoField == <<>>
FieldComes == field = NoField /\ field' \in Fields
FieldSpec == field = NoField /\ [][FieldComes]_field

(* The operators whose names end in _Bug are plausible mistakes in the     *)
(* definition they precede; nothing uses them.                             *)

Refused == [ok |-> FALSE, val |-> 0]
Value(val) == [ok |-> TRUE, val |-> val]

-----------------------------------------------------------------------------
Million == 1000000

(* Minutes are divided before they are scaled. *)
MinutesToMicro_Bug(minutes, frac) == ((minutes * 10000 + frac) \div 60) * 100

(* Minutes and their four decimals, in millionths of a degree. *)
MinutesToMicro(minutes, frac) == ((minutes * 10000 + frac) * 100) \div 60

(* parseDegMin: ddmm.mmmm, or dddmm.mmmm, and a hemisphere. *)
ParseDegMin(text, south) ==
    LET dot == FirstIn(text, Dot, 1, 16)
        whole == SubSeq(text, 1, dot - 1)
        decimals == DigitRun(text, dot + 1, 4)
        frac == Number(decimals) * Pow10[4 - Len(decimals)]
        degrees == Number(SubSeq(whole, 1, dot - 3))
        minutes == Number(SubSeq(whole, dot - 2, dot - 1))
    IN  IF dot < 4 \/ \E i \in 1 .. (dot - 1) : ~ IsDigit(whole[i]) THEN Refused
        ELSE Value(Signed(south, degrees * Million + MinutesToMicro(minutes, frac)))

(* The sign goes to the integer part alone. *)
FixedPoint_Bug(negative, integer, frac, scale) == Signed(negative, integer * scale) + frac

FixedPoint(negative, integer, frac, scale) == Signed(negative, integer * scale + frac)

(* parseFP for a scale of 10^decimals; the code calls it for 100.  A text  *)
(* with no digits but a sign or a point is taken for zero.                 *)
ParseFP(text, decimals) ==
    LET negative == CharAt(text, 1) = Minus
        start == IF negative THEN 2 ELSE 1
        dot == FirstIn(text, Dot, start, Len(text))
        end == IF dot = 0 THEN Len(text) ELSE dot - 1
        frac == IF dot = 0 THEN <<>> ELSE DigitRun(text, dot + 1, decimals)
    IN  IF text = <<>> \/ \E i \in start .. end : ~ IsDigit(text[i]) THEN Refused
        ELSE Value(FixedPoint(negative, Number(SubSeq(text, start, end)),
                              Number(frac) * Pow10[decimals - Len(frac)], Pow10[decimals]))

(* The range is not tested: the cast to U8 wraps. *)
ToU8_Bug(val) == Value(val % 256)

ToU8(val) == IF val > 255 THEN Refused ELSE Value(val)

(* parseU8 reads four characters, whatever follows, and takes an empty     *)
(* field for zero.                                                         *)
ParseU8(text) ==
    LET read == SubSeq(text, 1, IF Len(text) < 4 THEN Len(text) ELSE 4)
    IN  IF \E i \in 1 .. Len(read) : ~ IsDigit(read[i]) THEN Refused ELSE ToU8(Number(read))

-----------------------------------------------------------------------------
(* What a field says: the digits on either side of its point, if it is     *)
(* made of digits and at most one point, as a number of 1 / 10^places.     *)
IsDecimal(text) == /\ \A i \in 1 .. Len(text) : IsDigit(text[i]) \/ text[i] = Dot
                   /\ \A i, j \in 1 .. Len(text) : text[i] = Dot /\ text[j] = Dot => i = j

Scaled(text, places) ==
    LET dot == FirstIn(text, Dot, 1, Len(text))
        before == IF dot = 0 THEN text ELSE SubSeq(text, 1, dot - 1)
        behind == IF dot = 0 THEN <<>> ELSE SubSeq(text, dot + 1, Len(text))
        all == Number(before \o behind)
    IN  IF Len(behind) <= places THEN all * Pow10[places - Len(behind)]
        ELSE all \div Pow10[Len(behind) - places]

(* A position is the field's, rounded towards zero: the fourth decimal of  *)
(* the minutes is the last that counts, so it falls short by less than 2.5 *)
(* millionths of a degree (15 of the sixths compared here), and south and  *)
(* north of the equator alike.                                             *)
DegMinRoundsDown ==
    LET north == ParseDegMin(field, FALSE)
        south == ParseDegMin(field, TRUE)
        exact == Scaled(field, 5)             \* ddmm in 1 / 10^5 minutes
        micro == north.val - Million * (exact \div (10 * Million))
        sixths == exact % (10 * Million)
    IN  /\ IsDecimal(field) /\ north.ok => 6 * micro <= sixths /\ sixths < 6 * micro + 15
        /\ south.ok = north.ok /\ south.val = - north.val

(* A height or a dilution is the field's in hundredths, the rest of its    *)
(* decimals cut off, and a sign turns the whole of it: also -0.5.          *)
FixedPointExact ==
    /\ IsDecimal(field) /\ field # <<>>
         => ParseFP(field, 2) = Value(Scaled(field, 2))
    /\ (field # <<>> /\ Head(field) = Minus /\ IsDecimal(Tail(field)))
         => ParseFP(field, 2) = Value(- Scaled(Tail(field), 2))

(* A count that is taken is the field's number and fits a byte; one that   *)
(* does not fit is refused and never wraps.  A field of more than four     *)
(* characters is judged by its first four.                                 *)
CountsExact ==
    LET read == SubSeq(field, 1, IF Len(field) < 4 THEN Len(field) ELSE 4)
        count == ParseU8(field)
    IN  /\ count.ok => count.val \in 0 .. 255 /\ count.val = Scaled(read, 0)
        /\ (\A i \in 1 .. Len(read) : IsDigit(read[i]))
             => (count.ok <=> Scaled(read, 0) <= 255)
=============================================================================
