----------------------------- MODULE AtNumbers -----------------------------
(***************************************************************************)
(* The numbers in the lines between Components/LoRaDriver and its module:  *)
(* what the operator's commands and dataIn write into AT commands, and     *)
(* what parseRcv reads from the report of a packet.                        *)
(***************************************************************************)
EXTENDS Digits

CONSTANTS Word,     \* 2^32: unsigned arithmetic is modulo this
          Orders,   \* commands with a number: records [op, arg]
          Reports   \* reports: records [op, addr, data, rssi, snr10]

VARIABLE datum      \* what is converted: an order, a report, or nothing

NoDatum == [op |-> "none"]
InitDatum == datum = NoDatum
DatumComes == datum = NoDatum /\ datum' \in Orders \cup Reports
DatumSpec == InitDatum /\ [][DatumComes]_datum

(* The operators whose names end in _Bug are plausible mistakes in the     *)
(* definition they precede; nothing uses them.                             *)

-----------------------------------------------------------------------------
(* Decimal digits of a number, the first one first. *)
DecimalDigits[val \in Nat] ==
    IF val < 10 THEN <<val>> ELSE Append(DecimalDigits[val \div 10], val % 10)

(* A word has at most ten digits, as many as u32toa's own buffer. *)
ASSUME WordAssumption == Word \in Nat \ {0} /\ Len(DecimalDigits[Word - 1]) <= 10

ASSUME OrdersAssumption ==
    Orders \subseteq [op : {"sf", "power", "payload", "freq"}, arg : 0 .. (Word - 1)]

(* A buffer that is too short keeps the last digits. *)
U32toA_Bug(val, bufLen) ==
    LET all == DecimalDigits[val]
        kept == IF Len(all) < bufLen THEN Len(all) ELSE bufLen - 1
    IN  SubSeq(all, Len(all) - kept + 1, Len(all))

(* u32toa: a buffer that is too short keeps the first digits. *)
U32toA(val, bufLen) ==
    LET all == DecimalDigits[val]
        kept == IF Len(all) < bufLen THEN Len(all) ELSE bufLen - 1
    IN  SubSeq(all, 1, kept)

(* LORA_SET_FREQ: the argument is in kHz, the module's is in Hz. *)
FreqText(freqKHz) == U32toA((freqKHz * 1000) % Word, 12)

(* LORA_SET_SF: one character, '0' + sf. *)
SfText(sf) == <<sf>>

(* The buffer has room for one digit and NUL. *)
PowerText_Bug(powerDbm) == U32toA(powerDbm, 2)

PowerText(powerDbm) == U32toA(powerDbm, 4)
PayloadLenText(payloadLen) == U32toA(payloadLen, 6)

(* The number in the command that is sent, unless the order is refused. *)
Taken(order) == CASE order.op = "sf" -> order.arg \in 7 .. 12
                  [] order.op = "power" -> order.arg <= 22
                  [] order.op = "payload" -> order.arg <= 80
                  [] order.op = "freq" -> TRUE

SentText(order) == CASE order.op = "sf" -> SfText(order.arg)
                     [] order.op = "power" -> PowerText(order.arg)
                     [] order.op = "payload" -> PayloadLenText(order.arg)
                     [] order.op = "freq" -> FreqText(order.arg)

-----------------------------------------------------------------------------
(* parseRcv, behind "+RCV=". *)

(* The comma that ends a field of at most so many characters; 0 if none.   *)
FieldEnd(text, from, most) == FirstIn(text, Comma, from, from + most)

I16Half == 32768
AsI16(val) == ((val + I16Half) % (2 * I16Half)) - I16Half

RcvRefused == [ok |-> FALSE, rssi |-> 0, snr10 |-> 0]

(* The sign of an SNR whose integer part is zero is lost. *)
Snr10_Bug(negative, integer, tenths) ==
    10 * Signed(negative, integer) + (IF negative /\ integer > 0 THEN - tenths ELSE tenths)

Snr10(negative, integer, tenths) == Signed(negative, 10 * integer + tenths)

(* Address, length and data are skipped to the next comma, whatever the    *)
(* length says; then come RSSI and SNR, of which one decimal is read.      *)
RcvFields(text) ==
    LET addrEnd == FieldEnd(text, 1, 8)
        lenEnd == FieldEnd(text, addrEnd + 1, 4)
        dataEnd == FieldEnd(text, lenEnd + 1, 100)
        rssiNeg == CharAt(text, dataEnd + 1) = Minus
        rssiAt == dataEnd + (IF rssiNeg THEN 2 ELSE 1)
        rssi == DigitRun(text, rssiAt, 6)
        rssiEnd == rssiAt + Len(rssi)
        snrNeg == CharAt(text, rssiEnd + 1) = Minus
        snrAt == rssiEnd + (IF snrNeg THEN 2 ELSE 1)
        snr == DigitRun(text, snrAt, 4)
        point == snrAt + Len(snr)
        tenths == IF CharAt(text, point) = Dot /\ IsDigit(CharAt(text, point + 1))
                  THEN text[point + 1] ELSE 0
    IN  IF 0 \in {addrEnd, lenEnd, dataEnd} \/ CharAt(text, rssiEnd) # Comma
        THEN RcvRefused
        ELSE [ok |-> TRUE, rssi |-> AsI16(Signed(rssiNeg, Number(rssi))),
              snr10 |-> AsI16(Snr10(snrNeg, Number(snr), tenths))]

(* How the module writes a report. *)
SignText(val) == IF val < 0 THEN <<Minus>> ELSE <<>>
Magnitude(val) == IF val < 0 THEN - val ELSE val
ReportText(r) ==
    DecimalDigits[r.addr] \o <<Comma>> \o DecimalDigits[Len(r.data)] \o <<Comma>>
      \o r.data \o <<Comma>>
      \o SignText(r.rssi) \o DecimalDigits[Magnitude(r.rssi)] \o <<Comma>>
      \o SignText(r.snr10) \o DecimalDigits[Magnitude(r.snr10) \div 10]
      \o (IF r.snr10 % 10 = 0 THEN <<>> ELSE <<Dot, Magnitude(r.snr10) % 10>>)

(* A report holds no more than parseRcv skips or reads: an address of at   *)
(* most eight digits, data of at most 100 characters, an RSSI of at most   *)
(* three digits, an SNR that fits I16.                                     *)
ASSUME ReportsAssumption ==
    \A r \in Reports : /\ r.op = "report"
                       /\ r.addr \in Nat /\ Len(DecimalDigits[r.addr]) <= 8
                       /\ r.data \in Seq(Char) /\ Len(r.data) <= 100
                       /\ r.rssi \in Int /\ Magnitude(r.rssi) <= 999
                       /\ r.snr10 \in Int /\ Magnitude(r.snr10) < I16Half

-----------------------------------------------------------------------------
(* What an order means to the module. *)
Meaning(order) == IF order.op = "freq" THEN order.arg * 1000 ELSE order.arg

ReadsAs(text, val) == (\A i \in 1 .. Len(text) : IsDigit(text[i])) /\ Number(text) = val

(* The module is told the number that the operator gave, in each of its    *)
(* buffers, but for two: a spreading factor of 10 to 12, which is allowed  *)
(* and written as one character that is no digit, and a frequency that     *)
(* leaves the word when it is turned into Hz.                              *)
ArgumentArrives ==
    datum \in Orders /\ Taken(datum)
      => (ReadsAs(SentText(datum), Meaning(datum))
            <=> ~ (datum.op = "sf" /\ datum.arg > 9)
                /\ ~ (datum.op = "freq" /\ datum.arg * 1000 >= Word))

(* A number that does not fit its buffer loses its last digits, and        *)
(* nothing is written behind the buffer.                                   *)
ShortBufferKeepsHead ==
    datum \in Orders =>
        \A bufLen \in 2 .. 12 :
            LET text == U32toA(datum.arg, bufLen)
            IN  /\ Len(text) < bufLen
                /\ \/ ReadsAs(text, datum.arg)
                   \/ Len(text) = bufLen - 1 /\ datum.arg >= Pow10[Len(text)]
                      /\ \E k \in 1 .. 9 : ReadsAs(text, datum.arg \div Pow10[k])

(* A report is read as the module wrote it if its data has no comma.  Data *)
(* that ends in a comma and a number forges the report: the number passes  *)
(* for the RSSI, cut to I16, and the RSSI for the SNR.                     *)
ReportReadBack ==
    datum \in Reports =>
        LET got == RcvFields(ReportText(datum))
            comma == FirstIn(datum.data, Comma, 1, Len(datum.data))
            tail == SubSeq(datum.data, comma + 1, Len(datum.data))
        IN  IF comma = 0
            THEN got = [ok |-> TRUE, rssi |-> datum.rssi, snr10 |-> datum.snr10]
            ELSE (Len(tail) \in 1 .. 6 /\ \A i \in 1 .. Len(tail) : IsDigit(tail[i]))
                   => got = [ok |-> TRUE, rssi |-> AsI16(Number(tail)),
                             snr10 |-> 10 * datum.rssi]
=============================================================================
