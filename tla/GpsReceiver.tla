---------------------------- MODULE GpsReceiver ----------------------------
(***************************************************************************)
(* Components/GpsReceiver: the 1 Hz task that assembles NMEA lines from    *)
(* UART1's ring and publishes the GGA sentences among them.                *)
(*                                                                         *)
(* A sentence is two tokens and LF: its head holds the talker, the time    *)
(* and the position, its tail the fix quality, the other fields and the    *)
(* checksum.  So a full ring (the receiver sends more in a second than the *)
(* ring holds) can lose either half or the end of a line, and what it      *)
(* leaves is glued to the next sentence.  Sentences are numbered.          *)
(***************************************************************************)
EXTENDS Naturals, Sequences

CONSTANTS RingCapacity,  \* tokens the UART1 ring can hold
          LineCapacity,  \* NMEA_LINE_BUF_SIZE - 1, in tokens
          DrainLimit,    \* drain_limit of schedIn, in tokens
          MaxSentences,  \* bound: sentences the receiver sends
          MaxCalls       \* bound: operator commands

ASSUME CapacityAssumption ==
    /\ RingCapacity \in Nat \ {0} /\ LineCapacity \in Nat \ {0, 1}
    /\ DrainLimit \in Nat \ {0}
    /\ MaxSentences \in Nat /\ MaxCalls \in Nat

(* GGA sentences: with a fix; with a position but quality 0, as when a fix *)
(* is outside the receiver's limits; with quality 0 and empty fields for   *)
(* the position.  And any other sentence.                                  *)
Kinds == {"fix", "weak", "void", "other"}
Half == [part : {"head", "tail"}, kind : Kinds, n : 1 .. MaxSentences]
LF == [part |-> "LF", kind |-> "LF", n |-> 0]

(* The operators whose names end in _Bug are plausible mistakes in the     *)
(* definition they precede; nothing uses them.                             *)

VARIABLES
    \* members of GpsReceiver
    m_lineBuf, m_enabled, m_lastFixQuality, m_sentenceCount,
    \* UART1's ring, whether schedIn is draining it, and how much it drained
    rx, pc, drained,
    \* tokens the receiver is sending, and sentences it has sent
    air, sent,
    \* telemetry: the sentences that UtcTime and the position come from, and
    \* what the events have last said of the fix
    utc, position, told,
    \* history: tokens taken from the ring since the last LF, the last
    \* sentence that had begun to arrive at the last GPS_RESET, the last that
    \* has begun to arrive, commands executed
    line, floor, begun, calls

lineVars == <<m_lineBuf, m_enabled, m_lastFixQuality, m_sentenceCount>>
tlmVars == <<utc, position, told>>
vars == <<lineVars, rx, pc, drained, air, sent, tlmVars, line, floor, begun, calls>>

Init == /\ m_lineBuf = <<>> /\ m_enabled = TRUE
        /\ m_lastFixQuality = 0 /\ m_sentenceCount = 0
        /\ rx = <<>> /\ pc = "idle" /\ drained = 0
        /\ air = <<>> /\ sent = 0
        /\ utc = 0 /\ position = 0 /\ told = "lost"
        /\ line = <<>> /\ floor = 0 /\ begun = 0 /\ calls = 0

-----------------------------------------------------------------------------
(* The receiver and the line from it. *)

Send(kind) ==
    /\ air = <<>> /\ sent < MaxSentences
    /\ sent' = sent + 1
    /\ air' = << [part |-> "head", kind |-> kind, n |-> sent + 1],
                 [part |-> "tail", kind |-> kind, n |-> sent + 1], LF >>
    /\ UNCHANGED <<lineVars, rx, pc, drained, tlmVars, line, floor, begun, calls>>

(* The receive interrupt puts a token into the ring; a full ring drops it. *)
RxIrq ==
    /\ air # <<>>
    /\ air' = Tail(air)
    /\ rx' = IF Len(rx) < RingCapacity THEN Append(rx, Head(air)) ELSE rx
    /\ begun' = IF Head(air).part = "head" THEN Head(air).n ELSE begun
    /\ UNCHANGED <<lineVars, pc, drained, sent, tlmVars, line, floor, calls>>

-----------------------------------------------------------------------------
(* The line in m_lineBuf.  verifyChecksum looks no further than the first  *)
(* '*', so what is glued to the end of a whole sentence does no harm.      *)
IsGga(l) == l # <<>> /\ l[1].part = "head" /\ l[1].kind # "other"
IsWhole(l) == /\ Len(l) >= 2
              /\ l[1].part = "head" /\ l[2].part = "tail" /\ l[1].n = l[2].n

(* What processLine may do with a line: skip it (not GGA, or reported for  *)
(* its checksum or its number of fields), publish only the time and report *)
(* a field behind it, or publish it all.  Halves of two sentences glued    *)
(* together may pass the checksum, which is the XOR of the bytes; a line   *)
(* without '*' never does.                                                 *)
Outcomes(l) ==
    IF ~ IsGga(l) \/ Len(l) < 2 THEN {"skip"}
    ELSE IF IsWhole(l) THEN {IF l[1].kind = "void" THEN "time" ELSE "publish"}
    ELSE {"skip", "time"} \cup (IF l[1].kind = "void" THEN {} ELSE {"publish"})

(* The fix quality a published line shows, as 0 or 1. *)
Qualities(l) == IF IsWhole(l) THEN {IF l[1].kind = "fix" THEN 1 ELSE 0} ELSE {0, 1}

(* The events compare with a quality that has been updated already. *)
Publish_Bug(l, quality) ==
    /\ utc' = l[1].n /\ position' = l[1].n
    /\ m_sentenceCount' = m_sentenceCount + 1
    /\ m_lastFixQuality' = quality
    /\ told' = told

(* The time of the sentence is not written with its position. *)
PublishTime_Bug(l, quality) ==
    /\ position' = l[1].n /\ utc' = utc
    /\ m_sentenceCount' = m_sentenceCount + 1
    /\ m_lastFixQuality' = quality
    /\ told' = IF quality > 0 /\ m_lastFixQuality = 0 THEN "acquired"
               ELSE IF quality = 0 /\ m_lastFixQuality > 0 THEN "lost"
               ELSE told

(* The end of parseGGA and of processLine. *)
Publish(l, quality) ==
    /\ utc' = l[1].n /\ position' = l[1].n
    /\ m_sentenceCount' = m_sentenceCount + 1
    /\ m_lastFixQuality' = quality
    /\ told' = IF quality > 0 /\ m_lastFixQuality = 0 THEN "acquired"
               ELSE IF quality = 0 /\ m_lastFixQuality > 0 THEN "lost"
               ELSE told

ProcessLine(l) ==
    \E outcome \in Outcomes(l) :
        \/ /\ outcome = "publish"
           /\ \E quality \in Qualities(l) : Publish(l, quality)
        \/ /\ outcome # "publish"
           /\ utc' = IF outcome = "time" THEN l[1].n ELSE utc
           /\ UNCHANGED <<position, m_sentenceCount, m_lastFixQuality, told>>

-----------------------------------------------------------------------------
(* The handlers. *)

(* schedIn: drain the ring, unless the component is disabled. *)
SchedIn == /\ pc = "idle" /\ m_enabled
           /\ pc' = "drain"
           /\ drained' = 0
           /\ UNCHANGED <<lineVars, rx, air, sent, tlmVars, line, floor, begun, calls>>

(* The line buffer is not reset. *)
DrainLf_Bug == /\ pc = "drain" /\ drained < DrainLimit
               /\ rx # <<>> /\ Head(rx) = LF
               /\ rx' = Tail(rx)
               /\ drained' = drained + 1
               /\ line' = <<>>
               /\ ProcessLine(m_lineBuf)
               /\ UNCHANGED <<m_lineBuf, m_enabled, pc, air, sent, floor, begun, calls>>

DrainLf == /\ pc = "drain" /\ drained < DrainLimit
           /\ rx # <<>> /\ Head(rx) = LF
           /\ rx' = Tail(rx)
           /\ drained' = drained + 1
           /\ line' = <<>>
           /\ ProcessLine(m_lineBuf)
           /\ m_lineBuf' = <<>>
           /\ UNCHANGED <<m_enabled, pc, air, sent, floor, begun, calls>>

(* Nothing ends a line that is too long. *)
DrainByte_Bug == /\ pc = "drain" /\ drained < DrainLimit
                 /\ rx # <<>> /\ Head(rx) # LF
                 /\ rx' = Tail(rx)
                 /\ drained' = drained + 1
                 /\ line' = Append(line, Head(rx))
                 /\ m_lineBuf' = Append(m_lineBuf, Head(rx))
                 /\ UNCHANGED <<m_enabled, m_lastFixQuality, m_sentenceCount, pc, air, sent,
                                tlmVars, floor, begun, calls>>

(* The token that overruns the buffer empties it and is lost. *)
DrainByte == /\ pc = "drain" /\ drained < DrainLimit
             /\ rx # <<>> /\ Head(rx) # LF
             /\ rx' = Tail(rx)
             /\ drained' = drained + 1
             /\ line' = Append(line, Head(rx))
             /\ m_lineBuf' = IF Len(m_lineBuf) < LineCapacity
                             THEN Append(m_lineBuf, Head(rx)) ELSE <<>>
             /\ UNCHANGED <<m_enabled, m_lastFixQuality, m_sentenceCount, pc, air, sent,
                            tlmVars, floor, begun, calls>>

(* The buffer is emptied at the end of a poll, not at the end of a line. *)
DrainEnd_Bug == /\ pc = "drain"
                /\ drained = DrainLimit \/ rx = <<>>
                /\ pc' = "idle"
                /\ drained' = 0
                /\ m_lineBuf' = <<>>
                /\ UNCHANGED <<m_enabled, m_lastFixQuality, m_sentenceCount, rx, air, sent,
                               tlmVars, line, floor, begun, calls>>

DrainEnd == /\ pc = "drain"
            /\ drained = DrainLimit \/ rx = <<>>
            /\ pc' = "idle"
            /\ drained' = 0
            /\ UNCHANGED <<lineVars, rx, air, sent, tlmVars, line, floor, begun, calls>>

(* The reset flushes the ring only. *)
GpsReset_Bug == /\ pc = "idle" /\ calls < MaxCalls
                /\ rx' = <<>>
                /\ m_lastFixQuality' = 0
                /\ line' = <<>> /\ floor' = begun /\ calls' = calls + 1
                /\ UNCHANGED <<m_lineBuf, m_enabled, m_sentenceCount, pc, drained, air,
                               sent, tlmVars, begun>>

(* GPS_RESET: flush the ring, drop the partial line, forget the fix. *)
GpsReset == /\ pc = "idle" /\ calls < MaxCalls
            /\ rx' = <<>>
            /\ m_lineBuf' = <<>>
            /\ m_lastFixQuality' = 0
            /\ line' = <<>> /\ floor' = begun /\ calls' = calls + 1
            /\ UNCHANGED <<m_enabled, m_sentenceCount, pc, drained, air, sent, tlmVars,
                           begun>>

(* GPS_SET_ENABLED. *)
GpsSetEnabled(enabled) ==
    /\ pc = "idle" /\ calls < MaxCalls
    /\ m_enabled' = enabled
    /\ calls' = calls + 1
    /\ UNCHANGED <<m_lineBuf, m_lastFixQuality, m_sentenceCount, rx, pc, drained, air,
                   sent, tlmVars, line, floor, begun>>

-----------------------------------------------------------------------------
Next == \/ \E kind \in Kinds : Send(kind)
        \/ RxIrq
        \/ SchedIn \/ DrainLf \/ DrainByte \/ DrainEnd
        \/ GpsReset
        \/ \E enabled \in BOOLEAN : GpsSetEnabled(enabled)

Spec == Init /\ [][Next]_vars
-----------------------------------------------------------------------------
(* The type invariant. *)
TypeOK == /\ m_lineBuf \in Seq(Half) /\ Len(m_lineBuf) <= LineCapacity
          /\ m_enabled \in BOOLEAN /\ m_lastFixQuality \in {0, 1}
          /\ m_sentenceCount \in Nat
          /\ rx \in Seq(Half \cup {LF}) /\ Len(rx) <= RingCapacity
          /\ pc \in {"idle", "drain"} /\ drained \in 0 .. DrainLimit
          /\ air \in Seq(Half \cup {LF}) /\ sent \in 0 .. MaxSentences
          /\ utc \in 0 .. MaxSentences /\ position \in 0 .. MaxSentences
          /\ told \in {"lost", "acquired"}
          /\ line \in Seq(Half) /\ calls \in 0 .. MaxCalls
          /\ floor \in 0 .. MaxSentences /\ begun \in 0 .. MaxSentences

Published == m_sentenceCount' # m_sentenceCount

(* A sentence is published at most once, and never after a later one,      *)
(* whatever the ring lost, however lines were glued together and however   *)
(* long the component was disabled while the ring filled.                  *)
PublishedInOrder == [][Published => position' > position]_vars

(* No sentence that had begun to arrive before GPS_RESET is published      *)
(* after it, although its second half may still arrive.                    *)
ResetDiscardsOld == [][Published => position' > floor]_vars

(* A whole sentence with a fix that schedIn takes from the ring after the  *)
(* end of a line is published, even if it was cut by the end of a poll or  *)
(* came behind lines that overran the buffer.                              *)
WholeSentencePublished ==
    [][ (pc = "drain" /\ rx # rx' /\ line' = <<>> /\ Len(line) = 2 /\ IsWhole(line)
           /\ line[1].kind = "fix")
          => Published ]_vars

(* The component never holds a fix that its events have not announced:     *)
(* between FixAcquired and FixLost, and nowhere else, can m_lastFixQuality *)
(* be positive.  (The converse fails: GPS_RESET forgets the fix silently.) *)
FixIsAnnounced == m_lastFixQuality > 0 => told = "acquired"

(* The time is written before the position is read, and stays when the     *)
(* sentence is refused after that: it may be later than the position, and  *)
(* is never earlier.                                                       *)
UtcCoversPosition == position <= utc

-----------------------------------------------------------------------------
(* The inductive invariant behind the properties.  Sentences arrive in the *)
(* order of their numbers, and whatever is lost of them, no head that is   *)
(* still buffered or on its way is as old as what has been published, or   *)
(* had begun to arrive before the last reset.                              *)
HeadAt(tokens, k) == k \in 1 .. Len(tokens) /\ tokens[k].part = "head"

HeadsAscend(tokens) ==
    \A j, k \in 1 .. Len(tokens) :
        j < k /\ HeadAt(tokens, j) /\ HeadAt(tokens, k) => tokens[j].n < tokens[k].n

HeadsWithin(tokens) ==
    \A k \in 1 .. Len(tokens) :
        HeadAt(tokens, k) => utc < tokens[k].n /\ floor < tokens[k].n /\ tokens[k].n <= begun

OrderInv ==
    /\ position <= utc /\ utc <= begun /\ floor <= begun /\ begun <= sent
    /\ HeadsAscend(m_lineBuf) /\ HeadsAscend(rx)
    /\ HeadsWithin(m_lineBuf) /\ HeadsWithin(rx)
    /\ \A j \in 1 .. Len(m_lineBuf), k \in 1 .. Len(rx) :
          HeadAt(m_lineBuf, j) /\ HeadAt(rx, k) => m_lineBuf[j].n < rx[k].n
    /\ \A k \in 1 .. Len(air) : HeadAt(air, k) => k = 1 /\ begun < air[k].n /\ air[k].n <= sent

IInv == TypeOK /\ FixIsAnnounced /\ OrderInv

(* A line that fits the buffer is in the buffer, all of it, however many   *)
(* polls it took and whatever overran the buffer before it.                *)
BufferInv == Len(line) <= LineCapacity => m_lineBuf = line
-----------------------------------------------------------------------------
(* fpp: FixLost is sent when the fix quality transitions to 0.  The        *)
(* sentences a receiver sends without a fix would then end an announced    *)
(* fix.                                                                    *)
FixLostReported ==
    [][ (pc = "drain" /\ rx # rx' /\ line' = <<>> /\ Len(line) = 2 /\ IsWhole(line)
           /\ line[1].kind = "void" /\ m_lastFixQuality > 0)
          => told' = "lost" ]_vars
=============================================================================
