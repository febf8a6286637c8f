----------------------------- MODULE GpsProofs -----------------------------
(***************************************************************************)
(* Proofs about GpsReceiver, for every size of ring and line buffer, every *)
(* drain limit, and any number of sentences and commands.                  *)
(***************************************************************************)
EXTENDS GpsReceiver, TLAPS

Token == Half \cup {LF}

LEMMA InitIInv == Init => IInv
  <1> SUFFICES ASSUME Init PROVE IInv
    OBVIOUS
  <1>1. TypeOK
    BY CapacityAssumption DEF Init, TypeOK
  <1>2. FixIsAnnounced /\ OrderInv
    BY CapacityAssumption DEF Init, FixIsAnnounced, OrderInv, HeadsAscend, HeadsWithin, HeadAt
  <1> QED BY <1>1, <1>2 DEF IInv

(* What the receiver's line and the ring hand on. *)
LEMMA TakeFirst ==
  ASSUME NEW S, NEW s \in Seq(S), s # <<>>
  PROVE  /\ Head(s) = s[1] /\ Head(s) \in S /\ Len(s) \in Nat \ {0}
         /\ Tail(s) \in Seq(S) /\ Len(Tail(s)) = Len(s) - 1
         /\ \A k \in 1 .. Len(Tail(s)) : k + 1 \in 1 .. Len(s) /\ Tail(s)[k] = s[k + 1]
  OBVIOUS

LEMMA AddLast ==
  ASSUME NEW S, NEW s \in Seq(S), NEW e \in S
  PROVE  /\ Append(s, e) \in Seq(S) /\ Len(Append(s, e)) = Len(s) + 1 /\ Len(s) \in Nat
         /\ Append(s, e)[Len(s) + 1] = e
         /\ \A k \in 1 .. Len(s) : Append(s, e)[k] = s[k]
  OBVIOUS

(* A token is a half of a numbered sentence, or the end of a line.         *)
LEMMA TokenIs ==
  ASSUME NEW t \in Token
  PROVE  /\ t = LF <=> t.part = "LF"
         /\ t # LF => t \in Half /\ t.part \in {"head", "tail"} /\ t.n \in 1 .. MaxSentences
  BY DEF Token, Half, LF

LEMMA NumbersAre ==
  ASSUME IInv
  PROVE  /\ utc \in Nat /\ position \in Nat /\ floor \in Nat /\ begun \in Nat /\ sent \in Nat
         /\ MaxSentences \in Nat
         /\ \A k \in 1 .. Len(m_lineBuf) : m_lineBuf[k] \in Half /\ m_lineBuf[k].n \in Nat
         /\ \A k \in 1 .. Len(rx) : rx[k] \in Token /\ rx[k].n \in Nat
         /\ \A k \in 1 .. Len(air) : air[k] \in Token /\ air[k].n \in Nat
  <1>1. MaxSentences \in Nat
    BY CapacityAssumption
  <1>2. \A t \in Token : t.n \in Nat
    BY <1>1 DEF Token, Half, LF
  <1>3. /\ \A k \in 1 .. Len(m_lineBuf) : m_lineBuf[k] \in Half
        /\ \A k \in 1 .. Len(rx) : rx[k] \in Token
        /\ \A k \in 1 .. Len(air) : air[k] \in Token
    BY DEF IInv, TypeOK, Token
  <1>4. /\ utc \in Nat /\ position \in Nat /\ floor \in Nat /\ begun \in Nat /\ sent \in Nat
    BY <1>1 DEF IInv, TypeOK
  <1> QED BY <1>1, <1>2, <1>3, <1>4 DEF Token
-----------------------------------------------------------------------------
LEMMA SendStep ==
  ASSUME IInv, NEW kind \in Kinds, Send(kind)
  PROVE  IInv'
  <1> USE DEF Send, lineVars, tlmVars
  <1> DEFINE h == [part |-> "head", kind |-> kind, n |-> sent + 1]
             t == [part |-> "tail", kind |-> kind, n |-> sent + 1]
  <1>1. sent' = sent + 1 /\ sent' \in 1 .. MaxSentences /\ sent \in Nat
    BY NumbersAre DEF IInv, TypeOK
  <1>2. h \in Half /\ t \in Half /\ h.part = "head" /\ t.part = "tail" /\ h.n = sent + 1
    BY <1>1 DEF Half
  <1>3. LF.part = "LF" /\ LF \in Half \cup {LF}
    BY DEF LF
  <1> HIDE DEF h, t
  <1>4. air' = <<h, t, LF>>
    BY DEF h, t
  <1>5. air' \in Seq(Half \cup {LF}) /\ Len(air') = 3
        /\ air'[1] = h /\ air'[2] = t /\ air'[3] = LF
    BY <1>2, <1>3, <1>4
  <1>6. TypeOK'
    BY <1>1, <1>5 DEF IInv, TypeOK
  <1>7. \A k \in 1 .. Len(air') : air'[k].part = "head" => k = 1
    BY <1>2, <1>3, <1>5
  <1>8. OrderInv'
    <2>1. \A k \in 1 .. Len(air)' :
            HeadAt(air, k)' => k = 1 /\ begun' < air'[k].n /\ air'[k].n <= sent'
      BY <1>1, <1>2, <1>5, <1>7, NumbersAre DEF HeadAt, IInv, OrderInv
    <2>2. begun' <= sent'
      BY <1>1, NumbersAre DEF IInv, OrderInv
    <2> QED BY <2>1, <2>2 DEF IInv, OrderInv, HeadsAscend, HeadsWithin, HeadAt
  <1>9. FixIsAnnounced'
    BY DEF IInv, FixIsAnnounced
  <1> QED BY <1>6, <1>8, <1>9 DEF IInv

(* A head that reaches the ring is later than all that came before it.     *)
LEMMA RxStep ==
  ASSUME IInv, RxIrq
  PROVE  IInv'
  <1> USE DEF RxIrq, lineVars, tlmVars
  <1> DEFINE a == Head(air)
  <1>1. /\ air \in Seq(Token) /\ rx \in Seq(Token) /\ air # <<>>
        /\ Len(rx) <= RingCapacity /\ RingCapacity \in Nat
    BY CapacityAssumption DEF IInv, TypeOK, Token
  <1>2. /\ a = air[1] /\ a \in Token /\ air' \in Seq(Token) /\ 1 \in 1 .. Len(air)
        /\ \A k \in 1 .. Len(air') : k + 1 \in 1 .. Len(air) /\ air'[k] = air[k + 1] /\ k + 1 # 1
    BY <1>1, TakeFirst
  <1>3. a.part = "head" => a.n \in 1 .. MaxSentences /\ begun < a.n /\ a.n <= sent
    <2>1. a.part = "head" => HeadAt(air, 1)
      BY <1>2 DEF HeadAt
    <2>2. a.part = "head" => a # LF
      BY DEF LF
    <2> QED BY <1>2, <2>1, <2>2, TokenIs DEF IInv, OrderInv
  <1>4. begun' = IF a.part = "head" THEN a.n ELSE begun
    OBVIOUS
  <1>5. /\ rx' \in Seq(Token) /\ Len(rx') <= RingCapacity
        /\ \A k \in 1 .. Len(rx') : \/ k \in 1 .. Len(rx) /\ rx'[k] = rx[k]
                                    \/ k = Len(rx) + 1 /\ rx'[k] = a
    <2>1. CASE Len(rx) < RingCapacity
      <3>1. rx' = Append(rx, a)
        BY <2>1
      <3> HIDE DEF a
      <3> QED BY <1>1, <1>2, <2>1, <3>1, AddLast
    <2>2. CASE ~ (Len(rx) < RingCapacity)
      BY <1>1, <2>2
    <2> QED BY <2>1, <2>2
  <1> HIDE DEF a
  <1>6. TypeOK'
    BY <1>2, <1>3, <1>4, <1>5 DEF IInv, TypeOK, Token
  <1>7. begun <= begun' /\ begun' <= sent /\ begun' \in Nat /\ begun \in Nat
    BY <1>3, <1>4, NumbersAre DEF IInv, OrderInv
  <1>8. ASSUME NEW k \in 1 .. Len(rx'), HeadAt(rx, k)'
        PROVE  \/ HeadAt(rx, k) /\ rx'[k] = rx[k] /\ rx[k].n <= begun
               \/ k = Len(rx) + 1 /\ rx'[k] = a /\ begun < a.n /\ begun' = a.n /\ a.n \in Nat
    <2>1. rx'[k].part = "head"
      BY <1>8 DEF HeadAt
    <2>2. CASE k \in 1 .. Len(rx) /\ rx'[k] = rx[k]
      <3>1. HeadAt(rx, k)
        BY <2>1, <2>2 DEF HeadAt
      <3>2. rx[k].n <= begun
        BY <2>2, <3>1 DEF IInv, OrderInv, HeadsWithin
      <3> QED BY <2>2, <3>1, <3>2
    <2>3. CASE k = Len(rx) + 1 /\ rx'[k] = a
      <3>1. a.part = "head"
        BY <2>1, <2>3
      <3>2. a.n \in Nat
        BY <1>3, <3>1, NumbersAre
      <3> QED BY <1>3, <1>4, <2>3, <3>1, <3>2
    <2> QED BY <1>5, <2>2, <2>3
  <1>9. HeadsAscend(rx)'
    <2> SUFFICES ASSUME NEW j \in 1 .. Len(rx'), NEW k \in 1 .. Len(rx'), j < k,
                        HeadAt(rx, j)', HeadAt(rx, k)'
                 PROVE  rx'[j].n < rx'[k].n
      BY DEF HeadsAscend, HeadAt
    <2>1. Len(rx) \in Nat /\ j # Len(rx) + 1
      BY <1>1, <1>5
    <2>2. HeadAt(rx, j) /\ rx'[j] = rx[j] /\ rx[j].n <= begun /\ rx[j].n \in Nat
      BY <1>8, <2>1, NumbersAre DEF HeadAt
    <2>3. CASE HeadAt(rx, k) /\ rx'[k] = rx[k]
      BY <2>2, <2>3 DEF HeadAt, IInv, OrderInv, HeadsAscend
    <2>4. CASE k = Len(rx) + 1 /\ rx'[k] = a /\ begun < a.n /\ a.n \in Nat
      BY ONLY <1>7, <2>2, <2>4
    <2> QED BY <1>8, <2>3, <2>4
  <1>10. HeadsWithin(rx)'
    <2> SUFFICES ASSUME NEW k \in 1 .. Len(rx'), HeadAt(rx, k)'
                 PROVE  utc' < rx'[k].n /\ floor' < rx'[k].n /\ rx'[k].n <= begun'
      BY DEF HeadsWithin, HeadAt
    <2>1. CASE HeadAt(rx, k) /\ rx'[k] = rx[k]
      <3>1. /\ k \in 1 .. Len(rx) /\ rx[k].n \in Nat
            /\ utc < rx[k].n /\ floor < rx[k].n /\ rx[k].n <= begun
        BY <2>1, NumbersAre DEF HeadAt, IInv, OrderInv, HeadsWithin
      <3>2. utc' = utc /\ floor' = floor
        OBVIOUS
      <3> QED BY <1>7, <2>1, <3>1, <3>2, NumbersAre
    <2>2. CASE k = Len(rx) + 1 /\ rx'[k] = a /\ begun < a.n /\ begun' = a.n /\ a.n \in Nat
      <3>1. utc' = utc /\ floor' = floor /\ utc <= begun /\ floor <= begun
        BY DEF IInv, OrderInv
      <3> QED BY <2>2, <3>1, NumbersAre
    <2> QED BY <1>8, <2>1, <2>2
  <1>11. HeadsAscend(m_lineBuf)' /\ HeadsWithin(m_lineBuf)'
    <2>1. UNCHANGED <<m_lineBuf, utc, floor>>
      OBVIOUS
    <2>2. HeadsAscend(m_lineBuf) /\ HeadsWithin(m_lineBuf)
      BY DEF IInv, OrderInv
    <2>3. HeadsAscend(m_lineBuf)'
      BY ONLY <2>1, <2>2, Zenon DEF HeadsAscend, HeadAt
    <2>4. HeadsWithin(m_lineBuf)'
      <3>1. \A k \in 1 .. Len(m_lineBuf) : m_lineBuf[k].n \in Nat
        BY NumbersAre
      <3> QED BY ONLY <1>7, <2>1, <2>2, <3>1 DEF HeadsWithin, HeadAt
    <2> QED BY <2>3, <2>4
  <1>12. ASSUME NEW j \in 1 .. Len(m_lineBuf'), NEW k \in 1 .. Len(rx'),
                HeadAt(m_lineBuf, j)', HeadAt(rx, k)'
         PROVE  m_lineBuf'[j].n < rx'[k].n
    <2>1. HeadAt(m_lineBuf, j) /\ m_lineBuf[j].n <= begun /\ m_lineBuf[j].n \in Nat
      BY <1>12, NumbersAre DEF HeadAt, IInv, OrderInv, HeadsWithin
    <2>2. CASE HeadAt(rx, k) /\ rx'[k] = rx[k]
      BY <2>1, <2>2 DEF HeadAt, IInv, OrderInv
    <2>3. CASE k = Len(rx) + 1 /\ rx'[k] = a /\ begun < a.n /\ begun' = a.n /\ a.n \in Nat
      <3>1. m_lineBuf'[j] = m_lineBuf[j]
        OBVIOUS
      <3> QED BY ONLY <1>7, <2>1, <2>3, <3>1
    <2> QED BY <1>8, <1>12, <2>2, <2>3
  <1>13. \A k \in 1 .. Len(air') : air'[k].part # "head"
    BY <1>2 DEF IInv, OrderInv, HeadAt
  <1>14. OrderInv'
    <2>1. \A k \in 1 .. Len(air') : ~ HeadAt(air, k)'
      BY <1>13 DEF HeadAt
    <2>2. utc' <= begun' /\ floor' <= begun' /\ begun' <= sent'
      BY <1>7, NumbersAre DEF IInv, OrderInv
    <2> QED BY <1>9, <1>10, <1>11, <1>12, <2>1, <2>2 DEF IInv, OrderInv, HeadAt
  <1>15. FixIsAnnounced'
    BY DEF IInv, FixIsAnnounced
  <1> QED BY <1>6, <1>14, <1>15 DEF IInv
-----------------------------------------------------------------------------
(* What may be done with a line. *)
LEMMA OutcomeIs ==
  ASSUME NEW l, NEW outcome \in Outcomes(l)
  PROVE  /\ outcome # "skip" => IsGga(l) /\ Len(l) >= 2
         /\ \A quality \in Qualities(l) : quality \in {0, 1}
  BY DEF Outcomes, Qualities

(* The sentence whose time is written is later than any before, and as     *)
(* late as the ring allows.                                                *)
LEMMA LineStep ==
  ASSUME IInv, ProcessLine(m_lineBuf)
  PROVE  /\ position' <= utc' /\ utc' \in 0 .. MaxSentences /\ position' \in 0 .. MaxSentences
         /\ m_sentenceCount' \in Nat /\ m_lastFixQuality' \in {0, 1}
         /\ told' \in {"lost", "acquired"}
         /\ m_lastFixQuality' > 0 => told' = "acquired"
         /\ \/ utc' = utc
            \/ HeadAt(m_lineBuf, 1) /\ utc' = m_lineBuf[1].n
         /\ m_sentenceCount' # m_sentenceCount => position' > position /\ position' > floor
  <1>1. PICK outcome \in Outcomes(m_lineBuf) :
           \/ /\ outcome = "publish"
              /\ \E quality \in Qualities(m_lineBuf) : Publish(m_lineBuf, quality)
           \/ /\ outcome # "publish"
              /\ utc' = IF outcome = "time" THEN m_lineBuf[1].n ELSE utc
              /\ UNCHANGED <<position, m_sentenceCount, m_lastFixQuality, told>>
    BY DEF ProcessLine
  <1>2. /\ m_lastFixQuality \in {0, 1} /\ told \in {"lost", "acquired"}
        /\ m_sentenceCount \in Nat /\ (m_lastFixQuality > 0 => told = "acquired")
        /\ utc \in 0 .. MaxSentences /\ position \in 0 .. MaxSentences /\ position <= utc
    BY DEF IInv, TypeOK, FixIsAnnounced, OrderInv
  <1>3. outcome # "skip" => /\ HeadAt(m_lineBuf, 1) /\ m_lineBuf[1].n \in 1 .. MaxSentences
                            /\ utc < m_lineBuf[1].n /\ floor < m_lineBuf[1].n
    <2>1. SUFFICES ASSUME outcome # "skip"
                   PROVE  /\ HeadAt(m_lineBuf, 1) /\ m_lineBuf[1].n \in 1 .. MaxSentences
                          /\ utc < m_lineBuf[1].n /\ floor < m_lineBuf[1].n
      OBVIOUS
    <2>2. m_lineBuf \in Seq(Half) /\ IsGga(m_lineBuf) /\ Len(m_lineBuf) >= 2
      BY <2>1, OutcomeIs DEF IInv, TypeOK
    <2>3. 1 \in 1 .. Len(m_lineBuf) /\ m_lineBuf[1] \in Half /\ m_lineBuf[1].part = "head"
      BY <2>2 DEF IsGga
    <2>4. m_lineBuf[1].n \in 1 .. MaxSentences
      BY <2>3 DEF Half
    <2> QED BY <2>3, <2>4 DEF HeadAt, IInv, OrderInv, HeadsWithin
  <1>4. CASE outcome = "publish"
    <2>1. PICK quality \in {0, 1} : Publish(m_lineBuf, quality)
      BY <1>1, <1>4, OutcomeIs
    <2>2. utc' = m_lineBuf[1].n /\ position' = m_lineBuf[1].n
          /\ m_sentenceCount' = m_sentenceCount + 1 /\ m_lastFixQuality' = quality
      BY <2>1 DEF Publish
    <2>3. told' \in {"lost", "acquired"} /\ (quality > 0 => told' = "acquired")
      BY <1>2, <2>1 DEF Publish
    <2>4. MaxSentences \in Nat /\ floor \in Nat
      BY NumbersAre
    <2> QED BY <1>2, <1>3, <1>4, <2>2, <2>3, <2>4
  <1>5. CASE outcome = "time"
    <2>1. utc' = m_lineBuf[1].n /\ position' = position /\ m_sentenceCount' = m_sentenceCount
          /\ m_lastFixQuality' = m_lastFixQuality /\ told' = told
      BY <1>1, <1>5
    <2>2. MaxSentences \in Nat
      BY NumbersAre
    <2> QED BY <1>2, <1>3, <1>5, <2>1, <2>2
  <1>6. CASE outcome # "publish" /\ outcome # "time"
    BY <1>1, <1>2, <1>6
  <1> QED BY <1>4, <1>5, <1>6

(* The ring without its first token. *)
LEMMA RingTaken ==
  ASSUME IInv, rx # <<>>, rx' = Tail(rx)
  PROVE  /\ rx' \in Seq(Token) /\ Len(rx') <= RingCapacity /\ 1 \in 1 .. Len(rx)
         /\ Head(rx) = rx[1] /\ rx[1] \in Token
         /\ \A k \in 1 .. Len(rx') : k + 1 \in 1 .. Len(rx) /\ rx'[k] = rx[k + 1]
         /\ HeadsAscend(rx)'
         /\ \A k \in 1 .. Len(rx') : HeadAt(rx, k)' => HeadAt(rx, k + 1) /\ rx'[k] = rx[k + 1]
         /\ \A k \in 1 .. Len(rx') : HeadAt(rx, 1) /\ HeadAt(rx, k)' => rx[1].n < rx'[k].n
  <1>1. rx \in Seq(Token) /\ Len(rx) <= RingCapacity /\ RingCapacity \in Nat
    BY CapacityAssumption DEF IInv, TypeOK, Token
  <1>2. /\ rx' \in Seq(Token) /\ Len(rx') = Len(rx) - 1 /\ Len(rx) \in Nat \ {0}
        /\ Head(rx) = rx[1] /\ rx[1] \in Token
        /\ \A k \in 1 .. Len(rx') : k + 1 \in 1 .. Len(rx) /\ rx'[k] = rx[k + 1]
    BY <1>1, TakeFirst
  <1>3. \A k \in 1 .. Len(rx') : HeadAt(rx, k)' => HeadAt(rx, k + 1) /\ rx'[k] = rx[k + 1]
    BY <1>2 DEF HeadAt
  <1>4. \A j, k \in 1 .. Len(rx) :
           j < k /\ HeadAt(rx, j) /\ HeadAt(rx, k) => rx[j].n < rx[k].n
    BY DEF IInv, OrderInv, HeadsAscend
  <1>5. HeadsAscend(rx)'
    <2> SUFFICES ASSUME NEW j \in 1 .. Len(rx'), NEW k \in 1 .. Len(rx'), j < k,
                        HeadAt(rx, j)', HeadAt(rx, k)'
                 PROVE  rx'[j].n < rx'[k].n
      BY DEF HeadsAscend, HeadAt
    <2>1. j + 1 \in 1 .. Len(rx) /\ k + 1 \in 1 .. Len(rx) /\ j + 1 < k + 1
      BY <1>2
    <2> QED BY <1>3, <1>4, <2>1
  <1>6. \A k \in 1 .. Len(rx') : HeadAt(rx, 1) /\ HeadAt(rx, k)' => rx[1].n < rx'[k].n
    <2> SUFFICES ASSUME NEW k \in 1 .. Len(rx'), HeadAt(rx, 1), HeadAt(rx, k)'
                 PROVE  rx[1].n < rx'[k].n
      OBVIOUS
    <2>1. 1 \in 1 .. Len(rx) /\ k + 1 \in 1 .. Len(rx) /\ 1 < k + 1
      BY <1>2
    <2> QED BY <1>3, <1>4, <2>1
  <1> QED BY <1>1, <1>2, <1>3, <1>5, <1>6

LEMMA LfStep ==
  ASSUME IInv, DrainLf
  PROVE  IInv'
  <1> USE DEF DrainLf
  <1>1. ProcessLine(m_lineBuf) /\ rx # <<>> /\ rx' = Tail(rx) /\ m_lineBuf' = <<>>
    OBVIOUS
  <1>2. TypeOK'
    <2>1. DrainLimit \in Nat /\ LineCapacity \in Nat
      BY CapacityAssumption
    <2>2. m_lineBuf' \in Seq(Half) /\ Len(m_lineBuf') <= LineCapacity /\ line' \in Seq(Half)
      BY <2>1
    <2>3. drained' \in 0 .. DrainLimit
      BY <2>1 DEF IInv, TypeOK
    <2> QED BY <1>1, <2>2, <2>3, LineStep, RingTaken DEF IInv, TypeOK, Token
  <1>3. HeadsWithin(rx)'
    <2> SUFFICES ASSUME NEW k \in 1 .. Len(rx'), HeadAt(rx, k)'
                 PROVE  utc' < rx'[k].n /\ floor' < rx'[k].n /\ rx'[k].n <= begun'
      BY DEF HeadsWithin, HeadAt
    <2>1. k + 1 \in 1 .. Len(rx) /\ HeadAt(rx, k + 1) /\ rx'[k] = rx[k + 1]
      BY <1>1, RingTaken
    <2>2. utc < rx[k + 1].n /\ floor < rx[k + 1].n /\ rx[k + 1].n <= begun
      BY <2>1 DEF IInv, OrderInv, HeadsWithin
    <2>3. CASE utc' = utc
      BY <2>1, <2>2, <2>3
    <2>4. CASE HeadAt(m_lineBuf, 1) /\ utc' = m_lineBuf[1].n
      BY <2>1, <2>2, <2>4 DEF HeadAt, IInv, OrderInv
    <2> QED BY <1>1, <2>3, <2>4, LineStep
  <1>4. utc' <= begun'
    <2>1. CASE utc' = utc
      BY <2>1 DEF IInv, OrderInv
    <2>2. CASE HeadAt(m_lineBuf, 1) /\ utc' = m_lineBuf[1].n
      BY <2>2 DEF HeadAt, IInv, OrderInv, HeadsWithin
    <2> QED BY <1>1, <2>1, <2>2, LineStep
  <1>5. Len(m_lineBuf') = 0
    BY <1>1
  <1>6. OrderInv'
    BY <1>1, <1>3, <1>4, <1>5, LineStep, RingTaken
       DEF IInv, OrderInv, HeadsAscend, HeadsWithin, HeadAt
  <1>7. FixIsAnnounced'
    BY <1>1, LineStep DEF FixIsAnnounced
  <1> QED BY <1>2, <1>6, <1>7 DEF IInv

LEMMA ByteStep ==
  ASSUME IInv, DrainByte
  PROVE  IInv'
  <1> USE DEF DrainByte, tlmVars
  <1> DEFINE h == Head(rx)
  <1>1. rx # <<>> /\ rx' = Tail(rx) /\ h # LF
    OBVIOUS
  <1>2. h = rx[1] /\ 1 \in 1 .. Len(rx) /\ h \in Half
    BY <1>1, RingTaken, TokenIs
  <1>3. m_lineBuf \in Seq(Half) /\ Len(m_lineBuf) <= LineCapacity /\ line \in Seq(Half)
        /\ LineCapacity \in Nat /\ DrainLimit \in Nat
    BY CapacityAssumption DEF IInv, TypeOK
  <1>4. /\ m_lineBuf' \in Seq(Half) /\ Len(m_lineBuf') <= LineCapacity
        /\ \A k \in 1 .. Len(m_lineBuf') :
              \/ k \in 1 .. Len(m_lineBuf) /\ m_lineBuf'[k] = m_lineBuf[k]
              \/ k = Len(m_lineBuf) + 1 /\ m_lineBuf'[k] = h
    <2>1. CASE Len(m_lineBuf) < LineCapacity
      <3>1. m_lineBuf' = Append(m_lineBuf, h)
        BY <2>1
      <3> HIDE DEF h
      <3> QED BY <1>2, <1>3, <2>1, <3>1, AddLast
    <2>2. CASE ~ (Len(m_lineBuf) < LineCapacity)
      BY <1>3, <2>2
    <2> QED BY <2>1, <2>2
  <1>5. line' \in Seq(Half)
    BY <1>2, <1>3
  <1>6. drained' \in 0 .. DrainLimit
    BY <1>3 DEF IInv, TypeOK
  <1>7. TypeOK'
    BY <1>1, <1>4, <1>5, <1>6, RingTaken DEF IInv, TypeOK, Token
  <1> HIDE DEF h
  <1>8. ASSUME NEW j \in 1 .. Len(m_lineBuf'), HeadAt(m_lineBuf, j)'
        PROVE  \/ HeadAt(m_lineBuf, j) /\ m_lineBuf'[j] = m_lineBuf[j] /\ j \in 1 .. Len(m_lineBuf)
               \/ j = Len(m_lineBuf) + 1 /\ HeadAt(rx, 1) /\ m_lineBuf'[j] = rx[1]
    BY <1>2, <1>4, <1>8 DEF HeadAt
  <1>9. HeadsAscend(m_lineBuf)'
    <2> SUFFICES ASSUME NEW j \in 1 .. Len(m_lineBuf'), NEW k \in 1 .. Len(m_lineBuf'), j < k,
                        HeadAt(m_lineBuf, j)', HeadAt(m_lineBuf, k)'
                 PROVE  m_lineBuf'[j].n < m_lineBuf'[k].n
      BY DEF HeadsAscend, HeadAt
    <2>1. Len(m_lineBuf) \in Nat /\ j # Len(m_lineBuf) + 1
      BY <1>3, <1>4
    <2>2. HeadAt(m_lineBuf, j) /\ m_lineBuf'[j] = m_lineBuf[j] /\ j \in 1 .. Len(m_lineBuf)
      BY <1>8, <2>1
    <2>3. CASE HeadAt(m_lineBuf, k) /\ m_lineBuf'[k] = m_lineBuf[k] /\ k \in 1 .. Len(m_lineBuf)
      BY <2>2, <2>3 DEF IInv, OrderInv, HeadsAscend
    <2>4. CASE HeadAt(rx, 1) /\ m_lineBuf'[k] = rx[1]
      BY <1>2, <2>2, <2>4 DEF IInv, OrderInv
    <2> QED BY <1>8, <2>3, <2>4
  <1>10. HeadsWithin(m_lineBuf)'
    <2> SUFFICES ASSUME NEW j \in 1 .. Len(m_lineBuf'), HeadAt(m_lineBuf, j)'
                 PROVE  utc < m_lineBuf'[j].n /\ floor < m_lineBuf'[j].n
                        /\ m_lineBuf'[j].n <= begun
      BY DEF HeadsWithin, HeadAt
    <2> QED BY <1>2, <1>8 DEF IInv, OrderInv, HeadsWithin
  <1>11. HeadsWithin(rx)'
    <2> SUFFICES ASSUME NEW k \in 1 .. Len(rx'), HeadAt(rx, k)'
                 PROVE  utc < rx'[k].n /\ floor < rx'[k].n /\ rx'[k].n <= begun
      BY DEF HeadsWithin, HeadAt
    <2>1. k + 1 \in 1 .. Len(rx) /\ HeadAt(rx, k + 1) /\ rx'[k] = rx[k + 1]
      BY <1>1, RingTaken
    <2> QED BY <2>1 DEF IInv, OrderInv, HeadsWithin
  <1>12. ASSUME NEW j \in 1 .. Len(m_lineBuf'), NEW k \in 1 .. Len(rx'),
                HeadAt(m_lineBuf, j)', HeadAt(rx, k)'
         PROVE  m_lineBuf'[j].n < rx'[k].n
    <2>1. k + 1 \in 1 .. Len(rx) /\ HeadAt(rx, k + 1) /\ rx'[k] = rx[k + 1]
      BY <1>1, <1>12, RingTaken
    <2>2. CASE HeadAt(m_lineBuf, j) /\ m_lineBuf'[j] = m_lineBuf[j] /\ j \in 1 .. Len(m_lineBuf)
      BY <2>1, <2>2 DEF IInv, OrderInv
    <2>3. CASE HeadAt(rx, 1) /\ m_lineBuf'[j] = rx[1]
      BY <1>1, <1>12, <2>3, RingTaken
    <2> QED BY <1>8, <1>12, <2>2, <2>3
  <1>13. OrderInv'
    BY <1>1, <1>9, <1>10, <1>11, <1>12, RingTaken DEF IInv, OrderInv, HeadAt
  <1>14. FixIsAnnounced'
    BY DEF IInv, FixIsAnnounced
  <1> QED BY <1>7, <1>13, <1>14 DEF IInv

LEMMA ResetStep ==
  ASSUME IInv, GpsReset
  PROVE  IInv'
  <1> USE DEF GpsReset, tlmVars
  <1>1. Len(rx') = 0 /\ Len(m_lineBuf') = 0 /\ floor' = begun
    OBVIOUS
  <1>2. TypeOK'
    <2>1. rx' = <<>> /\ m_lineBuf' = <<>>
      OBVIOUS
    <2>2. /\ rx' \in Seq(Half \cup {LF}) /\ Len(rx') <= RingCapacity
          /\ m_lineBuf' \in Seq(Half) /\ Len(m_lineBuf') <= LineCapacity
      BY <1>1, <2>1, CapacityAssumption
    <2>3. line' \in Seq(Half) /\ calls' \in 0 .. MaxCalls /\ floor' \in 0 .. MaxSentences
      BY CapacityAssumption DEF IInv, TypeOK
    <2> QED BY <2>2, <2>3 DEF IInv, TypeOK
  <1>3. OrderInv'
    BY <1>1, NumbersAre DEF IInv, OrderInv, HeadsAscend, HeadsWithin, HeadAt
  <1> QED BY <1>2, <1>3 DEF IInv, FixIsAnnounced

LEMMA NextIInv == IInv /\ [Next]_vars => IInv'
  <1> SUFFICES ASSUME IInv, [Next]_vars PROVE IInv'
    OBVIOUS
  <1>1. CASE SchedIn \/ DrainEnd \/ UNCHANGED vars
             \/ \E enabled \in BOOLEAN : GpsSetEnabled(enabled)
    <2>1. TypeOK'
      <3>1. CASE SchedIn \/ DrainEnd
        <4>1. pc' \in {"idle", "drain"} /\ drained' \in 0 .. DrainLimit
          BY <3>1, CapacityAssumption DEF SchedIn, DrainEnd
        <4>2. UNCHANGED <<lineVars, rx, air, sent, tlmVars, line, floor, begun, calls>>
          BY <3>1 DEF SchedIn, DrainEnd
        <4> QED BY <4>1, <4>2 DEF lineVars, tlmVars, IInv, TypeOK
      <3>2. CASE UNCHANGED vars
        BY <3>2 DEF vars, lineVars, tlmVars, IInv, TypeOK
      <3>3. CASE \E enabled \in BOOLEAN : GpsSetEnabled(enabled)
        <4>1. PICK enabled \in BOOLEAN : GpsSetEnabled(enabled)
          BY <3>3
        <4>2. calls' \in 0 .. MaxCalls
          BY <4>1, CapacityAssumption DEF GpsSetEnabled, IInv, TypeOK
        <4>3. m_enabled' \in BOOLEAN
          BY <4>1, Zenon DEF GpsSetEnabled
        <4>4. UNCHANGED <<m_lineBuf, m_lastFixQuality, m_sentenceCount, rx, pc, drained, air,
                          sent, tlmVars, line, floor, begun>>
          BY <4>1 DEF GpsSetEnabled
        <4> QED BY <4>2, <4>3, <4>4 DEF tlmVars, IInv, TypeOK
      <3> QED BY <1>1, <3>1, <3>2, <3>3
    <2>2. FixIsAnnounced' /\ OrderInv'
      BY <1>1 DEF SchedIn, DrainEnd, GpsSetEnabled, vars, lineVars, tlmVars, IInv,
                  FixIsAnnounced, OrderInv, HeadsAscend, HeadsWithin, HeadAt
    <2> QED BY <2>1, <2>2 DEF IInv
  <1> QED BY <1>1, SendStep, RxStep, LfStep, ByteStep, ResetStep DEF Next

-----------------------------------------------------------------------------
(* The inductive invariant holds in every reachable state. *)
THEOREM GpsInvariant == Spec => []IInv
  BY InitIInv, NextIInv, PTL DEF Spec

(* The members of the component keep their types and the buffers their     *)
(* bounds.                                                                 *)
THEOREM GpsTypeCorrect == Spec => []TypeOK
  <1>1. IInv => TypeOK
    BY DEF IInv
  <1> QED BY <1>1, GpsInvariant, PTL

(* A fix that the component holds has been announced and not revoked.      *)
THEOREM FixAnnounced == Spec => []FixIsAnnounced
  <1>1. IInv => FixIsAnnounced
    BY DEF IInv
  <1> QED BY <1>1, GpsInvariant, PTL

(* The published time is never older than the published position.          *)
THEOREM TimeCovers == Spec => []UtcCoversPosition
  <1>1. IInv => UtcCoversPosition
    BY DEF IInv, OrderInv, UtcCoversPosition
  <1> QED BY <1>1, GpsInvariant, PTL

(* Whoever publishes, publishes something new: later than the position     *)
(* before it and than the last reset.                                      *)
LEMMA PublishedIsNew ==
  IInv /\ [Next]_vars => (Published => position' > position /\ position' > floor)
  <1> SUFFICES ASSUME IInv, [Next]_vars, Published
               PROVE  position' > position /\ position' > floor
    OBVIOUS
  <1>1. CASE DrainLf
    BY <1>1, LineStep DEF DrainLf, Published
  <1>2. CASE ~ DrainLf
    BY <1>2 DEF Next, vars, Published, lineVars, Send, RxIrq, SchedIn, DrainByte, DrainEnd,
                GpsReset, GpsSetEnabled
  <1> QED BY <1>1, <1>2

(* Sentences are published in their order and at most once, however small  *)
(* the ring and the line buffer are.                                       *)
THEOREM InOrder == Spec => PublishedInOrder
  <1>1. IInv /\ [Next]_vars => [Published => position' > position]_vars
    BY PublishedIsNew
  <1> QED BY <1>1, GpsInvariant, PTL DEF Spec, PublishedInOrder

(* Nothing that had begun to arrive before a reset is published after it.  *)
THEOREM NothingOldAfterReset == Spec => ResetDiscardsOld
  <1>1. IInv /\ [Next]_vars => [Published => position' > floor]_vars
    BY PublishedIsNew
  <1> QED BY <1>1, GpsInvariant, PTL DEF Spec, ResetDiscardsOld

-----------------------------------------------------------------------------
(* Only schedIn and GPS_RESET change the line and its buffer, and they     *)
(* change both.                                                            *)
LEMMA BufferFollows == TypeOK /\ BufferInv /\ [Next]_vars => BufferInv'
  <1> SUFFICES ASSUME TypeOK, BufferInv, [Next]_vars PROVE BufferInv'
    OBVIOUS
  <1>1. CASE UNCHANGED <<m_lineBuf, line>>
    BY <1>1 DEF BufferInv
  <1>2. CASE DrainLf \/ GpsReset
    BY <1>2 DEF DrainLf, GpsReset, BufferInv
  <1>3. CASE DrainByte
    <2>1. /\ rx # <<>> /\ Head(rx) # LF /\ line' = Append(line, Head(rx))
          /\ m_lineBuf' = IF Len(m_lineBuf) < LineCapacity
                          THEN Append(m_lineBuf, Head(rx)) ELSE <<>>
      BY <1>3 DEF DrainByte
    <2>2. line \in Seq(Half) /\ LineCapacity \in Nat /\ Len(line) \in Nat
      BY CapacityAssumption DEF TypeOK
    <2>3. Len(line') = Len(line) + 1
      BY ONLY <2>1, <2>2
    <2>4. CASE Len(line) < LineCapacity
      BY <2>1, <2>2, <2>4 DEF BufferInv
    <2>5. CASE ~ (Len(line) < LineCapacity)
      BY ONLY <2>2, <2>3, <2>5 DEF BufferInv
    <2> QED BY <2>4, <2>5
  <1>4. CASE (\E kind \in Kinds : Send(kind)) \/ RxIrq \/ SchedIn \/ DrainEnd
             \/ (\E enabled \in BOOLEAN : GpsSetEnabled(enabled)) \/ UNCHANGED vars
    BY <1>1, <1>4 DEF Send, RxIrq, SchedIn, DrainEnd, GpsSetEnabled, vars, lineVars
  <1> QED BY <1>2, <1>3, <1>4 DEF Next

(* The buffer holds the line that is being received.                       *)
THEOREM LineBuffered == Spec => []BufferInv
  <1>1. Init => BufferInv
    BY DEF Init, BufferInv
  <1> QED BY <1>1, BufferFollows, GpsTypeCorrect, PTL DEF Spec

(* A whole line with a fix is published, whatever is done with other lines. *)
LEMMA WholeIsPublished ==
  ASSUME NEW l, ProcessLine(l), Len(l) = 2, IsWhole(l), l[1].kind = "fix",
         m_sentenceCount \in Nat
  PROVE  Published
  <1>1. IsGga(l)
    <2>1. Len(<<>>) = 0
      OBVIOUS
    <2>2. l # <<>>
      BY <2>1
    <2> QED BY <2>2 DEF IsGga, IsWhole
  <1>2. Outcomes(l) = {"publish"}
    BY <1>1 DEF Outcomes
  <1>3. PICK quality \in Qualities(l) : Publish(l, quality)
    BY <1>2 DEF ProcessLine
  <1> QED BY <1>3 DEF Publish, Published

(* A whole sentence with a fix that schedIn finishes after the end of a    *)
(* line is published.                                                      *)
THEOREM NoWholeSentenceMissed == Spec => WholeSentencePublished
  <1> DEFINE Finished == pc = "drain" /\ rx # rx' /\ line' = <<>> /\ Len(line) = 2
                         /\ IsWhole(line) /\ line[1].kind = "fix"
  <1>1. TypeOK /\ BufferInv /\ [Next]_vars => [Finished => Published]_vars
    <2> SUFFICES ASSUME TypeOK, BufferInv, [Next]_vars, Finished PROVE Published
      OBVIOUS
    <2>1. line # line' /\ rx # rx' /\ pc = "drain"
      OBVIOUS
    <2>2. DrainLf \/ DrainByte
      BY <2>1 DEF Next, Send, RxIrq, SchedIn, DrainEnd, GpsReset, GpsSetEnabled, vars
    <2>3. CASE DrainByte
      <3>1. line \in Seq(Half) /\ line' = Append(line, Head(rx))
        BY <2>3 DEF DrainByte, TypeOK
      <3> QED BY <3>1
    <2>4. CASE DrainLf
      <3>1. m_lineBuf = line
        BY CapacityAssumption DEF BufferInv
      <3>2. ProcessLine(line)
        BY <2>4, <3>1 DEF DrainLf
      <3> QED BY <3>2, WholeIsPublished DEF TypeOK
    <2> QED BY <2>2, <2>3, <2>4
  <1> QED BY <1>1, LineBuffered, GpsTypeCorrect, PTL DEF Spec, WholeSentencePublished
=============================================================================
