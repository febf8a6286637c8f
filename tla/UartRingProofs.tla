--------------------------- MODULE UartRingProofs ---------------------------
(***************************************************************************)
(* Proofs about UartRing, for every ring size of at least two slots, every *)
(* set of bytes and every depth of the hardware FIFO: its invariant, and   *)
(* that it implements RxFifo.                                              *)
(***************************************************************************)
EXTENDS UartRing, SequenceTheorems, TLAPS

(* The remainder and the quotient-free facts about it that the index       *)
(* arithmetic rests on.                                                    *)
LEMMA ModBelow == ASSUME NEW x \in 0 .. (RingSize - 1) PROVE x % RingSize = x
  BY RingSizeAssumption, SMT

LEMMA ModAbove == ASSUME NEW x \in RingSize .. (2 * RingSize - 1)
                  PROVE  x % RingSize = x - RingSize
  BY RingSizeAssumption, SMT

(* Advancing an index keeps it inside the ring. *)
LEMMA SuccSlot ==
  ASSUME NEW i \in Slots
  PROVE  /\ Succ(i) \in Slots
         /\ Succ(i) = IF i = RingSize - 1 THEN 0 ELSE i + 1
  <1>1. CASE i = RingSize - 1
    BY <1>1, ModAbove, RingSizeAssumption DEF Succ, Slots
  <1>2. CASE i # RingSize - 1
    BY <1>2, ModBelow, RingSizeAssumption DEF Succ, Slots
  <1> QED BY <1>1, <1>2

(* The distance from one slot to another, without the remainder. *)
LEMMA DistanceValue ==
  ASSUME NEW a \in Slots, NEW b \in Slots
  PROVE  /\ Distance(a, b) \in Slots
         /\ Distance(a, b) = IF a <= b THEN b - a ELSE b + RingSize - a
  <1>1. CASE a <= b
    BY <1>1, ModAbove, RingSizeAssumption DEF Distance, Slots
  <1>2. CASE a > b
    BY <1>2, ModBelow, RingSizeAssumption DEF Distance, Slots
  <1> QED BY <1>1, <1>2, RingSizeAssumption DEF Slots

(* The slot that lies d places after slot a, without the remainder. *)
LEMMA OffsetValue ==
  ASSUME NEW a \in Slots, NEW d \in Slots
  PROVE  /\ (a + d) % RingSize \in Slots
         /\ (a + d) % RingSize =
              IF a + d < RingSize THEN a + d ELSE a + d - RingSize
  <1>1. CASE a + d < RingSize
    BY <1>1, ModBelow, RingSizeAssumption DEF Slots
  <1>2. CASE a + d >= RingSize
    BY <1>2, ModAbove, RingSizeAssumption DEF Slots
  <1> QED BY <1>1, <1>2, RingSizeAssumption DEF Slots

(* Distances are slot numbers; a slot is at distance 0 from itself alone.  *)
LEMMA DistanceSlot == \A a, b \in Slots : Distance(a, b) \in Slots
  BY DistanceValue

LEMMA DistanceNat == \A a, b \in Slots : Distance(a, b) \in Nat
  <1> TAKE a, b \in Slots
  <1>1. Distance(a, b) \in Slots
    BY DistanceSlot
  <1> QED BY <1>1, RingSizeAssumption DEF Slots

LEMMA DistanceZero == \A a, b \in Slots : Distance(a, b) = 0 <=> a = b
  <1> TAKE a, b \in Slots
  <1>1. Distance(a, b) = IF a <= b THEN b - a ELSE b + RingSize - a
    BY DistanceValue
  <1> QED BY <1>1, RingSizeAssumption DEF Slots

(* Advancing the second index adds one, unless the ring was full. *)
LEMMA DistanceGrows ==
  \A a, b \in Slots : Succ(b) # a => Distance(a, Succ(b)) = Distance(a, b) + 1
  <1> SUFFICES ASSUME NEW a \in Slots, NEW b \in Slots, Succ(b) # a
               PROVE  Distance(a, Succ(b)) = Distance(a, b) + 1
    OBVIOUS
  <1>1. Succ(b) \in Slots /\ Succ(b) = IF b = RingSize - 1 THEN 0 ELSE b + 1
    BY SuccSlot
  <1>2. Distance(a, b) = IF a <= b THEN b - a ELSE b + RingSize - a
    BY DistanceValue
  <1>3. Distance(a, Succ(b)) = IF a <= Succ(b) THEN Succ(b) - a
                               ELSE Succ(b) + RingSize - a
    BY <1>1, DistanceValue
  <1> QED BY <1>1, <1>2, <1>3, RingSizeAssumption DEF Slots

-----------------------------------------------------------------------------
(* The initial state satisfies the inductive invariant. *)
LEMMA InitIInv == Init => IInv
  BY RingSizeAssumption, FifoDepthAssumption, ByteAssumption
     DEF Init, IInv, TypeOK, SnapshotInWindow, LoadedByteIsOldest, Slots

(* Every step of the handler, of the line and of the task preserves it.    *)
LEMMA NextIInv == IInv /\ [Next]_vars => IInv'
  <1> SUFFICES ASSUME IInv, [Next]_vars PROVE IInv'
    OBVIOUS
  <1> USE RingSizeAssumption, FifoDepthAssumption, ByteAssumption DEF IInv
  <1>t. TypeOK
    OBVIOUS
  <1>n. \A a, b \in Slots : Distance(a, b) <= Distance(a, b)
    BY DistanceSlot DEF Slots
  <1>a. ASSUME NEW b \in Byte, Arrive(b) PROVE IInv'
    BY <1>a, <1>t DEF Arrive, TypeOK, SnapshotInWindow, LoadedByteIsOldest
  <1>b. CASE RxIrq
    <2>1. TypeOK'
      <3>1. wire' \in Seq(Byte) /\ Len(wire') <= FifoDepth /\ Head(wire) \in Byte
        BY <1>b, <1>t DEF RxIrq, TypeOK
      <3>2. head' \in Slots /\ buf' \in [Slots -> Byte]
        BY <1>b, <1>t, <3>1, SuccSlot DEF RxIrq, TypeOK
      <3> QED BY <1>b, <1>t, <3>1, <3>2 DEF RxIrq, TypeOK
    <2>2. CASE Succ(head) = tail
      BY <1>b, <1>t, <2>1, <2>2 DEF RxIrq, TypeOK, SnapshotInWindow, LoadedByteIsOldest
    <2>3. CASE Succ(head) # tail
      <3>1. /\ head' = Succ(head) /\ buf' = [buf EXCEPT ![head] = Head(wire)]
            /\ UNCHANGED <<tail, pc, seen, byte>>
        BY <1>b, <2>3 DEF RxIrq
      <3>2. Distance(tail, Succ(head)) = Distance(tail, head) + 1
        BY <1>t, <2>3, DistanceGrows DEF TypeOK
      <3>3. SnapshotInWindow'
        <4> SUFFICES ASSUME pc # "idle" PROVE Distance(tail, seen) <= Distance(tail, Succ(head))
          BY <3>1 DEF SnapshotInWindow
        <4>1. Distance(tail, seen) \in Nat /\ Distance(tail, head) \in Nat
          BY <1>t, DistanceNat DEF TypeOK
        <4> QED BY <3>2, <4>1 DEF SnapshotInWindow
      <3>4. LoadedByteIsOldest'
        <4> SUFFICES ASSUME pc = "advance" PROVE seen # tail /\ byte = buf'[tail]
          BY <3>1 DEF LoadedByteIsOldest
        <4>1. seen # tail /\ byte = buf[tail]
          BY DEF LoadedByteIsOldest
        <4>2. Distance(tail, seen) # 0 /\ Distance(tail, seen) \in Nat
          BY <1>t, <4>1, DistanceZero, DistanceNat DEF TypeOK
        <4>3. Distance(tail, head) # 0
          <5>1. Distance(tail, seen) <= Distance(tail, head)
            BY DEF SnapshotInWindow
          <5>2. Distance(tail, head) \in Nat
            BY <1>t, DistanceNat DEF TypeOK
          <5> QED BY <4>2, <5>1, <5>2
        <4>4. head # tail
          BY <1>t, <4>3, DistanceZero DEF TypeOK
        <4> QED BY <1>t, <3>1, <4>1, <4>4 DEF TypeOK
      <3> QED BY <2>1, <3>3, <3>4
    <2> QED BY <2>2, <2>3
  <1>c. CASE GetcSample
    BY <1>c, <1>t, <1>n DEF GetcSample, TypeOK, SnapshotInWindow, LoadedByteIsOldest
  <1>d. CASE GetcEmpty
    BY <1>d, <1>t DEF GetcEmpty, TypeOK, SnapshotInWindow, LoadedByteIsOldest
  <1>e. CASE GetcLoad
    BY <1>e, <1>t DEF GetcLoad, TypeOK, SnapshotInWindow, LoadedByteIsOldest
  <1>f. CASE GetcAdvance
    BY <1>f, <1>t, SuccSlot DEF GetcAdvance, TypeOK, SnapshotInWindow, LoadedByteIsOldest
  <1>g. CASE FlushSample
    BY <1>g, <1>t, <1>n DEF FlushSample, TypeOK, SnapshotInWindow, LoadedByteIsOldest
  <1>h. CASE FlushStore
    BY <1>h, <1>t DEF FlushStore, TypeOK, SnapshotInWindow, LoadedByteIsOldest
  <1>i. CASE AvailSample
    BY <1>i, <1>t, <1>n DEF AvailSample, TypeOK, SnapshotInWindow, LoadedByteIsOldest
  <1>j. CASE AvailReturn
    BY <1>j, <1>t, DistanceSlot DEF AvailReturn, TypeOK, SnapshotInWindow, LoadedByteIsOldest
  <1>k. CASE UNCHANGED vars
    BY <1>k DEF vars, TypeOK, SnapshotInWindow, LoadedByteIsOldest, Distance
  <1> QED
    BY <1>a, <1>b, <1>c, <1>d, <1>e, <1>f, <1>g, <1>h, <1>i, <1>j, <1>k DEF Next, Task, Getc

(* The inductive invariant holds in every reachable state. *)
THEOREM RingInvariant == Spec => []IInv
  BY InitIInv, NextIInv, PTL DEF Spec

(* Every variable keeps its type; both indices stay inside the ring. *)
THEOREM RingTypeCorrect == Spec => []TypeOK
  <1>1. IInv => TypeOK
    BY DEF IInv
  <1> QED BY <1>1, RingInvariant, PTL

(* The task's copy of head never leaves the window of buffered bytes. *)
THEOREM SnapshotSafe == Spec => []SnapshotInWindow
  <1>1. IInv => SnapshotInWindow
    BY DEF IInv
  <1> QED BY <1>1, RingInvariant, PTL

(* The handler never replaces the byte a read has loaded. *)
THEOREM LoadedByteSafe == Spec => []LoadedByteIsOldest
  <1>1. IInv => LoadedByteIsOldest
    BY DEF IInv
  <1> QED BY <1>1, RingInvariant, PTL

-----------------------------------------------------------------------------
(* The ring implements the lossy queue of RxFifo. *)
(* Arithmetic on offsets from a slot.  A slot nearer to a than h is not h. *)
LEMMA OffsetMisses ==
  ASSUME NEW a \in Slots, NEW h \in Slots, NEW d \in Slots, d < Distance(a, h)
  PROVE  (a + d) % RingSize # h
  <1>1. (a + d) % RingSize = IF a + d < RingSize THEN a + d ELSE a + d - RingSize
    BY OffsetValue
  <1>2. Distance(a, h) = IF a <= h THEN h - a ELSE h + RingSize - a
    BY DistanceValue
  <1> QED BY <1>1, <1>2, RingSizeAssumption DEF Slots

LEMMA OffsetReaches ==
  ASSUME NEW a \in Slots, NEW h \in Slots
  PROVE  (a + Distance(a, h)) % RingSize = h
  <1>1. /\ Distance(a, h) \in Slots
        /\ Distance(a, h) = IF a <= h THEN h - a ELSE h + RingSize - a
    BY DistanceValue
  <1>2. (a + Distance(a, h)) % RingSize =
          IF a + Distance(a, h) < RingSize THEN a + Distance(a, h)
          ELSE a + Distance(a, h) - RingSize
    BY <1>1, OffsetValue
  <1> QED BY <1>1, <1>2, RingSizeAssumption DEF Slots

(* Going to s and then d further is going there at once. *)
LEMMA OffsetComposes ==
  ASSUME NEW t \in Slots, NEW s \in Slots, NEW d \in Slots,
         Distance(t, s) + d \in Slots
  PROVE  (t + (Distance(t, s) + d)) % RingSize = (s + d) % RingSize
  <1>1. /\ Distance(t, s) \in Slots
        /\ Distance(t, s) = IF t <= s THEN s - t ELSE s + RingSize - t
    BY DistanceValue
  <1>2. (s + d) % RingSize = IF s + d < RingSize THEN s + d ELSE s + d - RingSize
    BY OffsetValue
  <1>3. (t + (Distance(t, s) + d)) % RingSize =
          IF t + (Distance(t, s) + d) < RingSize THEN t + (Distance(t, s) + d)
          ELSE t + (Distance(t, s) + d) - RingSize
    BY OffsetValue
  <1> QED BY <1>1, <1>2, <1>3, RingSizeAssumption DEF Slots

(* A slot inside a window splits the window. *)
LEMMA DistanceSplits ==
  ASSUME NEW t \in Slots, NEW s \in Slots, NEW h \in Slots,
         Distance(t, s) <= Distance(t, h)
  PROVE  Distance(s, h) = Distance(t, h) - Distance(t, s)
  <1>1. Distance(t, s) = IF t <= s THEN s - t ELSE s + RingSize - t
    BY DistanceValue
  <1>2. Distance(t, h) = IF t <= h THEN h - t ELSE h + RingSize - t
    BY DistanceValue
  <1>3. Distance(s, h) = IF s <= h THEN h - s ELSE h + RingSize - s
    BY DistanceValue
  <1> QED BY <1>1, <1>2, <1>3, RingSizeAssumption DEF Slots

(* The ring is full exactly when it holds RingSize - 1 bytes. *)
LEMMA FullRing ==
  ASSUME NEW t \in Slots, NEW h \in Slots
  PROVE  Succ(h) # t <=> Distance(t, h) < RingSize - 1
  <1>1. Distance(t, h) = IF t <= h THEN h - t ELSE h + RingSize - t
    BY DistanceValue
  <1>2. Succ(h) = IF h = RingSize - 1 THEN 0 ELSE h + 1
    BY SuccSlot
  <1> QED BY <1>1, <1>2, RingSizeAssumption DEF Slots

-----------------------------------------------------------------------------
(* What the ring holds is a sequence of bytes, as long as the distance.    *)
LEMMA ContentsSeq ==
  ASSUME NEW b \in [Slots -> Byte], NEW t \in Slots, NEW h \in Slots
  PROVE  /\ Contents(b, t, h) \in Seq(Byte)
         /\ Len(Contents(b, t, h)) = Distance(t, h)
         /\ \A k \in 1 .. Distance(t, h) :
               Contents(b, t, h)[k] = b[(t + k - 1) % RingSize]
  <1>1. Distance(t, h) \in Nat /\ Distance(t, h) \in Slots
    BY DistanceNat, DistanceSlot
  <1>2. \A k \in 1 .. Distance(t, h) : (t + k - 1) % RingSize \in Slots
    <2> TAKE k \in 1 .. Distance(t, h)
    <2>1. k - 1 \in Slots
      BY <1>1, RingSizeAssumption DEF Slots
    <2>2. (t + (k - 1)) % RingSize \in Slots
      BY <2>1, OffsetValue
    <2>3. t + (k - 1) = t + k - 1
      BY <1>1 DEF Slots
    <2> QED BY <2>2, <2>3
  <1>3. Contents(b, t, h) \in [1 .. Distance(t, h) -> Byte]
    BY <1>2 DEF Contents
  <1>4. Contents(b, t, h) \in Seq(Byte)
    BY <1>1, <1>3, SeqDef
  <1>5. Len(Contents(b, t, h)) = Distance(t, h)
    BY <1>1, <1>3, <1>4, LenProperties
  <1> QED BY <1>4, <1>5 DEF Contents

(* The same, with the offset of an element as it is used below. *)
LEMMA ContentsElement ==
  ASSUME NEW b \in [Slots -> Byte], NEW t \in Slots, NEW h \in Slots,
         NEW d \in Slots, d < Distance(t, h)
  PROVE  Contents(b, t, h)[d + 1] = b[(t + d) % RingSize]
  <1>0. Distance(t, h) \in Nat
    BY DistanceNat
  <1>1. d + 1 \in 1 .. Distance(t, h)
    BY <1>0, RingSizeAssumption DEF Slots
  <1>2. t + (d + 1) - 1 = t + d
    BY RingSizeAssumption DEF Slots
  <1>3. Contents(b, t, h)[d + 1] = b[(t + (d + 1) - 1) % RingSize]
    BY <1>1, ContentsSeq
  <1> QED BY <1>2, <1>3

(* Writing at head and advancing it appends the byte. *)
LEMMA ContentsAppend ==
  ASSUME NEW b \in [Slots -> Byte], NEW t \in Slots, NEW h \in Slots,
         NEW x \in Byte, Succ(h) # t
  PROVE  Contents([b EXCEPT ![h] = x], t, Succ(h)) = Append(Contents(b, t, h), x)
  <1> DEFINE c == [b EXCEPT ![h] = x]
             old == Contents(b, t, h)
             new == Contents(c, t, Succ(h))
             n == Distance(t, h)
  <1>1. c \in [Slots -> Byte] /\ Succ(h) \in Slots
    BY SuccSlot
  <1>2. n \in Nat /\ n \in Slots /\ Distance(t, Succ(h)) = n + 1
    BY DistanceNat, DistanceSlot, DistanceGrows
  <1>3. new \in Seq(Byte) /\ Len(new) = n + 1
    <2> HIDE DEF c
    <2>1. new \in Seq(Byte) /\ Len(new) = Distance(t, Succ(h))
      BY <1>1, ContentsSeq, Zenon
    <2> QED BY <1>2, <2>1, Zenon
  <1>4. old \in Seq(Byte) /\ Len(old) = n
    BY ContentsSeq
  <1>5. \A k \in 1 .. n + 1 : new[k] = Append(old, x)[k]
    <2> TAKE k \in 1 .. n + 1
    <2>1. k - 1 \in Slots /\ (k - 1) + 1 = k /\ k - 1 < n + 1
      BY <1>2, RingSizeAssumption DEF Slots
    <2>2. new[k] = c[(t + (k - 1)) % RingSize]
      <3> HIDE DEF c
      <3> QED BY <1>1, <1>2, <2>1, ContentsElement
    <2>3. CASE k = n + 1
      <3>1. k - 1 = n
        BY <1>2, <2>3
      <3>2. (t + (k - 1)) % RingSize = h
        BY <3>1, OffsetReaches
      <3>3. c[h] = x
        OBVIOUS
      <3>4. Append(old, x)[k] = x
        <4> HIDE DEF old, n
        <4> QED BY <1>2, <1>4, <2>3
      <3> QED BY <2>2, <3>2, <3>3, <3>4
    <2>4. CASE k # n + 1
      <3>1. k - 1 < n /\ k \in 1 .. n
        BY <1>2, <2>4
      <3>2. (t + (k - 1)) % RingSize # h /\ (t + (k - 1)) % RingSize \in Slots
        BY <2>1, <3>1, OffsetMisses, OffsetValue
      <3>3. c[(t + (k - 1)) % RingSize] = b[(t + (k - 1)) % RingSize]
        BY <3>2
      <3>4. old[k] = b[(t + (k - 1)) % RingSize]
        BY <2>1, <3>1, ContentsElement
      <3>5. Append(old, x)[k] = old[k]
        <4> HIDE DEF old, n
        <4> QED BY <1>2, <1>4, <3>1
      <3> QED BY <2>2, <3>3, <3>4, <3>5
    <2> QED BY <2>3, <2>4
  <1>6. Append(old, x) \in Seq(Byte) /\ Len(Append(old, x)) = n + 1
    <2> HIDE DEF old, n
    <2> QED BY <1>2, <1>4
  <1> HIDE DEF old, new, n, c
  <1>7. new = Append(old, x)
    BY <1>3, <1>5, <1>6, SeqEqual
  <1> QED BY <1>7 DEF old, new, c

(* Moving tail forward inside the window removes a prefix. *)
LEMMA ContentsSuffix ==
  ASSUME NEW b \in [Slots -> Byte], NEW t \in Slots, NEW s \in Slots,
         NEW h \in Slots, Distance(t, s) <= Distance(t, h)
  PROVE  Contents(b, s, h) = SubSeq(Contents(b, t, h), Distance(t, s) + 1,
                                    Len(Contents(b, t, h)))
  <1> DEFINE old == Contents(b, t, h)
             new == Contents(b, s, h)
             m == Distance(t, s)
             n == Distance(t, h)
             sub == SubSeq(old, m + 1, n)
  <1>1. m \in Nat /\ n \in Nat /\ m <= n /\ n \in Slots /\ m \in Slots
    BY DistanceNat, DistanceSlot
  <1>2. Distance(s, h) = n - m
    BY DistanceSplits
  <1>3. old \in Seq(Byte) /\ Len(old) = n
    BY ContentsSeq
  <1>4. new \in Seq(Byte) /\ Len(new) = n - m
    BY <1>2, ContentsSeq
  <1>5. /\ sub \in Seq(Byte)
        /\ Len(sub) = n - m
        /\ \A i \in 1 .. n - m : sub[i] = old[m + i]
    <2> HIDE DEF old, m, n
    <2>1. \A i \in m + 1 .. n : old[i] \in Byte
      BY <1>1, <1>3, ElementOfSeq
    <2>2. m + 1 \in Int /\ n \in Int
      BY <1>1
    <2>3. /\ sub \in Seq(Byte)
          /\ Len(sub) = IF m + 1 <= n THEN n - (m + 1) + 1 ELSE 0
          /\ \A i \in 1 .. n - (m + 1) + 1 : sub[i] = old[(m + 1) + i - 1]
      BY <2>1, <2>2, SubSeqProperties
    <2>4. n - (m + 1) + 1 = n - m /\ (~ (m + 1 <= n) => n - m = 0)
      BY <1>1
    <2>5. \A i \in 1 .. n - m : (m + 1) + i - 1 = m + i
      BY <1>1
    <2> HIDE DEF sub
    <2> QED BY <2>3, <2>4, <2>5
  <1>6. \A i \in 1 .. n - m : new[i] = sub[i]
    <2> TAKE i \in 1 .. n - m
    <2>1. /\ i - 1 \in Slots /\ m + (i - 1) \in Slots /\ m + (i - 1) < n
          /\ i - 1 < n - m /\ (i - 1) + 1 = i /\ m + (i - 1) + 1 = m + i
      BY <1>1, RingSizeAssumption DEF Slots
    <2>2. new[i] = b[(s + (i - 1)) % RingSize]
      BY <1>2, <2>1, ContentsElement
    <2>3. old[m + i] = b[(t + (m + (i - 1))) % RingSize]
      BY <2>1, ContentsElement
    <2>4. (t + (m + (i - 1))) % RingSize = (s + (i - 1)) % RingSize
      BY <2>1, OffsetComposes
    <2> QED BY <1>5, <2>2, <2>3, <2>4
  <1> HIDE DEF old, new, m, n, sub
  <1>7. new = sub
    BY <1>4, <1>5, <1>6, SeqEqual
  <1> QED BY <1>3, <1>7 DEF old, new, m, n, sub

(* The ring is empty exactly when the indices meet. *)
LEMMA ContentsEmpty ==
  ASSUME NEW b \in [Slots -> Byte], NEW t \in Slots, NEW h \in Slots
  PROVE  Contents(b, t, h) = <<>> <=> t = h
  <1>1. Contents(b, t, h) \in Seq(Byte) /\ Len(Contents(b, t, h)) = Distance(t, h)
    BY ContentsSeq
  <1>2. Distance(t, h) = 0 <=> t = h
    BY DistanceZero
  <1>3. Contents(b, t, h) = <<>> <=> Len(Contents(b, t, h)) = 0
    BY <1>1, EmptySeq
  <1> QED BY <1>1, <1>2, <1>3

(* Advancing tail removes the oldest byte. *)
LEMMA ContentsTail ==
  ASSUME NEW b \in [Slots -> Byte], NEW t \in Slots, NEW h \in Slots, t # h
  PROVE  /\ Contents(b, Succ(t), h) = Tail(Contents(b, t, h))
         /\ Head(Contents(b, t, h)) = b[t]
  <1>1. Succ(t) \in Slots /\ Succ(t) # t
    BY SuccSlot, RingSizeAssumption DEF Slots
  <1>2. Distance(t, t) = 0 /\ Distance(t, Succ(t)) = Distance(t, t) + 1
    BY <1>1, DistanceZero, DistanceGrows
  <1>3. Distance(t, h) \in Nat /\ Distance(t, h) # 0
    BY DistanceNat, DistanceZero
  <1>4. Contents(b, Succ(t), h) = SubSeq(Contents(b, t, h), 2, Len(Contents(b, t, h)))
    <2>1. Distance(t, Succ(t)) = 1 /\ 1 <= Distance(t, h)
      BY <1>2, <1>3
    <2>2. Distance(t, Succ(t)) <= Distance(t, h) /\ Distance(t, Succ(t)) + 1 = 2
      BY <2>1
    <2>3. Contents(b, Succ(t), h) = SubSeq(Contents(b, t, h), Distance(t, Succ(t)) + 1,
                                           Len(Contents(b, t, h)))
      BY <1>1, <2>2, ContentsSuffix, Zenon
    <2> QED BY <2>2, <2>3, Zenon
  <1>5. Contents(b, t, h) \in Seq(Byte) /\ Contents(b, t, h) # <<>>
    BY ContentsSeq, ContentsEmpty
  <1>6. Head(Contents(b, t, h)) = Contents(b, t, h)[1]
    BY <1>5
  <1>7. 0 \in Slots /\ 0 < Distance(t, h) /\ 0 + 1 = 1
    BY <1>3, RingSizeAssumption DEF Slots
  <1>8. Contents(b, t, h)[1] = b[(t + 0) % RingSize]
    BY <1>7, ContentsElement
  <1>9. (t + 0) % RingSize = t
    BY ModBelow DEF Slots
  <1> QED BY <1>4, <1>5, <1>6, <1>8, <1>9, TailIsSubSeq

-----------------------------------------------------------------------------
(* The initial state of the ring is an initial state of the queue. *)
LEMMA InitRefines == Init => Fifo!Init
  <1> SUFFICES ASSUME Init PROVE Fifo!Init
    OBVIOUS
  <1>1. TypeOK /\ tail = head /\ pc = "idle"
    BY InitIInv DEF Init, IInv
  <1>2. Queue = <<>>
    BY <1>1, ContentsEmpty DEF Queue, TypeOK
  <1> QED BY <1>1, <1>2 DEF Init, Fifo!Init

(* Every step of the ring is a step of the queue, or leaves it unchanged.  *)
LEMMA StepRefines == IInv /\ [Next]_vars => [Fifo!Next]_(Fifo!fifoVars)
  <1> SUFFICES ASSUME IInv, [Next]_vars PROVE Fifo!Next \/ UNCHANGED Fifo!fifoVars
    OBVIOUS
  <1>t. TypeOK /\ SnapshotInWindow /\ LoadedByteIsOldest
    BY DEF IInv
  <1>q. /\ Queue \in Seq(Byte)
        /\ Len(Queue) = Distance(tail, head)
        /\ Queue = <<>> <=> tail = head
    <2>1. buf \in [Slots -> Byte] /\ tail \in Slots /\ head \in Slots
      BY <1>t DEF TypeOK
    <2>2. Queue \in Seq(Byte) /\ Len(Queue) = Distance(tail, head)
      BY ONLY <2>1, ContentsSeq, Zenon DEF Queue
    <2>3. Queue = <<>> <=> tail = head
      BY ONLY <2>1, ContentsEmpty, Zenon DEF Queue
    <2> QED BY <2>2, <2>3
  <1>s. UNCHANGED <<buf, head, tail>> => Queue' = Queue
    BY DEF Queue, Contents, Distance
  <1>m. /\ Distance(tail, seen) \in Nat
        /\ Distance(tail, seen) = 0 <=> tail = seen
        /\ tail # head => Distance(tail, head) # 0
    BY <1>t, DistanceNat, DistanceZero DEF TypeOK
  <1>a. ASSUME NEW b \in Byte, Arrive(b) PROVE Fifo!Next
    BY <1>a, <1>s DEF Arrive, Fifo!Next, Fifo!Arrive
  <1>b. CASE RxIrq
    <2>1. /\ wire # <<>> /\ wire' = Tail(wire)
          /\ UNCHANGED <<tail, pc, seen, ret>>
          /\ Head(wire) \in Byte
      BY <1>b, <1>t DEF RxIrq, TypeOK
    <2>2. Queue' = Fifo!Offer(Queue, Head(wire))
      <3>1. CASE Succ(head) # tail
        <4>1. buf' = [buf EXCEPT ![head] = Head(wire)] /\ head' = Succ(head)
          BY <1>b, <3>1 DEF RxIrq
        <4>2. Queue' = Append(Queue, Head(wire))
          BY <1>t, <2>1, <3>1, <4>1, ContentsAppend DEF Queue, TypeOK
        <4>3. Len(Queue) < RingSize - 1
          BY <1>t, <1>q, <3>1, FullRing DEF TypeOK
        <4> QED BY <4>2, <4>3 DEF Fifo!Offer
      <3>2. CASE Succ(head) = tail
        <4>1. UNCHANGED <<buf, head>>
          BY <1>b, <3>2 DEF RxIrq
        <4>2. ~ (Len(Queue) < RingSize - 1)
          BY <1>t, <1>q, <3>2, FullRing DEF TypeOK
        <4> QED BY <1>s, <2>1, <4>1, <4>2 DEF Fifo!Offer
      <3> QED BY <3>1, <3>2
    <2>3. Distance(tail, seen)' = Distance(tail, seen)
      BY <2>1 DEF Distance
    <2>4. Fifo!Receive
      BY <2>1, <2>2, <2>3 DEF Fifo!Receive
    <2> QED BY <2>4 DEF Fifo!Next
  <1>c. CASE GetcSample
    <2>1. /\ pc = "idle" /\ pc' = "test" /\ seen' = head
          /\ UNCHANGED <<wire, buf, head, tail, ret>>
      BY <1>c DEF GetcSample
    <2>2. CASE tail = head
      <3>1. Fifo!FindEmpty
        BY <1>q, <1>s, <2>1, <2>2 DEF Fifo!FindEmpty
      <3> QED BY <3>1 DEF Fifo!Next
    <2>3. CASE tail # head
      BY <1>s, <2>1, <2>3 DEF Fifo!fifoVars
    <2> QED BY <2>2, <2>3
  <1>d. CASE GetcEmpty
    BY <1>d, <1>s DEF GetcEmpty, Fifo!fifoVars
  <1>e. CASE GetcLoad
    BY <1>e, <1>s DEF GetcLoad, Fifo!fifoVars
  <1>f. CASE GetcAdvance
    <2>1. /\ pc = "advance" /\ pc' = "idle" /\ tail' = Succ(tail) /\ ret' = byte
          /\ UNCHANGED <<wire, buf, head, seen>>
      BY <1>f DEF GetcAdvance
    <2>2. byte = buf[tail] /\ tail # seen
      BY <1>t, <2>1 DEF LoadedByteIsOldest
    <2>3. tail # head
      <3>1. Distance(tail, seen) <= Distance(tail, head) /\ Distance(tail, seen) # 0
        BY <1>m, <1>t, <2>1, <2>2 DEF SnapshotInWindow
      <3>2. Distance(tail, head) # 0
        BY <1>m, <1>t, <3>1, DistanceNat DEF TypeOK
      <3> QED BY <1>t, <3>2, DistanceZero DEF TypeOK
    <2>4. Queue' = Tail(Queue) /\ Head(Queue) = buf[tail]
      BY <1>t, <2>1, <2>3, ContentsTail DEF Queue, TypeOK
    <2>5. Fifo!Take
      BY <1>q, <2>1, <2>2, <2>3, <2>4 DEF Fifo!Take
    <2> QED BY <2>5 DEF Fifo!Next
  <1>g. CASE FlushSample
    <2>1. /\ pc = "idle" /\ pc' = "flush" /\ seen' = head
          /\ UNCHANGED <<wire, buf, head, tail, ret>>
      BY <1>g DEF FlushSample
    <2>2. Distance(tail, seen)' = Len(Queue)
      BY <1>q, <2>1 DEF Distance
    <2>3. Fifo!FlushBegin
      BY <1>s, <2>1, <2>2 DEF Fifo!FlushBegin
    <2> QED BY <2>3 DEF Fifo!Next
  <1>h. CASE FlushStore
    <2>1. /\ pc = "flush" /\ pc' = "idle" /\ tail' = seen
          /\ UNCHANGED <<wire, buf, head, seen, ret>>
      BY <1>h DEF FlushStore
    <2>2. CASE tail = seen
      BY <1>m, <1>s, <2>1, <2>2 DEF Fifo!fifoVars
    <2>3. CASE tail # seen
      <3>1. Distance(tail, seen) <= Distance(tail, head)
        BY <1>t, <2>1 DEF SnapshotInWindow
      <3>2. Queue' = SubSeq(Queue, Distance(tail, seen) + 1, Len(Queue))
        BY <1>t, <2>1, <3>1, ContentsSuffix DEF Queue, TypeOK
      <3>3. Distance(tail, seen) > 0
        BY <1>m, <2>3
      <3>4. Fifo!FlushEnd
        BY <2>1, <3>2, <3>3 DEF Fifo!FlushEnd
      <3> QED BY <3>4 DEF Fifo!Next
    <2> QED BY <2>2, <2>3
  <1>i. CASE AvailSample
    BY <1>i, <1>s DEF AvailSample, Fifo!fifoVars
  <1>j. CASE AvailReturn
    BY <1>j, <1>s DEF AvailReturn, Fifo!fifoVars
  <1>k. CASE UNCHANGED vars
    BY <1>k, <1>s DEF vars, Fifo!fifoVars, Distance
  <1> QED
    BY <1>a, <1>b, <1>c, <1>d, <1>e, <1>f, <1>g, <1>h, <1>i, <1>j, <1>k DEF Next, Task, Getc

(* The ring implements the lossy queue: with StepRefines this is that no   *)
(* byte is duplicated, reordered or lost other than by arriving at a full  *)
(* ring or being flushed.                                                  *)
THEOREM RingImplementsQueue == Spec => ImplementsRxFifo
  <1>1. Spec => []IInv
    BY RingInvariant
  <1>2. Spec => Fifo!Init /\ [][Fifo!Next]_(Fifo!fifoVars)
    BY <1>1, InitRefines, StepRefines, PTL DEF Spec
  <1> QED BY <1>2 DEF ImplementsRxFifo, Fifo!Spec

(* What uart_rx_available answers is never more than the ring then holds.  *)
THEOREM AvailableSafe == Spec => AvailableNeverOverstates
  <1>1. IInv /\ [Next]_vars => [pc = "avail" /\ pc' = "idle" => count' <= Len(Queue)]_vars
    <2> SUFFICES ASSUME IInv, [Next]_vars, pc = "avail", pc' = "idle"
                 PROVE  count' <= Len(Queue)
      OBVIOUS
    <2>1. AvailReturn
      BY DEF Next, Task, Getc, vars, Arrive, RxIrq, GetcSample, GetcEmpty, GetcLoad,
             GetcAdvance, FlushSample, FlushStore, AvailSample
    <2>2. count' = Distance(tail, seen)
      BY <2>1 DEF AvailReturn
    <2>3. Distance(tail, seen) <= Distance(tail, head)
      BY DEF IInv, SnapshotInWindow
    <2>4. Len(Queue) = Distance(tail, head)
      BY ContentsSeq DEF IInv, TypeOK, Queue
    <2> QED BY <2>2, <2>3, <2>4
  <1> QED BY <1>1, RingInvariant, PTL DEF Spec, AvailableNeverOverstates
=============================================================================
