------------------------------ MODULE UartRing ------------------------------
(***************************************************************************)
(* The receive path of one UART of hal/rp2040_uart.c: the hardware FIFO,   *)
(* the interrupt handler that empties it into a ring buffer, and the       *)
(* polling task that reads the ring.  The two UARTs have a ring each and   *)
(* share nothing, so one instance of this module stands for either.        *)
(*                                                                         *)
(* The handler owns head and the task owns tail; neither takes a lock (the *)
(* critical sections the file initialises are never entered).  The handler *)
(* may run between any two memory accesses of the task, so every access of *)
(* the task is a step of its own; the handler is never interrupted by the  *)
(* task, so one pass of its loop is one step.                              *)
(***************************************************************************)
EXTENDS Naturals, Sequences

CONSTANTS Byte,           \* the byte values a line can carry
          Zero,           \* the value of static storage before it is written
          RingSize,       \* UART_RING_BUF_SIZE
          FifoDepth,      \* bytes the hardware receive FIFO can hold
          HAL_ERR_EMPTY

ASSUME RingSizeAssumption == RingSize \in Nat /\ RingSize >= 2
ASSUME FifoDepthAssumption == FifoDepth \in Nat /\ FifoDepth >= 1
ASSUME ByteAssumption == Zero \in Byte /\ HAL_ERR_EMPTY \notin Byte

VARIABLES wire,    \* the hardware FIFO
          buf,     \* RingBuf.buf
          head,    \* RingBuf.head: the next slot the handler writes
          tail,    \* RingBuf.tail: the next slot the task reads
          pc,      \* where the task stands in the HAL call it is making
          seen,    \* the task's copy of head
          byte,    \* the byte loaded for the caller
          ret,     \* what the last uart_getc_nb answered
          count    \* what the last uart_rx_available answered

ringVars == <<buf, head, tail>>
vars == <<wire, buf, head, tail, pc, seen, byte, ret, count>>

Slots == 0 .. (RingSize - 1)

(***************************************************************************)
(* The operators whose names end in _Bug are plausible mistakes in the     *)
(* definition they precede.  Nothing below uses them: each is what one of  *)
(* the properties is there to catch.                                       *)
(***************************************************************************)
Succ_Bug(i) == i + 1

(* (i + 1) & RING_MASK and (b - a) & RING_MASK.  The ring size is a power  *)
(* of two, so masking is the remainder; the arithmetic here needs no more  *)
(* than RingSize >= 2.                                                     *)
Succ(i) == (i + 1) % RingSize
Distance(a, b) == (b + RingSize - a) % RingSize

(* The bytes between tail t and head h of storage b, oldest first; Queue is *)
(* what the ring holds.                                                     *)
Contents(b, t, h) == [k \in 1 .. Distance(t, h) |-> b[(t + k - 1) % RingSize]]
Queue == Contents(buf, tail, head)

(* The state uart0_init_hw and uart1_init_hw leave. *)
Init == /\ wire = <<>>
        /\ buf = [i \in Slots |-> Zero]
        /\ head = 0
        /\ tail = 0
        /\ pc = "idle"
        /\ seen = 0
        /\ byte = Zero
        /\ ret = HAL_ERR_EMPTY
        /\ count = 0

-----------------------------------------------------------------------------
(* A byte arrives.  The overrun of the hardware FIFO is not modelled.      *)
Arrive(b) == /\ Len(wire) < FifoDepth
             /\ wire' = Append(wire, b)
             /\ UNCHANGED <<buf, head, tail, pc, seen, byte, ret, count>>

(* No test for a full ring. *)
RxIrq_Bug == /\ wire # <<>>
             /\ wire' = Tail(wire)
             /\ buf' = [buf EXCEPT ![head] = Head(wire)]
             /\ head' = Succ(head)
             /\ UNCHANGED <<tail, pc, seen, byte, ret, count>>

(* A full ring makes room by dropping the oldest byte: the handler writes  *)
(* the task's index.                                                       *)
RxIrqDropOldest_Bug ==
         /\ wire # <<>>
         /\ wire' = Tail(wire)
         /\ buf' = [buf EXCEPT ![head] = Head(wire)]
         /\ head' = Succ(head)
         /\ tail' = IF Succ(head) = tail THEN Succ(tail) ELSE tail
         /\ UNCHANGED <<pc, seen, byte, ret, count>>

(* One pass of the loop of uart0_rx_irq_handler / uart1_rx_irq_handler.    *)
RxIrq == /\ wire # <<>>
         /\ wire' = Tail(wire)
         /\ IF Succ(head) # tail
            THEN /\ buf' = [buf EXCEPT ![head] = Head(wire)]
                 /\ head' = Succ(head)
            ELSE UNCHANGED <<buf, head>>
         /\ UNCHANGED <<tail, pc, seen, byte, ret, count>>

-----------------------------------------------------------------------------
(* The read stays one slot behind the handler. *)
GetcSample_Bug ==
    /\ pc = "idle"
    /\ seen' = IF head = tail THEN head ELSE (head + RingSize - 1) % RingSize
    /\ pc' = "test"
    /\ UNCHANGED <<wire, buf, head, tail, byte, ret, count>>

(* uart_getc_nb: sample head, compare it with tail, load the byte, advance *)
(* tail.                                                                   *)
GetcSample == /\ pc = "idle"
              /\ seen' = head
              /\ pc' = "test"
              /\ UNCHANGED <<wire, buf, head, tail, byte, ret, count>>

GetcEmpty == /\ pc = "test"
             /\ tail = seen
             /\ ret' = HAL_ERR_EMPTY
             /\ pc' = "idle"
             /\ UNCHANGED <<wire, buf, head, tail, seen, byte, count>>

GetcLoad == /\ pc = "test"
            /\ tail # seen
            /\ byte' = buf[tail]
            /\ pc' = "advance"
            /\ UNCHANGED <<wire, buf, head, tail, seen, ret, count>>

GetcAdvance == /\ pc = "advance"
               /\ tail' = Succ(tail)
               /\ ret' = byte
               /\ pc' = "idle"
               /\ UNCHANGED <<wire, buf, head, seen, byte, count>>

(* uart_rx_flush: load head, store it into tail. *)
FlushSample == /\ pc = "idle"
               /\ seen' = head
               /\ pc' = "flush"
               /\ UNCHANGED <<wire, buf, head, tail, byte, ret, count>>

(* The flush resets both indices. *)
FlushStore_Bug == /\ pc = "flush"
                  /\ tail' = 0
                  /\ head' = 0
                  /\ pc' = "idle"
                  /\ UNCHANGED <<wire, buf, seen, byte, ret, count>>

FlushStore == /\ pc = "flush"
              /\ tail' = seen
              /\ pc' = "idle"
              /\ UNCHANGED <<wire, buf, head, seen, byte, ret, count>>

(* uart_rx_available: load head, subtract tail. *)
AvailSample == /\ pc = "idle"
               /\ seen' = head
               /\ pc' = "avail"
               /\ UNCHANGED <<wire, buf, head, tail, byte, ret, count>>

(* The operands of the subtraction are exchanged. *)
AvailReturn_Bug == /\ pc = "avail"
                   /\ count' = Distance(seen, tail)
                   /\ pc' = "idle"
                   /\ UNCHANGED <<wire, buf, head, tail, seen, byte, ret>>

AvailReturn == /\ pc = "avail"
               /\ count' = Distance(tail, seen)
               /\ pc' = "idle"
               /\ UNCHANGED <<wire, buf, head, tail, seen, byte, ret>>

-----------------------------------------------------------------------------
Getc == GetcEmpty \/ GetcLoad \/ GetcAdvance
Task == GetcSample \/ Getc \/ FlushSample \/ FlushStore \/ AvailSample \/ AvailReturn

Next == \/ \E b \in Byte : Arrive(b)
        \/ RxIrq
        \/ Task

Spec == Init /\ [][Next]_vars

(* The processor runs a pending interrupt and lets the task go on; the     *)
(* rate groups make the drivers call uart_getc_nb for ever, whatever other *)
(* HAL calls come between (strong fairness of the first step of a read).   *)
Fairness == /\ WF_vars(RxIrq)
            /\ WF_vars(Getc \/ FlushStore \/ AvailReturn)
            /\ SF_vars(GetcSample)

FairSpec == Spec /\ Fairness
-----------------------------------------------------------------------------
(* The type invariant: in particular both indices stay inside the ring.    *)
TypeOK == /\ wire \in Seq(Byte)
          /\ Len(wire) <= FifoDepth
          /\ buf \in [Slots -> Byte]
          /\ head \in Slots
          /\ tail \in Slots
          /\ pc \in {"idle", "test", "advance", "flush", "avail"}
          /\ seen \in Slots
          /\ byte \in Byte
          /\ ret \in Byte \cup {HAL_ERR_EMPTY}
          /\ count \in Slots

(* A copy of head taken by the task is never overtaken: it stays in the    *)
(* window of buffered bytes however often the handler runs before it is    *)
(* used.  Were it violated, a flush or a read would move tail past head    *)
(* and hand out a whole ring of stale bytes.                               *)
SnapshotInWindow == pc # "idle" => Distance(tail, seen) <= Distance(tail, head)

(* Between loading a byte and advancing tail the handler cannot replace    *)
(* the byte: a read neither returns a byte twice nor skips one.            *)
LoadedByteIsOldest == pc = "advance" => seen # tail /\ byte = buf[tail]

(* The strengthening that is inductive. *)
IInv == TypeOK /\ SnapshotInWindow /\ LoadedByteIsOldest

(* uart_rx_available is a lower bound: a caller that reads that many bytes *)
(* never finds the ring empty, although the count was computed from a head *)
(* that may be old.                                                        *)
AvailableNeverOverstates ==
    [][pc = "avail" /\ pc' = "idle" => count' <= Len(Queue)]_vars

(* A byte that has reached the ring does not stay in it: while the drivers *)
(* poll, tail leaves every slot that holds one.                            *)
BufferedByteLeaves == \A i \in Slots : (tail = i /\ head # i) ~> (tail # i)

-----------------------------------------------------------------------------
(* The ring implements the lossy queue of RxFifo.  A read that is going to *)
(* answer HAL_ERR_EMPTY has found the queue empty when it sampled head; a  *)
(* flush has decided what it discards when it sampled head.                *)
Fifo == INSTANCE RxFifo WITH
            Capacity <- RingSize - 1,
            queue <- Queue,
            ret <- IF pc = "test" /\ seen = tail THEN HAL_ERR_EMPTY ELSE ret,
            mark <- IF pc = "flush" THEN Distance(tail, seen) ELSE 0

(* Every byte taken from the hardware FIFO reaches the reader exactly once *)
(* and in order, unless the ring was full when it came; a flush discards   *)
(* exactly the bytes that were buffered when it started.                   *)
ImplementsRxFifo == Fifo!Spec
=============================================================================
