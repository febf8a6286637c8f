------------------------------- MODULE RxFifo -------------------------------
(***************************************************************************)
(* What a UART receive path of hal/rp2040_uart.c promises its caller: a    *)
(* first-in first-out buffer of Capacity bytes that loses a byte only when *)
(* it is full, and then loses the byte that has just arrived.  The ring,   *)
(* its indices and the interleaving of the interrupt handler with the      *)
(* polling task are UartRing's business; UartRing implements this module.  *)
(***************************************************************************)
EXTENDS Naturals, Sequences

CONSTANTS Byte,           \* the byte values a line can carry
          Capacity,       \* bytes the software buffer can hold
          FifoDepth,      \* bytes the RP2040's hardware receive FIFO can hold
          HAL_ERR_EMPTY   \* the answer of a read that finds nothing; not a byte

VARIABLES wire,   \* the hardware FIFO: received, not yet seen by the handler
          queue,  \* the software buffer
          ret,    \* what the last read answered: a byte, or HAL_ERR_EMPTY
          mark    \* bytes a flush in progress has decided to discard

fifoVars == <<wire, queue, ret, mark>>

(* The buffer after byte b is offered to it: the newest byte is the one    *)
(* that a full buffer loses.                                               *)
Offer(q, b) == IF Len(q) < Capacity THEN Append(q, b) ELSE q

Init == /\ wire = <<>>
        /\ queue = <<>>
        /\ ret = HAL_ERR_EMPTY
        /\ mark = 0

(* A byte arrives on the line.  What happens once the hardware FIFO itself *)
(* overruns is outside this model: the line pauses.                        *)
Arrive(b) == /\ Len(wire) < FifoDepth
             /\ wire' = Append(wire, b)
             /\ UNCHANGED <<queue, ret, mark>>

(* The interrupt handler moves one byte into the buffer, or drops it.      *)
Receive == /\ wire # <<>>
           /\ wire' = Tail(wire)
           /\ queue' = Offer(queue, Head(wire))
           /\ UNCHANGED <<ret, mark>>

(* A read takes the oldest byte. *)
Take == /\ mark = 0
        /\ queue # <<>>
        /\ queue' = Tail(queue)
        /\ ret' = Head(queue)
        /\ UNCHANGED <<wire, mark>>

(* A read finds the buffer empty. *)
FindEmpty == /\ mark = 0
             /\ queue = <<>>
             /\ ret' = HAL_ERR_EMPTY
             /\ UNCHANGED <<wire, queue, mark>>

(* A flush discards what was buffered when it began, and nothing that      *)
(* arrives while it runs.                                                  *)
FlushBegin == /\ mark = 0
              /\ mark' = Len(queue)
              /\ UNCHANGED <<wire, queue, ret>>

FlushEnd == /\ mark > 0
            /\ queue' = SubSeq(queue, mark + 1, Len(queue))
            /\ mark' = 0
            /\ UNCHANGED <<wire, ret>>

Next == \/ \E b \in Byte : Arrive(b)
        \/ Receive
        \/ Take
        \/ FindEmpty
        \/ FlushBegin
        \/ FlushEnd

Spec == Init /\ [][Next]_fifoVars
=============================================================================
