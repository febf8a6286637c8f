----------------------------- MODULE OsServices -----------------------------
(***************************************************************************)
(* What the bare-metal operating system layer promises to the thread and   *)
(* to the interrupt handlers that call it: message queues that are first-  *)
(* in first-out, bounded and taken from one pool, and atomic operations on *)
(* a cell.  Every call takes effect in one step, whoever makes it.  How    *)
(* the code gets there, with masked interrupts, slots and wrapping         *)
(* indices, is BaremetalOs's business; BaremetalOs implements this module. *)
(***************************************************************************)
EXTENDS Naturals, Sequences

CONSTANTS Requests,   \* arguments of Queue::create: records [depth, size]
          MaxQueues,  \* MAX_QUEUES
          PoolBytes,  \* QUEUE_POOL_BYTES
          Messages,   \* records [len, body]
          Rooms,      \* sizes of the buffers that receive is called with
          Blank,      \* the message of a receive that finds none
          CellBits    \* width of the atomic cell

VARIABLES queues,  \* the created queues: their bounds and their messages
          used,    \* bytes of the pool given away
          cell,    \* the atomic cell
          out      \* what the last call answered

osVars == <<queues, used, cell, out>>

Pow2[n \in Nat] == IF n = 0 THEN 1 ELSE 2 * Pow2[n - 1]
Cell == 0 .. (Pow2[CellBits] - 1)
AtomicOps == {"load", "store", "exchange", "cas", "add", "sub", "and", "or"}

(* The operand of an operation, and what a compare-and-swap expects. *)
Operands(op) == [v : IF op = "load" THEN {0} ELSE Cell,
                 exp : IF op = "cas" THEN Cell ELSE {0}]

Init == /\ queues = <<>>
        /\ used = 0
        /\ cell = 0
        /\ out = <<>>

Bytes(r) == r.depth * (r.size + 4)

(* A queue is made if there is room for another, or refused. *)
Create(r) ==
    LET fits == Len(queues) < MaxQueues /\ used + Bytes(r) <= PoolBytes
    IN  /\ queues' = IF fits
                     THEN Append(queues, [depth |-> r.depth, size |-> r.size, items |-> <<>>])
                     ELSE queues
        /\ used' = IF fits THEN used + Bytes(r) ELSE used
        /\ out' = <<"create", IF fits THEN "OK" ELSE "UNINITIALIZED">>
        /\ UNCHANGED cell

(* A message joins the end of its queue, or is refused and leaves no trace.*)
Send(i, m) ==
    LET q == queues[i]
        status == IF Len(q.items) >= q.depth THEN "FULL"
                  ELSE IF m.len > q.size THEN "SIZE_MISMATCH" ELSE "OK"
    IN  /\ queues' = IF status = "OK"
                     THEN [queues EXCEPT ![i].items = Append(q.items, m)] ELSE queues
        /\ out' = <<"send", status>>
        /\ UNCHANGED <<used, cell>>

(* The oldest message leaves its queue; one that does not fit the caller's *)
(* buffer is lost.                                                         *)
Receive(i, room) ==
    LET q == queues[i]
    IN  /\ UNCHANGED <<used, cell>>
        /\ \/ /\ q.items = <<>>
              /\ out' = <<"receive", "NO_MORE_MSGS", Blank>>
              /\ UNCHANGED queues
           \/ /\ q.items # <<>>
              /\ out' = IF Head(q.items).len <= room
                        THEN <<"receive", "OK", Head(q.items)>>
                        ELSE <<"receive", "SIZE_MISMATCH", Blank>>
              /\ queues' = [queues EXCEPT ![i].items = Tail(q.items)]

Bit(x, k) == (x \div Pow2[k]) % 2

(* The cell after an operation that found old in it. *)
NewValue(op, old, x) ==
    CASE op = "load" -> old
      [] op \in {"store", "exchange"} -> x.v
      [] op = "cas" -> IF old = x.exp THEN x.v ELSE old
      [] op = "add" -> (old + x.v) % Pow2[CellBits]
      [] op = "sub" -> (old + Pow2[CellBits] - x.v) % Pow2[CellBits]
      [] op = "and" -> CHOOSE r \in Cell : \A k \in 0 .. (CellBits - 1) :
                          Bit(r, k) = IF Bit(old, k) = 1 THEN Bit(x.v, k) ELSE 0
      [] op = "or" -> CHOOSE r \in Cell : \A k \in 0 .. (CellBits - 1) :
                          Bit(r, k) = IF Bit(old, k) = 1 THEN 1 ELSE Bit(x.v, k)

(* What an operation answers: every one but a store tells the value found. *)
Answer(op, old, x) ==
    CASE op = "store" -> <<"store">>
      [] op = "cas" -> <<"cas", old = x.exp, old>>
      [] OTHER -> <<op, old>>

Update(op, x) ==
    /\ cell' = NewValue(op, cell, x)
    /\ out' = Answer(op, cell, x)
    /\ UNCHANGED <<queues, used>>

Next == \/ \E r \in Requests : Create(r)
        \/ \E i \in 1 .. Len(queues) :
              \/ \E m \in Messages : Send(i, m)
              \/ \E room \in Rooms : Receive(i, room)
        \/ \E op \in AtomicOps : \E x \in Operands(op) : Update(op, x)

Spec == Init /\ [][Next]_osVars
=============================================================================
