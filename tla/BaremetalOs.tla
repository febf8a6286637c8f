----------------------------- MODULE BaremetalOs -----------------------------
(***************************************************************************)
(* The bare-metal operating system layer: Os/Baremetal/Queue.cpp and       *)
(* Mutex.cpp, and the atomic builtins of Os/atomic.c.  All of them exclude *)
(* the interrupt handlers by masking interrupts (PRIMASK), one inside the  *)
(* other: a queue may be used while a mutex is held.                       *)
(*                                                                         *)
(* There is one thread.  A handler runs to its end between two steps of    *)
(* the thread, whenever PRIMASK is clear, and makes one call; so a call    *)
(* of the thread is several steps and one of a handler is a single step.   *)
(***************************************************************************)
EXTENDS Naturals, Sequences

CONSTANTS Requests,      \* arguments of Queue::create: records [depth, size]
          MaxQueues,     \* MAX_QUEUES
          PoolBytes,     \* QUEUE_POOL_BYTES
          IndexWord,     \* 2^32: head and tail are counted modulo this
          Messages,      \* records [len, body]
          Rooms,         \* sizes of the buffers that receive is called with
          Blank,         \* what a slot holds before it is written
          CellBits,      \* width of the atomic cell: 8, 16 or 32
          MaxLockDepth   \* 32: a lock nested so deep fails an assertion

(* The length word of a slot. *)
Header == 4
Needed(r) == r.depth * (r.size + Header)

(* head % depth jumps when head wraps, unless depth divides IndexWord.     *)
ASSUME RequestAssumption ==
    \A r \in Requests : /\ r \in [depth : Nat \ {0}, size : Nat \ {0}]
                        /\ \E k \in 1 .. IndexWord : IndexWord = r.depth * k
ASSUME SizeAssumption ==
    /\ IndexWord \in Nat \ {0, 1} /\ PoolBytes \in Nat /\ MaxQueues \in Nat
    /\ CellBits \in Nat /\ MaxLockDepth \in Nat \ {0}
    /\ Messages \subseteq [len : Nat, body : {m.body : m \in Messages}]
    /\ Rooms \subseteq Nat

VARIABLES
    \* Queue.cpp: the queues made so far (queue i has the handle i - 1), and
    \* the next free byte of the pool
    s_queues, s_pool_offset,
    \* Mutex.cpp
    s_lock_depth, s_saved_irq,
    \* the cell that the builtins of atomic.c work on
    cell,
    \* the processor's interrupt mask: 1 if interrupts are disabled
    primask,
    \* the thread: where it stands, the call it makes, the mask it has saved
    \* and what it has read
    pc, call, saved, seen,
    \* what the last call answered, and the assertion that stopped the program
    out, halted

queueVars == <<s_queues, s_pool_offset>>
lockVars == <<s_lock_depth, s_saved_irq>>
threadVars == <<pc, call, saved, seen>>
vars == <<queueVars, lockVars, cell, primask, threadVars, out, halted>>

Pow2[n \in Nat] == IF n = 0 THEN 1 ELSE 2 * Pow2[n - 1]
Cell == 0 .. (Pow2[CellBits] - 1)
AtomicOps == {"load", "store", "exchange", "cas", "add", "sub", "and", "or"}
(* The operand of a builtin, and what compare_exchange expects to find. *)
Operands(op) == [v : IF op = "load" THEN {0} ELSE Cell,
                 exp : IF op = "cas" THEN Cell ELSE {0}]
Handles == 1 .. Len(s_queues)
NoCall == [op |-> "none"]

(* The operators whose names end in _Bug are plausible mistakes in the     *)
(* definition they precede; nothing uses them.                             *)

Init == /\ s_queues = <<>> /\ s_pool_offset = 0
        /\ s_lock_depth = 0 /\ s_saved_irq = 0
        /\ cell = 0 /\ primask = 0
        /\ pc = "idle" /\ call = NoCall /\ saved = 0 /\ seen = 0
        /\ out = <<>> /\ halted = "no"

-----------------------------------------------------------------------------
(* Queue.cpp. *)

(* The pool offset does not move. *)
Create_Bug(r) ==
    LET fits == Len(s_queues) < MaxQueues /\ s_pool_offset + Needed(r) <= PoolBytes
        q == [base |-> s_pool_offset, capacity |-> Needed(r), msg_size |-> r.size,
              depth |-> r.depth, head |-> 0, tail |-> 0, count |-> 0,
              buf |-> [k \in 0 .. (r.depth - 1) |-> Blank]]
    IN  /\ pc = "idle" /\ halted = "no"
        /\ s_queues' = IF fits THEN Append(s_queues, q) ELSE s_queues
        /\ out' = <<"create", IF fits THEN "OK" ELSE "UNINITIALIZED">>
        /\ UNCHANGED <<s_pool_offset, lockVars, cell, primask, threadVars, halted>>

(* Queue::create, which the thread calls while the program starts. *)
Create(r) ==
    LET fits == Len(s_queues) < MaxQueues /\ s_pool_offset + Needed(r) <= PoolBytes
        q == [base |-> s_pool_offset, capacity |-> Needed(r), msg_size |-> r.size,
              depth |-> r.depth, head |-> 0, tail |-> 0, count |-> 0,
              buf |-> [k \in 0 .. (r.depth - 1) |-> Blank]]
    IN  /\ pc = "idle" /\ halted = "no"
        /\ s_queues' = IF fits THEN Append(s_queues, q) ELSE s_queues
        /\ s_pool_offset' = IF fits THEN s_pool_offset + Needed(r) ELSE s_pool_offset
        /\ out' = <<"create", IF fits THEN "OK" ELSE "UNINITIALIZED">>
        /\ UNCHANGED <<lockVars, cell, primask, threadVars, halted>>

(* Handles count from one. *)
NullHandle_Bug(i) == FALSE

(* The handle is the index cast to a pointer: the first queue's is null.   *)
NullHandle(i) == i = 1

SendStatus(q, m) == IF q.count >= q.depth THEN "FULL"
                    ELSE IF m.len > q.msg_size THEN "SIZE_MISMATCH" ELSE "OK"

(* The length word and the bytes of a message go into the slot at head.    *)
Stored(q, m) == [q EXCEPT !.buf[q.head % q.depth] = m]
Pushed(q) == [q EXCEPT !.head = (@ + 1) % IndexWord, !.count = @ + 1]

Oldest(q) == q.buf[q.tail % q.depth]

(* tail is not counted modulo 2^32. *)
Popped_Bug(q) == [q EXCEPT !.tail = @ + 1, !.count = @ - 1]

Popped(q) == [q EXCEPT !.tail = (@ + 1) % IndexWord, !.count = @ - 1]

(* setBuff refuses a message longer than the caller's buffer. *)
Received(m, room) == IF m.len <= room THEN <<"receive", "OK", m>>
                     ELSE <<"receive", "SIZE_MISMATCH", Blank>>

-----------------------------------------------------------------------------
(* atomic.c.  The builtins for 1, 2 and 4 bytes differ in CellBits only.   *)

Bit(x, k) == (x \div Pow2[k]) % 2

NewValue(op, old, x) ==
    CASE op = "load" -> old
      [] op \in {"store", "exchange"} -> x.v
      [] op = "cas" -> IF old = x.exp THEN x.v ELSE old
      [] op = "add" -> (old + x.v) % Pow2[CellBits]
      [] op = "sub" -> (old + Pow2[CellBits] - x.v) % Pow2[CellBits]
      [] op = "and" -> CHOOSE r \in Cell : \A k \in 0 .. (CellBits - 1) :
                          Bit(r, k) = IF Bit(old, k) = 1 THEN Bit(x.v, k) ELSE 0
      [] op = "or" -> CHOOSE r \in Cell : \A k \in 0 .. (CellBits - 1) :
                          Bit(r, k) = IF Bit(old, k) = 1 THEN 1 ELSE Bit(x.v, k)

(* compare_exchange also tells the caller what it found, through exp. *)
Answer(op, old, x) ==
    CASE op = "store" -> <<"store">>
      [] op = "cas" -> <<"cas", old = x.exp, old>>
      [] OTHER -> <<op, old>>

-----------------------------------------------------------------------------
(* Calls of the thread.  Each begins by reading PRIMASK into a local; only *)
(* the next instruction masks the interrupts.                              *)

Begin(c) == /\ pc = "idle" /\ halted = "no"
            /\ pc' = "mask" /\ call' = c /\ saved' = primask
            /\ UNCHANGED <<queueVars, lockVars, cell, primask, seen, out, halted>>

BeginSend(i, m) == /\ ~ NullHandle(i)
                   /\ Begin([op |-> "send", queue |-> i, msg |-> m])

BeginReceive(i, room) == /\ ~ NullHandle(i)
                         /\ Begin([op |-> "receive", queue |-> i, room |-> room])

BeginUpdate(op, x) == Begin([op |-> op, x |-> x])

(* send and receive, of the thread or of a handler, assert that the handle *)
(* is not null.                                                            *)
AssertHandle(i) ==
    /\ pc = "idle" \/ primask = 0
    /\ halted = "no" /\ NullHandle(i)
    /\ halted' = "null_handle"
    /\ UNCHANGED <<queueVars, lockVars, cell, primask, threadVars, out>>

(* PRIMASK is read, but interrupts stay enabled. *)
Mask_Bug == /\ pc = "mask" /\ halted = "no"
            /\ pc' = "load"
            /\ UNCHANGED <<queueVars, lockVars, cell, primask, call, saved, seen, out, halted>>

Mask == /\ pc = "mask" /\ halted = "no"
        /\ pc' = "load" /\ primask' = 1
        /\ UNCHANGED <<queueVars, lockVars, cell, call, saved, seen, out, halted>>

(* send tests and fills the slot; head and count follow. *)
SendStore ==
    /\ pc = "load" /\ halted = "no" /\ call.op = "send"
    /\ LET q == s_queues[call.queue]
           status == SendStatus(q, call.msg)
       IN  \/ /\ status = "OK"
              /\ s_queues' = [s_queues EXCEPT ![call.queue] = Stored(q, call.msg)]
              /\ pc' = "commit"
              /\ UNCHANGED out
           \/ /\ status # "OK"
              /\ out' = <<"send", status>>
              /\ pc' = "restore"
              /\ UNCHANGED s_queues
    /\ UNCHANGED <<s_pool_offset, lockVars, cell, primask, call, saved, seen, halted>>

SendCommit ==
    /\ pc = "commit" /\ halted = "no" /\ call.op = "send"
    /\ s_queues' = [s_queues EXCEPT ![call.queue] = Pushed(@)]
    /\ out' = <<"send", "OK">>
    /\ pc' = "restore"
    /\ UNCHANGED <<s_pool_offset, lockVars, cell, primask, call, saved, seen, halted>>

(* receive copies the oldest message out; tail and count follow. *)
ReceiveLoad ==
    /\ pc = "load" /\ halted = "no" /\ call.op = "receive"
    /\ LET q == s_queues[call.queue]
       IN  \/ /\ q.count # 0
              /\ seen' = Received(Oldest(q), call.room)
              /\ pc' = "commit"
              /\ UNCHANGED out
           \/ /\ q.count = 0
              /\ out' = <<"receive", "NO_MORE_MSGS", Blank>>
              /\ pc' = "restore"
              /\ UNCHANGED seen
    /\ UNCHANGED <<queueVars, lockVars, cell, primask, call, saved, halted>>

ReceiveCommit ==
    /\ pc = "commit" /\ halted = "no" /\ call.op = "receive"
    /\ s_queues' = [s_queues EXCEPT ![call.queue] = Popped(@)]
    /\ out' = seen
    /\ pc' = "restore" /\ seen' = 0
    /\ UNCHANGED <<s_pool_offset, lockVars, cell, primask, call, saved, halted>>

(* A builtin reads the cell, and then writes it. *)
AtomicLoad ==
    /\ pc = "load" /\ halted = "no" /\ call.op \in AtomicOps
    /\ seen' = cell
    /\ pc' = "commit"
    /\ UNCHANGED <<queueVars, lockVars, cell, primask, call, saved, out, halted>>

AtomicCommit ==
    /\ pc = "commit" /\ halted = "no" /\ call.op \in AtomicOps
    /\ cell' = NewValue(call.op, seen, call.x)
    /\ out' = Answer(call.op, seen, call.x)
    /\ pc' = "restore" /\ seen' = 0
    /\ UNCHANGED <<queueVars, lockVars, primask, call, saved, halted>>

(* Interrupts are enabled, whatever they were before. *)
Restore_Bug == /\ pc = "restore" /\ halted = "no"
               /\ primask' = 0
               /\ pc' = "idle" /\ call' = NoCall /\ saved' = 0
               /\ UNCHANGED <<queueVars, lockVars, cell, seen, out, halted>>

Restore == /\ pc = "restore" /\ halted = "no"
           /\ primask' = saved
           /\ pc' = "idle" /\ call' = NoCall /\ saved' = 0
           /\ UNCHANGED <<queueVars, lockVars, cell, seen, out, halted>>

-----------------------------------------------------------------------------
(* Mutex.cpp.  All mutexes share the one mask and the one depth.           *)

(* lock reads the mask if it is the outermost one. *)
LockBegin == /\ pc = "idle" /\ halted = "no" /\ s_lock_depth = 0
             /\ pc' = "lock" /\ saved' = primask
             /\ UNCHANGED <<queueVars, lockVars, cell, primask, call, seen, out, halted>>

LockMask == /\ pc = "lock" /\ halted = "no"
            /\ primask' = 1
            /\ s_saved_irq' = saved /\ s_lock_depth' = s_lock_depth + 1
            /\ halted' = IF s_lock_depth + 1 < MaxLockDepth THEN "no" ELSE "lock_depth"
            /\ pc' = "idle" /\ saved' = 0
            /\ UNCHANGED <<queueVars, cell, call, seen, out>>

LockNested == /\ pc = "idle" /\ halted = "no" /\ s_lock_depth > 0
              /\ s_lock_depth' = s_lock_depth + 1
              /\ halted' = IF s_lock_depth + 1 < MaxLockDepth THEN "no" ELSE "lock_depth"
              /\ UNCHANGED <<queueVars, s_saved_irq, cell, primask, threadVars, out>>

(* The mask stays when the last lock is given back. *)
UnLock_Bug == /\ pc = "idle" /\ halted = "no" /\ s_lock_depth > 0
              /\ s_lock_depth' = s_lock_depth - 1
              /\ primask' = IF s_lock_depth > 1 THEN s_saved_irq ELSE primask
              /\ UNCHANGED <<queueVars, s_saved_irq, cell, threadVars, out, halted>>

(* unLock of a mutex that is held; the outermost one restores the mask.    *)
UnLock == /\ pc = "idle" /\ halted = "no" /\ s_lock_depth > 0
          /\ s_lock_depth' = s_lock_depth - 1
          /\ primask' = IF s_lock_depth = 1 THEN s_saved_irq ELSE primask
          /\ UNCHANGED <<queueVars, s_saved_irq, cell, threadVars, out, halted>>

-----------------------------------------------------------------------------
(* Calls of an interrupt handler. *)

HandlerRuns == primask = 0 /\ halted = "no"

HandlerSend(i, m) ==
    LET q == s_queues[i]
        status == SendStatus(q, m)
    IN  /\ HandlerRuns /\ ~ NullHandle(i)
        /\ s_queues' = IF status = "OK"
                       THEN [s_queues EXCEPT ![i] = Pushed(Stored(q, m))] ELSE s_queues
        /\ out' = <<"send", status>>
        /\ UNCHANGED <<s_pool_offset, lockVars, cell, primask, threadVars, halted>>

HandlerReceive(i, room) ==
    LET q == s_queues[i]
    IN  /\ HandlerRuns /\ ~ NullHandle(i)
        /\ out' = IF q.count = 0 THEN <<"receive", "NO_MORE_MSGS", Blank>>
                  ELSE Received(Oldest(q), room)
        /\ s_queues' = IF q.count = 0 THEN s_queues
                       ELSE [s_queues EXCEPT ![i] = Popped(q)]
        /\ UNCHANGED <<s_pool_offset, lockVars, cell, primask, threadVars, halted>>

HandlerUpdate(op, x) ==
    /\ HandlerRuns
    /\ cell' = NewValue(op, cell, x)
    /\ out' = Answer(op, cell, x)
    /\ UNCHANGED <<queueVars, lockVars, primask, threadVars, halted>>

(* A handler locks and unlocks a mutex: what remains is the mask it saved. *)
HandlerLocks ==
    /\ HandlerRuns
    /\ s_saved_irq' = primask
    /\ UNCHANGED <<queueVars, s_lock_depth, cell, primask, threadVars, out, halted>>

-----------------------------------------------------------------------------
Thread == \/ \E r \in Requests : Create(r)
          \/ \E i \in Handles : \/ \E m \in Messages : BeginSend(i, m)
                                \/ \E room \in Rooms : BeginReceive(i, room)
          \/ \E op \in AtomicOps : \E x \in Operands(op) : BeginUpdate(op, x)
          \/ Mask
          \/ SendStore \/ SendCommit
          \/ ReceiveLoad \/ ReceiveCommit
          \/ AtomicLoad \/ AtomicCommit
          \/ Restore
          \/ LockBegin \/ LockMask \/ LockNested \/ UnLock

Handler == \/ \E i \in Handles : \/ \E m \in Messages : HandlerSend(i, m)
                                 \/ \E room \in Rooms : HandlerReceive(i, room)
           \/ \E op \in AtomicOps : \E x \in Operands(op) : HandlerUpdate(op, x)
           \/ HandlerLocks

Next == Thread \/ Handler \/ \E i \in Handles : AssertHandle(i)

Spec == Init /\ [][Next]_vars
-----------------------------------------------------------------------------
(* The messages in a queue, oldest first. *)
Items(q) == [k \in 1 .. q.count |-> q.buf[(q.tail + k - 1) % q.depth]]

(* The layer implements OsServices: whoever calls, and wherever a handler  *)
(* comes between, queues are bounded FIFOs, a refused call changes nothing *)
(* and the builtins are atomic.                                            *)
Services == INSTANCE OsServices WITH
    queues <- [i \in Handles |-> [depth |-> s_queues[i].depth,
                                  size |-> s_queues[i].msg_size,
                                  items |-> Items(s_queues[i])]],
    used <- s_pool_offset

ImplementsOsServices == Services!Spec
-----------------------------------------------------------------------------
Queue == [base : Nat, capacity : Nat, msg_size : Nat, depth : Nat,
          head : Nat, tail : Nat, count : Nat,
          buf : UNION {[0 .. (r.depth - 1) -> Messages \cup {Blank}] : r \in Requests}]

QueueFor(r) == [base : Nat, capacity : {Needed(r)}, msg_size : {r.size},
                depth : {r.depth}, head : 0 .. (IndexWord - 1),
                tail : 0 .. (IndexWord - 1), count : 0 .. r.depth,
                buf : [0 .. (r.depth - 1) -> Messages \cup {Blank}]]

ThreadTypeOK == /\ s_lock_depth \in 0 .. MaxLockDepth /\ s_saved_irq \in {0, 1}
                /\ primask \in {0, 1} /\ saved \in {0, 1}
                /\ pc \in {"idle", "mask", "load", "commit", "restore", "lock"}
                /\ halted \in {"no", "null_handle", "lock_depth"}

QueuesTypeOK == /\ s_queues \in Seq(Queue) /\ Len(s_queues) <= MaxQueues
                /\ \A i \in Handles : \E r \in Requests : s_queues[i] \in QueueFor(r)
                /\ s_pool_offset \in 0 .. PoolBytes

(* The type invariant. *)
TypeOK == ThreadTypeOK /\ QueuesTypeOK /\ cell \in Cell

(* Every masked region puts back the mask it found, however regions and    *)
(* locks are nested and wherever a handler comes between: a thread that    *)
(* holds nothing never keeps the handlers out.                             *)
HandlersLetInAgain == pc = "idle" /\ s_lock_depth = 0 => primask = 0

(* While a mutex is held no handler touches the queues or the cell, also   *)
(* between and after the masked regions of the calls made under the lock.  *)
(* (A step of the thread that changes either moves pc.)                    *)
LockExcludesHandlers ==
    [][ s_lock_depth > 0 /\ pc' = pc
          => cell' = cell /\ \A i \in Handles : s_queues'[i] = s_queues[i] ]_vars

(* The queues' regions of the pool do not overlap, and the slots at head   *)
(* and tail, length word included, lie inside the queue's own region.      *)
SlotInside(q, index) ==
    (index % q.depth) * (q.msg_size + Header) + Header + q.msg_size <= q.capacity

PoolRegionsDisjoint ==
    /\ \A i \in Handles :
          LET q == s_queues[i]
          IN  /\ q.base + q.capacity <= s_pool_offset
              /\ SlotInside(q, q.head) /\ SlotInside(q, q.tail)
              /\ \A j \in Handles : i < j => q.base + q.capacity <= s_queues[j].base
    /\ s_pool_offset <= PoolBytes

(* The queue that was created first can never hold a message: its handle   *)
(* is taken for a null pointer, and the program stops at its first use.    *)
FirstQueueStaysEmpty == s_queues # <<>> => s_queues[1].count = 0

-----------------------------------------------------------------------------
(* The inductive invariant behind the properties: what the masks and the   *)
(* saved masks are at each step of the thread, how the indices of a queue  *)
(* depend on each other, and what the thread knows between the two halves  *)
(* of a masked region.                                                     *)
Nested == IF s_lock_depth > 0 THEN 1 ELSE 0

MaskInv == /\ s_lock_depth > 0 => primask = 1 /\ s_saved_irq = 0
           /\ halted = "no" => s_lock_depth < MaxLockDepth
           /\ pc = "idle" => primask = Nested
           /\ pc \in {"mask", "load", "commit", "restore"} => saved = Nested
           /\ pc = "mask" => primask = Nested
           /\ pc \in {"load", "commit", "restore"} => primask = 1
           /\ pc = "lock" => s_lock_depth = 0 /\ primask = 0 /\ saved = 0

IndexInv == \A i \in Handles :
    s_queues[i].head = (s_queues[i].tail + s_queues[i].count) % IndexWord

UsableQueue == Handles \ {1}

Calls == [op : {"send"}, queue : UsableQueue, msg : Messages]
           \cup [op : {"receive"}, queue : UsableQueue, room : Rooms]
           \cup UNION {[op : {o}, x : Operands(o)] : o \in AtomicOps}

CallInv == /\ pc \in {"mask", "load", "commit", "restore"} => call \in Calls
           /\ pc = "commit" =>
                 CASE call.op = "send" ->
                        LET q == s_queues[call.queue]
                        IN  /\ SendStatus(q, call.msg) = "OK"
                            /\ q.buf[q.head % q.depth] = call.msg
                   [] call.op = "receive" ->
                        LET q == s_queues[call.queue]
                        IN  q.count # 0 /\ seen = Received(Oldest(q), call.room)
                   [] OTHER -> seen = cell

PoolInv == \A i \in Handles :
    /\ s_queues[i].base + s_queues[i].capacity <= s_pool_offset
    /\ \A j \in Handles : i < j => s_queues[i].base + s_queues[i].capacity <= s_queues[j].base

IInv == /\ ThreadTypeOK /\ QueuesTypeOK
        /\ MaskInv /\ IndexInv /\ CallInv /\ PoolInv /\ FirstQueueStaysEmpty
=============================================================================
