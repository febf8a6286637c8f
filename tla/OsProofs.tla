------------------------------ MODULE OsProofs ------------------------------
(***************************************************************************)
(* Proofs about BaremetalOs, for every set of queues whose depths divide   *)
(* the modulus of the indices, every set of messages and buffers, every    *)
(* width of the atomic cell and every nesting of locks: its invariants     *)
(* and, in the second half, that it implements OsServices.                 *)
(***************************************************************************)
EXTENDS BaremetalOs, NaturalLemmas, SequenceTheorems

(* Quotient and remainder are unique. *)
LEMMA RemainderUnique ==
  ASSUME NEW d \in Nat \ {0}, NEW n \in Nat, NEW r \in 0 .. (d - 1)
  PROVE  (d * n + r) % d = r
  <1>1. (n * d + r) % d = r
    BY ONLY QuotientIs
  <1>2. n * d = d * n
    OBVIOUS
  <1> QED BY <1>1, <1>2

(* Two numbers with the same remainder. *)
Congruent(a, b, d) == a % d = b % d

(* A remainder by a multiple of d may be taken out of a remainder by d.    *)
LEMMA RemainderInside ==
  ASSUME NEW d \in Nat \ {0}, NEW w, \E k \in Nat \ {0} : w = d * k,
         NEW x \in Nat, NEW y \in Nat
  PROVE  Congruent((x % w) + y, x + y, d)
  <1> PICK k \in Nat \ {0} : w = d * k
    OBVIOUS
  <1> DEFINE n == x \div w
             r == x % w
  <1>0. w \in Nat \ {0}
    OBVIOUS
  <1>1. n \in Nat /\ r \in Nat /\ x = w * n + r
    BY <1>0, SMT
  <1> HIDE DEF r, n
  <1> DEFINE m == (r + y) \div d
             s == (r + y) % d
  <1>2. m \in Nat /\ s \in 0 .. (d - 1) /\ r + y = d * m + s
    BY <1>1, SMT
  <1> HIDE DEF m, s
  <1>3. w * n = d * (k * n)
    BY <1>1
  <1>4. x + y = d * (k * n + m) + s
    <2>1. d * (k * n + m) = d * (k * n) + d * m
      BY <1>1, <1>2
    <2> QED BY <1>1, <1>2, <1>3, <2>1
  <1>5. k * n + m \in Nat
    BY <1>1, <1>2
  <1>6. (d * (k * n + m) + s) % d = s
    BY <1>5, <1>2, RemainderUnique
  <1>7. (x + y) % d = s
    BY <1>4, <1>6
  <1> QED BY <1>7 DEF s, r, Congruent

LEMMA RemainderTwice ==
  ASSUME NEW d \in Nat \ {0}, NEW x \in Nat, NEW y \in Nat
  PROVE  ((x % d) + y) % d = (x + y) % d
  <1>1. \E k \in Nat \ {0} : d = d * k
    <2>1. d = d * 1
      OBVIOUS
    <2> QED BY <2>1
  <1>2. Congruent((x % d) + y, x + y, d)
    BY <1>1, RemainderInside, Zenon
  <1> QED BY <1>2 DEF Congruent

(* Quotient and remainder exist. *)
LEMMA QuotientExists ==
  ASSUME NEW d \in Nat \ {0}, NEW x \in Nat
  PROVE  \E n \in Nat : \E r \in 0 .. (d - 1) : x = d * n + r /\ x % d = r
  <1>1. x \div d \in Nat /\ x % d \in 0 .. (d - 1) /\ x = d * (x \div d) + (x % d)
    BY SMT
  <1> QED BY <1>1

(* Numbers less than d apart have different remainders. *)
LEMMA RemaindersDiffer ==
  ASSUME NEW d \in Nat \ {0}, NEW x \in Nat, NEW c \in 1 .. (d - 1)
  PROVE  (x + c) % d # x % d
  <1>1. PICK n \in Nat, r \in 0 .. (d - 1) : x = d * n + r /\ x % d = r
    BY QuotientExists
  <1>2. CASE r + c < d
    <2>1. x + c = d * n + (r + c) /\ r + c \in 0 .. (d - 1)
      BY <1>1, <1>2
    <2>2. (d * n + (r + c)) % d = r + c
      BY <2>1, RemainderUnique
    <2> QED BY <1>1, <2>1, <2>2
  <1>3. CASE r + c >= d
    <2>1. r + c - d \in 0 .. (d - 1) /\ n + 1 \in Nat
      BY <1>3
    <2>2. d * (n + 1) = d * n + d
      OBVIOUS
    <2>3. x + c = d * (n + 1) + (r + c - d)
      BY <1>1, <2>2
    <2>4. (d * (n + 1) + (r + c - d)) % d = r + c - d
      BY <2>1, RemainderUnique
    <2> QED BY <1>1, <2>1, <2>3, <2>4
  <1> QED BY <1>2, <1>3

-----------------------------------------------------------------------------
(* A queue made for the request r, with its indices in step. *)
QueueOK(q, r) == q \in QueueFor(r) /\ q.head = (q.tail + q.count) % IndexWord

(* What a request is, and why its depth is no trouble when indices wrap. *)
LEMMA RequestType ==
  ASSUME NEW r \in Requests
  PROVE  /\ r.depth \in Nat \ {0} /\ r.size \in Nat \ {0}
         /\ Header \in Nat /\ Needed(r) \in Nat
         /\ IndexWord \in Nat \ {0, 1}
         /\ \E k \in Nat \ {0} : IndexWord = r.depth * k
  BY RequestAssumption, SizeAssumption DEF Needed, Header

(* The fields of a queue. *)
LEMMA QueueFields ==
  ASSUME NEW r \in Requests, NEW q \in QueueFor(r)
  PROVE  /\ q.base \in Nat /\ q.capacity = Needed(r) /\ q.msg_size = r.size
         /\ q.depth = r.depth /\ q.depth \in Nat \ {0}
         /\ q.head \in 0 .. (IndexWord - 1) /\ q.tail \in 0 .. (IndexWord - 1)
         /\ q.count \in 0 .. r.depth
         /\ q.buf \in [0 .. (r.depth - 1) -> Messages \cup {Blank}]
         /\ q \in Queue
  <1>1. /\ q.base \in Nat /\ q.capacity = Needed(r) /\ q.msg_size = r.size
        /\ q.depth = r.depth
        /\ q.head \in 0 .. (IndexWord - 1) /\ q.tail \in 0 .. (IndexWord - 1)
        /\ q.count \in 0 .. r.depth
        /\ q.buf \in [0 .. (r.depth - 1) -> Messages \cup {Blank}]
    BY DEF QueueFor
  <1>2. q \in Queue
    <2>1. q.buf \in UNION {[0 .. (s.depth - 1) -> Messages \cup {Blank}] : s \in Requests}
      BY <1>1
    <2>2. q = [base |-> q.base, capacity |-> q.capacity, msg_size |-> q.msg_size,
               depth |-> q.depth, head |-> q.head, tail |-> q.tail,
               count |-> q.count, buf |-> q.buf]
      BY DEF QueueFor
    <2>3. /\ q.capacity \in Nat /\ q.msg_size \in Nat /\ q.depth \in Nat
          /\ q.head \in Nat /\ q.tail \in Nat /\ q.count \in Nat
      BY <1>1, RequestType
    <2> QED BY <1>1, <2>1, <2>2, <2>3 DEF Queue
  <1> QED BY <1>1, <1>2, RequestType

(* The same for a queue that is in order, with the sizes of its request. *)
LEMMA QueueNumbers ==
  ASSUME NEW r \in Requests, NEW q, QueueOK(q, r)
  PROVE  /\ q.depth = r.depth /\ r.depth \in Nat \ {0}
         /\ q.head \in Nat /\ q.tail \in Nat /\ q.count \in Nat /\ q.count <= r.depth
         /\ q.buf \in [0 .. (r.depth - 1) -> Messages \cup {Blank}]
  <1>1. r.depth \in Nat \ {0} /\ IndexWord \in Nat
    BY RequestType
  <1>2. /\ q.depth = r.depth
        /\ q.head \in 0 .. (IndexWord - 1) /\ q.tail \in 0 .. (IndexWord - 1)
        /\ q.count \in 0 .. r.depth
        /\ q.buf \in [0 .. (r.depth - 1) -> Messages \cup {Blank}]
    BY QueueFields, Zenon DEF QueueOK
  <1> QED BY ONLY <1>1, <1>2

(* Filling the slot at head changes nothing else. *)
LEMMA StoredKeeps ==
  ASSUME NEW r \in Requests, NEW q, QueueOK(q, r), NEW m \in Messages
  PROVE  /\ QueueOK(Stored(q, m), r)
         /\ Stored(q, m).base = q.base /\ Stored(q, m).count = q.count
         /\ Stored(q, m).head = q.head /\ Stored(q, m).tail = q.tail
         /\ Stored(q, m).buf = [q.buf EXCEPT ![q.head % q.depth] = m]
         /\ q.head % q.depth \in 0 .. (q.depth - 1)
  <1>1. q.head % q.depth \in 0 .. (q.depth - 1)
    BY QueueFields, RequestType DEF QueueOK
  <1> QED BY <1>1, QueueFields DEF QueueOK, QueueFor, Stored

(* Advancing head and count together keeps the indices in step. *)
LEMMA PushedKeeps ==
  ASSUME NEW r \in Requests, NEW q, QueueOK(q, r), q.count < q.depth
  PROVE  /\ QueueOK(Pushed(q), r)
         /\ Pushed(q).base = q.base /\ Pushed(q).count = q.count + 1
         /\ Pushed(q).tail = q.tail /\ Pushed(q).buf = q.buf
  <1>1. /\ q.head \in Nat /\ q.tail \in Nat /\ q.count \in Nat
        /\ IndexWord \in Nat \ {0}
        /\ q.head = (q.tail + q.count) % IndexWord
    BY QueueFields, RequestType DEF QueueOK
  <1>2. (q.head + 1) % IndexWord = (q.tail + (q.count + 1)) % IndexWord
    <2>1. q.tail + q.count \in Nat /\ q.tail + q.count + 1 = q.tail + (q.count + 1)
      BY <1>1
    <2>2. (((q.tail + q.count) % IndexWord) + 1) % IndexWord
            = (q.tail + q.count + 1) % IndexWord
      BY <1>1, <2>1, RemainderTwice, 1 \in Nat, Zenon
    <2> QED BY <1>1, <2>1, <2>2, Zenon
  <1>3. (q.head + 1) % IndexWord \in 0 .. (IndexWord - 1)
    BY <1>1
  <1>4. q.count + 1 \in 0 .. r.depth
    <2>1. q.depth = r.depth /\ r.depth \in Nat /\ q.count \in Nat
      BY QueueNumbers, Zenon
    <2> QED BY ONLY <2>1, q.count < q.depth
  <1> QED BY <1>2, <1>3, <1>4 DEF QueueOK, QueueFor, Pushed

(* So does advancing tail and taking one from count. *)
LEMMA PoppedKeeps ==
  ASSUME NEW r \in Requests, NEW q, QueueOK(q, r), q.count # 0
  PROVE  /\ QueueOK(Popped(q), r)
         /\ Popped(q).base = q.base /\ Popped(q).count = q.count - 1
         /\ Popped(q).tail = (q.tail + 1) % IndexWord /\ Popped(q).buf = q.buf
  <1>1. /\ q.head \in Nat /\ q.tail \in Nat /\ q.count \in Nat \ {0}
        /\ IndexWord \in Nat \ {0}
        /\ q.head = (q.tail + q.count) % IndexWord
    BY QueueFields, RequestType DEF QueueOK
  <1>2. q.head = (((q.tail + 1) % IndexWord) + (q.count - 1)) % IndexWord
    <2>1. /\ q.tail + 1 \in Nat /\ q.count - 1 \in Nat
          /\ (q.tail + 1) + (q.count - 1) = q.tail + q.count
      BY <1>1
    <2>2. (((q.tail + 1) % IndexWord) + (q.count - 1)) % IndexWord
            = ((q.tail + 1) + (q.count - 1)) % IndexWord
      BY <1>1, <2>1, RemainderTwice, Zenon
    <2> QED BY <1>1, <2>1, <2>2, Zenon
  <1>3. (q.tail + 1) % IndexWord \in 0 .. (IndexWord - 1)
    BY <1>1
  <1>4. q.count - 1 \in 0 .. r.depth
    <2>1. r.depth \in Nat /\ q.count \in Nat /\ q.count <= r.depth
      BY QueueNumbers, Zenon
    <2> QED BY ONLY <1>1, <2>1
  <1> QED BY <1>2, <1>3, <1>4 DEF QueueOK, QueueFor, Popped
-----------------------------------------------------------------------------
(* The part of the invariant that is about the queues. *)
QueueInv == QueuesTypeOK /\ IndexInv /\ PoolInv /\ FirstQueueStaysEmpty

LEMMA QueueTaken ==
  ASSUME QueueInv, NEW i \in Handles
  PROVE  /\ \E r \in Requests : QueueOK(s_queues[i], r)
         /\ s_queues \in Seq(Queue) /\ i \in Nat \ {0}
         /\ s_queues[i] \in Queue
  BY DEF QueueInv, QueuesTypeOK, IndexInv, QueueOK, Handles

(* A queue other than the first may be exchanged for one with the same     *)
(* region and with its indices in step.                                    *)
LEMMA QueueChanged ==
  ASSUME QueueInv, NEW i \in UsableQueue, NEW r \in Requests, NEW q,
         QueueOK(s_queues[i], r), QueueOK(q, r), q.base = s_queues[i].base,
         s_queues' = [s_queues EXCEPT ![i] = q], s_pool_offset' = s_pool_offset
  PROVE  /\ QueueInv'
         /\ Len(s_queues') = Len(s_queues) /\ s_queues'[i] = q
         /\ \A j \in Handles : j # i => s_queues'[j] = s_queues[j]
  <1>1. /\ s_queues \in Seq(Queue) /\ i \in 1 .. Len(s_queues) /\ i # 1
        /\ q \in Queue
    BY QueueFields DEF QueueInv, QueuesTypeOK, UsableQueue, Handles, QueueOK
  <1>2. /\ s_queues' \in Seq(Queue) /\ Len(s_queues') = Len(s_queues)
        /\ s_queues'[i] = q
        /\ \A j \in Handles : j # i => s_queues'[j] = s_queues[j]
    BY <1>1 DEF Handles
  <1>3. Handles' = Handles
    BY <1>2 DEF Handles
  <1>4. QueuesTypeOK'
    <2>1. \A j \in Handles : \E s \in Requests : s_queues'[j] \in QueueFor(s)
      BY <1>2 DEF QueueInv, QueuesTypeOK, QueueOK
    <2> QED BY <1>2, <1>3, <2>1 DEF QueueInv, QueuesTypeOK
  <1>5. IndexInv'
    BY <1>2, <1>3 DEF QueueInv, IndexInv, QueueOK
  <1>6. PoolInv'
    <2>1. q.capacity = s_queues[i].capacity
      BY QueueFields DEF QueueOK
    <2>2. \A j \in Handles : /\ s_queues'[j].base = s_queues[j].base
                             /\ s_queues'[j].capacity = s_queues[j].capacity
      BY <1>2, <2>1
    <2> QED BY <1>3, <2>2 DEF QueueInv, PoolInv
  <1>7. FirstQueueStaysEmpty'
    <2>1. Len(s_queues) # 0 /\ 1 \in Handles
      BY <1>1 DEF Handles
    <2>2. s_queues'[1] = s_queues[1] /\ s_queues # <<>>
      BY <1>1, <1>2, <2>1
    <2> QED BY <2>2 DEF QueueInv, FirstQueueStaysEmpty
  <1> QED BY <1>2, <1>4, <1>5, <1>6, <1>7 DEF QueueInv

(* A new queue gets the bytes behind those given away already. *)
LEMMA QueueCreated ==
  ASSUME QueueInv, NEW r \in Requests, Create(r)
  PROVE  QueueInv'
  <1> DEFINE fits == Len(s_queues) < MaxQueues /\ s_pool_offset + Needed(r) <= PoolBytes
             q == [base |-> s_pool_offset, capacity |-> Needed(r), msg_size |-> r.size,
                   depth |-> r.depth, head |-> 0, tail |-> 0, count |-> 0,
                   buf |-> [k \in 0 .. (r.depth - 1) |-> Blank]]
  <1>1. CASE ~ fits
    BY <1>1 DEF Create, QueueInv, QueuesTypeOK, IndexInv, PoolInv, FirstQueueStaysEmpty,
                Handles
  <1>2. CASE fits
    <2>1. /\ s_queues' = Append(s_queues, q) /\ s_pool_offset' = s_pool_offset + Needed(r)
          /\ s_queues \in Seq(Queue) /\ Len(s_queues) \in Nat
          /\ s_pool_offset \in Nat /\ Needed(r) \in Nat
          /\ MaxQueues \in Nat /\ PoolBytes \in Nat
      <3>1. s_queues' = Append(s_queues, q) /\ s_pool_offset' = s_pool_offset + Needed(r)
        BY <1>2 DEF Create
      <3>2. s_queues \in Seq(Queue) /\ s_pool_offset \in 0 .. PoolBytes
        BY DEF QueueInv, QueuesTypeOK
      <3>3. Needed(r) \in Nat /\ MaxQueues \in Nat /\ PoolBytes \in Nat
        BY RequestType, SizeAssumption
      <3> HIDE DEF q
      <3> QED BY <3>1, <3>2, <3>3
    <2>2. QueueOK(q, r) /\ q \in Queue
      <3>1. q \in QueueFor(r)
        <4>1. /\ r.depth \in Nat \ {0} /\ IndexWord \in Nat \ {0}
              /\ s_pool_offset \in Nat
          BY <2>1, RequestType
        <4>2. 0 \in 0 .. (IndexWord - 1) /\ 0 \in 0 .. r.depth
          BY <4>1
        <4>3. [k \in 0 .. (r.depth - 1) |-> Blank]
                \in [0 .. (r.depth - 1) -> Messages \cup {Blank}]
          OBVIOUS
        <4> QED BY ONLY <4>1, <4>2, <4>3 DEF q, QueueFor
      <3>2. 0 = (0 + 0) % IndexWord
        BY RequestType
      <3> QED BY <3>1, <3>2, QueueFields DEF QueueOK
    <2>3. q.base = s_pool_offset /\ q.capacity = Needed(r) /\ q.count = 0
      OBVIOUS
    <2> HIDE DEF q
    <2> DEFINE n == Len(s_queues) + 1
    <2>4. /\ s_queues' \in Seq(Queue) /\ Len(s_queues') = n /\ s_queues'[n] = q
          /\ Handles' = Handles \cup {n} /\ n \notin Handles
          /\ \A j \in Handles : s_queues'[j] = s_queues[j] /\ j < n
      BY <2>1, <2>2 DEF Handles
    <2>5. QueuesTypeOK'
      <3>1. \A j \in Handles' : \E s \in Requests : s_queues'[j] \in QueueFor(s)
        BY <2>2, <2>4 DEF QueueInv, QueuesTypeOK, QueueOK
      <3>2. s_pool_offset' \in 0 .. PoolBytes /\ Len(s_queues') <= MaxQueues
        BY <1>2, <2>1, <2>4
      <3> QED BY <2>4, <3>1, <3>2 DEF QueuesTypeOK
    <2>6. IndexInv'
      BY <2>2, <2>4 DEF QueueInv, IndexInv, QueueOK
    <2>7. PoolInv'
      <3>1. \A j \in Handles : s_queues[j].base + s_queues[j].capacity <= s_pool_offset
        BY DEF QueueInv, PoolInv
      <3>2. \A j \in Handles : /\ s_queues[j].base \in Nat
                               /\ s_queues[j].capacity \in Nat
        BY QueueTaken DEF Queue
      <3>3. \A j \in Handles' : s_queues'[j].base + s_queues'[j].capacity <= s_pool_offset'
        <4>1. s_pool_offset <= s_pool_offset'
          BY <2>1
        <4>2. \A j \in Handles : s_queues[j].base + s_queues[j].capacity <= s_pool_offset'
          BY <2>1, <3>1, <3>2, <4>1
        <4>3. q.base + q.capacity <= s_pool_offset'
          BY <2>1, <2>3
        <4> QED BY <2>4, <4>2, <4>3
      <3>4. ASSUME NEW j \in Handles', NEW l \in Handles', j < l
            PROVE  s_queues'[j].base + s_queues'[j].capacity <= s_queues'[l].base
        <4>1. j \in Handles
          BY <2>4, <3>4 DEF Handles
        <4>2. CASE l \in Handles
          BY <2>4, <3>4, <4>1, <4>2 DEF QueueInv, PoolInv
        <4>3. CASE l = n
          BY <2>3, <2>4, <3>1, <4>1, <4>3
        <4> QED BY <2>4, <4>2, <4>3
      <3> QED BY <3>3, <3>4 DEF PoolInv
    <2>8. FirstQueueStaysEmpty'
      <3>1. CASE s_queues = <<>>
        <4>1. n = 1
          BY <3>1
        <4> QED BY <2>3, <2>4, <4>1 DEF FirstQueueStaysEmpty
      <3>2. CASE s_queues # <<>>
        <4>1. 1 \in Handles
          BY <2>1, <3>2 DEF Handles
        <4> QED BY <2>4, <3>2, <4>1 DEF QueueInv, FirstQueueStaysEmpty
      <3> QED BY <3>1, <3>2
    <2> QED BY <2>5, <2>6, <2>7, <2>8 DEF QueueInv
  <1> QED BY <1>1, <1>2

(* Steps that leave the queues and the pool alone. *)
LEMMA QueuesKept ==
  ASSUME QueueInv, UNCHANGED queueVars
  PROVE  QueueInv'
  BY DEF QueueInv, QueuesTypeOK, IndexInv, PoolInv, FirstQueueStaysEmpty, Handles, queueVars
-----------------------------------------------------------------------------
(* The part of the invariant that is about the masks. *)
ThreadInv == ThreadTypeOK /\ MaskInv

LEMMA CallsKept ==
  ASSUME Len(s_queues') = Len(s_queues)
  PROVE  Calls' = Calls
  BY DEF Calls, UsableQueue, Handles

LEMMA LockDepthType == MaxLockDepth \in Nat \ {0}
  BY SizeAssumption

(* Where the thread may be when a handler runs. *)
LEMMA HandlerFinds ==
  ASSUME ThreadInv, primask = 0
  PROVE  pc \in {"idle", "mask", "lock"} /\ s_lock_depth = 0
  BY LockDepthType DEF ThreadInv, ThreadTypeOK, MaskInv, Nested

(* What a handler does to the queues and the cell is no concern of a call  *)
(* that has not masked the interrupts yet.                                 *)
LEMMA HandlerKeepsCall ==
  ASSUME ThreadInv, CallInv, HandlerRuns, Len(s_queues') = Len(s_queues),
         UNCHANGED threadVars
  PROVE  CallInv'
  <1>1. pc' \in {"idle", "mask", "lock"} /\ Calls' = Calls
    BY HandlerFinds, CallsKept DEF HandlerRuns, threadVars
  <1> QED BY <1>1 DEF CallInv, threadVars

(* The parts of a call, by its kind. *)
LEMMA CallFields ==
  ASSUME CallInv, pc \in {"mask", "load", "commit", "restore"}
  PROVE  /\ call.op = "send" => call.queue \in UsableQueue /\ call.msg \in Messages
         /\ call.op = "receive" => call.queue \in UsableQueue /\ call.room \in Rooms
         /\ call.op \in AtomicOps => /\ call.op # "send" /\ call.op # "receive"
                                   /\ call.x \in Operands(call.op)
         /\ call \in Calls
  BY DEF CallInv, Calls, AtomicOps

LEMMA InitialState == ASSUME Init PROVE IInv
  <1>1. ThreadTypeOK /\ MaskInv
    BY SizeAssumption DEF Init, ThreadTypeOK, MaskInv, Nested
  <1>2. QueuesTypeOK
    BY SizeAssumption DEF Init, QueuesTypeOK, Handles
  <1>3. IndexInv /\ PoolInv /\ FirstQueueStaysEmpty /\ CallInv
    BY DEF Init, IndexInv, PoolInv, FirstQueueStaysEmpty, Handles, CallInv
  <1> QED BY <1>1, <1>2, <1>3 DEF IInv

(* Steps of the thread that touch neither queues nor calls. *)
LEMMA ThreadStep ==
  ASSUME ThreadInv, CallInv,
         \/ \E c : Begin(c)
         \/ Mask \/ AtomicLoad \/ AtomicCommit \/ Restore
         \/ LockBegin \/ LockMask \/ LockNested \/ UnLock
         \/ SendCommit \/ ReceiveCommit \/ SendStore \/ ReceiveLoad
  PROVE  ThreadInv'
  <1> USE LockDepthType DEF ThreadInv, ThreadTypeOK, MaskInv, Nested, lockVars
  <1>1. CASE \E c : Begin(c)
    BY <1>1 DEF Begin
  <1>2. CASE Mask
    BY <1>2 DEF Mask
  <1>3. CASE AtomicLoad \/ AtomicCommit
    BY <1>3 DEF AtomicLoad, AtomicCommit
  <1>4. CASE Restore
    BY <1>4 DEF Restore
  <1>5. CASE LockBegin
    BY <1>5 DEF LockBegin
  <1>6. CASE LockMask
    <2>1. /\ s_lock_depth' = 1 /\ primask' = 1 /\ s_saved_irq' = 0
          /\ pc' = "idle" /\ saved' = 0
          /\ halted' \in {"no", "lock_depth"} /\ (halted' = "no" => 1 < MaxLockDepth)
      BY <1>6 DEF LockMask
    <2> QED BY <2>1
  <1>7. CASE LockNested
    <2>1. /\ s_lock_depth' = s_lock_depth + 1 /\ s_lock_depth' \in 1 .. MaxLockDepth
          /\ UNCHANGED <<primask, s_saved_irq, pc, saved>>
          /\ halted' \in {"no", "lock_depth"}
          /\ (halted' = "no" => s_lock_depth' < MaxLockDepth)
      BY <1>7 DEF LockNested, threadVars
    <2> QED BY <1>7, <2>1 DEF LockNested
  <1>8. CASE UnLock
    BY <1>8 DEF UnLock, threadVars
  <1>9. CASE SendStore \/ SendCommit \/ ReceiveLoad \/ ReceiveCommit
    BY <1>9 DEF SendStore, SendCommit, ReceiveLoad, ReceiveCommit
  <1> QED BY <1>1, <1>2, <1>3, <1>4, <1>5, <1>6, <1>7, <1>8, <1>9
-----------------------------------------------------------------------------
(* The steps of the thread that work on a queue. *)

(* send finds room, or leaves the queue alone. *)
LEMMA SendStoreStep ==
  ASSUME IInv, SendStore
  PROVE  QueueInv' /\ CallInv'
  <1> DEFINE i == call.queue
             q == s_queues[i]
  <1>0. QueueInv /\ CallInv /\ i \in UsableQueue /\ i \in Handles /\ call.msg \in Messages
    BY CallFields DEF IInv, QueueInv, SendStore, UsableQueue
  <1>1. PICK r \in Requests : QueueOK(q, r)
    BY <1>0, QueueTaken
  <1>2. CASE SendStatus(q, call.msg) = "OK"
    <2>1. /\ s_queues' = [s_queues EXCEPT ![i] = Stored(q, call.msg)]
          /\ s_pool_offset' = s_pool_offset
          /\ pc' = "commit" /\ call' = call /\ call.op = "send"
      BY <1>2 DEF SendStore
    <2>2. /\ QueueOK(Stored(q, call.msg), r) /\ Stored(q, call.msg).base = q.base
          /\ Stored(q, call.msg).head = q.head /\ Stored(q, call.msg).count = q.count
          /\ Stored(q, call.msg).buf = [q.buf EXCEPT ![q.head % q.depth] = call.msg]
          /\ q.head % q.depth \in 0 .. (q.depth - 1)
      BY <1>0, <1>1, StoredKeeps
    <2>3. /\ QueueInv' /\ Len(s_queues') = Len(s_queues)
          /\ s_queues'[i] = Stored(q, call.msg)
      <3> HIDE DEF q, i
      <3> QED BY <1>0, <1>1, <2>1, <2>2, QueueChanged, Zenon DEF q
    <2>4. /\ Stored(q, call.msg).depth = q.depth
          /\ Stored(q, call.msg).msg_size = q.msg_size
          /\ q.buf \in [0 .. (q.depth - 1) -> Messages \cup {Blank}]
      <3>1. q \in QueueFor(r) /\ Stored(q, call.msg) \in QueueFor(r)
        BY <1>1, <2>2 DEF QueueOK
      <3>2. q.depth = r.depth /\ q.msg_size = r.size
            /\ q.buf \in [0 .. (r.depth - 1) -> Messages \cup {Blank}]
        BY <3>1, QueueFields
      <3>3. /\ Stored(q, call.msg).depth = r.depth
            /\ Stored(q, call.msg).msg_size = r.size
        BY <3>1, QueueFields
      <3> QED BY <3>2, <3>3
    <2>5. SendStatus(s_queues'[i], call.msg) = "OK"
      BY <1>2, <2>2, <2>3, <2>4 DEF SendStatus
    <2>6. s_queues'[i].buf[s_queues'[i].head % s_queues'[i].depth] = call.msg
      <3> DEFINE p == Stored(q, call.msg)
      <3>1. p.buf[p.head % p.depth] = call.msg
        <4>1. p.head = q.head /\ p.depth = q.depth
          BY <2>2, <2>4
        <4>2. p.buf[q.head % q.depth] = call.msg
          <5> HIDE DEF p, q
          <5> QED BY <2>2, <2>4 DEF p
        <4> QED BY ONLY <4>1, <4>2
      <3> QED BY <2>3, <3>1, Zenon
    <2>7. call' \in Calls'
      BY <1>0, <2>1, <2>3, CallsKept, CallFields DEF SendStore
    <2> QED BY <2>1, <2>3, <2>5, <2>6, <2>7 DEF CallInv
  <1>3. CASE SendStatus(q, call.msg) # "OK"
    <2>1. UNCHANGED <<queueVars, call>> /\ pc' = "restore"
      BY <1>3 DEF SendStore, queueVars
    <2>2. call' \in Calls'
      BY <1>0, <2>1, CallsKept, CallFields DEF SendStore, queueVars
    <2> QED BY <1>0, <2>1, <2>2, QueuesKept DEF CallInv
  <1> QED BY <1>2, <1>3

LEMMA SendCommitStep ==
  ASSUME IInv, SendCommit
  PROVE  QueueInv' /\ CallInv'
  <1> DEFINE i == call.queue
             q == s_queues[i]
  <1>0. QueueInv /\ CallInv /\ i \in UsableQueue /\ i \in Handles
    BY CallFields DEF IInv, QueueInv, SendCommit, UsableQueue
  <1>1. PICK r \in Requests : QueueOK(q, r)
    BY <1>0, QueueTaken
  <1>2. q.count < q.depth
    <2>1. SendStatus(q, call.msg) = "OK"
      BY <1>0 DEF SendCommit, CallInv
    <2> QED BY <1>1, <2>1, QueueFields, RequestType DEF SendStatus, QueueOK
  <1>3. /\ QueueInv' /\ Len(s_queues') = Len(s_queues)
    <2>1. s_queues' = [s_queues EXCEPT ![i] = Pushed(q)] /\ s_pool_offset' = s_pool_offset
      BY DEF SendCommit
    <2>2. QueueOK(Pushed(q), r) /\ Pushed(q).base = q.base
      BY <1>1, <1>2, PushedKeeps
    <2> QED BY <1>0, <1>1, <2>1, <2>2, QueueChanged
  <1>4. pc' = "restore" /\ call' \in Calls'
    BY <1>0, <1>3, CallsKept, CallFields DEF SendCommit
  <1> QED BY <1>3, <1>4 DEF CallInv

LEMMA ReceiveLoadStep ==
  ASSUME IInv, ReceiveLoad
  PROVE  QueueInv' /\ CallInv'
  <1>0. QueueInv /\ CallInv /\ UNCHANGED <<queueVars, call>> /\ call.op = "receive"
    BY DEF IInv, QueueInv, ReceiveLoad
  <1>1. call' \in Calls'
    BY <1>0, CallsKept, CallFields DEF ReceiveLoad, queueVars
  <1>2. CASE s_queues[call.queue].count # 0
    <2>1. /\ pc' = "commit" /\ s_queues' = s_queues
          /\ seen' = Received(Oldest(s_queues[call.queue]), call.room)
      BY <1>0, <1>2 DEF ReceiveLoad, queueVars
    <2> QED BY <1>0, <1>1, <1>2, <2>1, QueuesKept DEF CallInv
  <1>3. CASE s_queues[call.queue].count = 0
    <2>1. pc' = "restore"
      BY <1>3 DEF ReceiveLoad
    <2> QED BY <1>0, <1>1, <2>1, QueuesKept DEF CallInv
  <1> QED BY <1>2, <1>3

LEMMA ReceiveCommitStep ==
  ASSUME IInv, ReceiveCommit
  PROVE  QueueInv' /\ CallInv'
  <1> DEFINE i == call.queue
             q == s_queues[i]
  <1>0. QueueInv /\ CallInv /\ i \in UsableQueue /\ i \in Handles
    BY CallFields DEF IInv, QueueInv, ReceiveCommit, UsableQueue
  <1>1. PICK r \in Requests : QueueOK(q, r)
    BY <1>0, QueueTaken
  <1>2. q.count # 0
    BY <1>0 DEF ReceiveCommit, CallInv
  <1>3. /\ QueueInv' /\ Len(s_queues') = Len(s_queues)
    <2>1. s_queues' = [s_queues EXCEPT ![i] = Popped(q)] /\ s_pool_offset' = s_pool_offset
      BY DEF ReceiveCommit
    <2>2. QueueOK(Popped(q), r) /\ Popped(q).base = q.base
      BY <1>1, <1>2, PoppedKeeps
    <2> QED BY <1>0, <1>1, <2>1, <2>2, QueueChanged
  <1>4. pc' = "restore" /\ call' \in Calls'
    BY <1>0, <1>3, CallsKept, CallFields DEF ReceiveCommit
  <1> QED BY <1>3, <1>4 DEF CallInv

(* The handlers' calls keep the queues in order. *)
LEMMA HandlerStep ==
  ASSUME IInv, Handler
  PROVE  QueueInv' /\ Len(s_queues') = Len(s_queues)
  <1>0. QueueInv
    BY DEF IInv, QueueInv
  <1>1. ASSUME NEW i \in Handles, NEW m \in Messages, HandlerSend(i, m)
        PROVE  QueueInv' /\ Len(s_queues') = Len(s_queues)
    <2>1. PICK r \in Requests : QueueOK(s_queues[i], r)
      BY <1>0, QueueTaken
    <2>2. i \in UsableQueue /\ s_pool_offset' = s_pool_offset
      BY <1>1 DEF HandlerSend, NullHandle, UsableQueue
    <2>3. CASE SendStatus(s_queues[i], m) = "OK"
      <3>1. /\ QueueOK(Stored(s_queues[i], m), r)
            /\ Stored(s_queues[i], m).base = s_queues[i].base
            /\ Stored(s_queues[i], m).count = s_queues[i].count
        <4> DEFINE q == s_queues[i]
        <4> HIDE DEF q
        <4>1. QueueOK(q, r)
          BY <2>1 DEF q
        <4>2. QueueOK(Stored(q, m), r)
          BY <4>1, StoredKeeps, Zenon
        <4>3. Stored(q, m).base = q.base /\ Stored(q, m).count = q.count
          BY ONLY <4>1 DEF QueueOK, QueueFor, Stored
        <4> QED BY <4>2, <4>3 DEF q
      <3>2. Stored(s_queues[i], m).count < Stored(s_queues[i], m).depth
        BY <2>1, <2>3, <3>1, QueueFields, RequestType DEF SendStatus, QueueOK
      <3>3. /\ QueueOK(Pushed(Stored(s_queues[i], m)), r)
            /\ Pushed(Stored(s_queues[i], m)).base = s_queues[i].base
        BY <3>1, <3>2, PushedKeeps
      <3>4. s_queues' = [s_queues EXCEPT ![i] = Pushed(Stored(s_queues[i], m))]
        BY <1>1, <2>3 DEF HandlerSend
      <3> QED BY <1>0, <2>1, <2>2, <3>3, <3>4, QueueChanged
    <2>4. CASE SendStatus(s_queues[i], m) # "OK"
      BY <1>0, <1>1, <2>2, <2>4, QueuesKept DEF HandlerSend, queueVars
    <2> QED BY <2>3, <2>4
  <1>2. ASSUME NEW i \in Handles, NEW room \in Rooms, HandlerReceive(i, room)
        PROVE  QueueInv' /\ Len(s_queues') = Len(s_queues)
    <2>1. PICK r \in Requests : QueueOK(s_queues[i], r)
      BY <1>0, QueueTaken
    <2>2. i \in UsableQueue /\ s_pool_offset' = s_pool_offset
      BY <1>2 DEF HandlerReceive, NullHandle, UsableQueue
    <2>3. CASE s_queues[i].count # 0
      <3>1. QueueOK(Popped(s_queues[i]), r) /\ Popped(s_queues[i]).base = s_queues[i].base
        BY <2>1, <2>3, PoppedKeeps
      <3>2. s_queues' = [s_queues EXCEPT ![i] = Popped(s_queues[i])]
        BY <1>2, <2>3 DEF HandlerReceive
      <3> QED BY <1>0, <2>1, <2>2, <3>1, <3>2, QueueChanged
    <2>4. CASE s_queues[i].count = 0
      BY <1>0, <1>2, <2>2, <2>4, QueuesKept DEF HandlerReceive, queueVars
    <2> QED BY <2>3, <2>4
  <1>3. ASSUME \/ \E op \in AtomicOps : \E x \in Operands(op) : HandlerUpdate(op, x)
               \/ HandlerLocks
        PROVE  QueueInv' /\ Len(s_queues') = Len(s_queues)
    <2>1. UNCHANGED queueVars
      BY <1>3 DEF HandlerUpdate, HandlerLocks
    <2> QED BY <1>0, <2>1, QueuesKept DEF queueVars
  <1> QED BY <1>1, <1>2, <1>3 DEF Handler
-----------------------------------------------------------------------------
(* Steps of the thread that leave the queues alone. *)
LEMMA QuietStep ==
  ASSUME IInv,
         \/ \E i \in Handles : \/ \E m \in Messages : BeginSend(i, m)
                               \/ \E room \in Rooms : BeginReceive(i, room)
         \/ \E op \in AtomicOps : \E x \in Operands(op) : BeginUpdate(op, x)
         \/ Mask \/ AtomicLoad \/ AtomicCommit \/ Restore
         \/ LockBegin \/ LockMask \/ LockNested \/ UnLock
  PROVE  QueueInv' /\ ThreadInv' /\ CallInv'
  <1>0. QueueInv /\ ThreadInv /\ CallInv
    BY DEF IInv, QueueInv, ThreadInv
  <1>1. CASE \/ \E i \in Handles : \/ \E m \in Messages : BeginSend(i, m)
                                   \/ \E room \in Rooms : BeginReceive(i, room)
             \/ \E op \in AtomicOps : \E x \in Operands(op) : BeginUpdate(op, x)
    <2>1. PICK c \in Calls : Begin(c)
      <3>1. ASSUME NEW i \in Handles, NEW m \in Messages, BeginSend(i, m)
            PROVE  \E c \in Calls : Begin(c)
        <4>1. [op |-> "send", queue |-> i, msg |-> m] \in Calls
          BY <3>1 DEF BeginSend, NullHandle, Calls, UsableQueue
        <4> QED BY <3>1, <4>1 DEF BeginSend
      <3>2. ASSUME NEW i \in Handles, NEW room \in Rooms, BeginReceive(i, room)
            PROVE  \E c \in Calls : Begin(c)
        <4>1. [op |-> "receive", queue |-> i, room |-> room] \in Calls
          BY <3>2 DEF BeginReceive, NullHandle, Calls, UsableQueue
        <4> QED BY <3>2, <4>1 DEF BeginReceive
      <3>3. ASSUME NEW op \in AtomicOps, NEW x \in Operands(op), BeginUpdate(op, x)
            PROVE  \E c \in Calls : Begin(c)
        <4>1. [op |-> op, x |-> x] \in [op : {op}, x : Operands(op)]
          OBVIOUS
        <4>2. [op |-> op, x |-> x] \in Calls
          BY <4>1 DEF Calls
        <4> QED BY <3>3, <4>2 DEF BeginUpdate
      <3> QED BY <1>1, <3>1, <3>2, <3>3
    <2>2. ThreadInv'
      BY <1>0, <2>1, ThreadStep
    <2>3. UNCHANGED queueVars /\ pc' = "mask" /\ call' = c
      BY <2>1 DEF Begin
    <2>4. QueueInv' /\ CallInv'
      BY <1>0, <2>3, QueuesKept, CallsKept DEF CallInv, queueVars
    <2> QED BY <2>2, <2>4
  <1>2. CASE Mask \/ AtomicLoad \/ AtomicCommit \/ Restore
             \/ LockBegin \/ LockMask \/ LockNested \/ UnLock
    <2>1. UNCHANGED queueVars
      BY <1>2 DEF Mask, AtomicLoad, AtomicCommit, Restore, LockBegin, LockMask,
                  LockNested, UnLock
    <2>2. QueueInv' /\ ThreadInv' /\ Calls' = Calls
      BY <1>0, <1>2, <2>1, QueuesKept, ThreadStep, CallsKept DEF queueVars
    <2>3. CASE Mask \/ AtomicCommit
      BY <1>0, <2>2, <2>3, CallFields DEF Mask, AtomicCommit, CallInv
    <2>4. CASE AtomicLoad
      <3>1. /\ pc' = "commit" /\ call' = call /\ seen' = cell'
            /\ call.op # "send" /\ call.op # "receive" /\ call \in Calls
        BY <1>0, <2>4, CallFields DEF AtomicLoad
      <3> QED BY <2>2, <3>1 DEF CallInv
    <2>5. CASE Restore \/ LockBegin \/ LockMask
      BY <2>2, <2>5 DEF Restore, LockBegin, LockMask, CallInv
    <2>6. CASE LockNested \/ UnLock
      BY <2>2, <2>6 DEF LockNested, UnLock, threadVars, CallInv
    <2> QED BY <1>2, <2>2, <2>3, <2>4, <2>5, <2>6
  <1> QED BY <1>1, <1>2

LEMMA NextKeeps == ASSUME IInv, [Next]_vars PROVE IInv'
  <1>0. QueueInv /\ ThreadInv /\ CallInv
    BY DEF IInv, QueueInv, ThreadInv
  <1> SUFFICES QueueInv' /\ ThreadInv' /\ CallInv'
    BY DEF IInv, QueueInv, ThreadInv
  <1>1. ASSUME NEW r \in Requests, Create(r) PROVE QueueInv' /\ ThreadInv' /\ CallInv'
    <2>1. pc' = "idle" /\ UNCHANGED <<lockVars, primask, saved, halted>> /\ pc = "idle"
      BY <1>1 DEF Create, threadVars
    <2>2. ThreadInv' /\ CallInv'
      BY <1>0, <2>1 DEF ThreadInv, ThreadTypeOK, MaskInv, Nested, lockVars, CallInv
    <2> QED BY <1>0, <1>1, <2>2, QueueCreated
  <1>2. CASE \/ \E i \in Handles : \/ \E m \in Messages : BeginSend(i, m)
                                   \/ \E room \in Rooms : BeginReceive(i, room)
             \/ \E op \in AtomicOps : \E x \in Operands(op) : BeginUpdate(op, x)
             \/ Mask \/ AtomicLoad \/ AtomicCommit \/ Restore
             \/ LockBegin \/ LockMask \/ LockNested \/ UnLock
    BY <1>2, QuietStep
  <1>3. CASE SendStore \/ SendCommit \/ ReceiveLoad \/ ReceiveCommit
    <2>1. ThreadInv'
      BY <1>0, <1>3, ThreadStep
    <2> QED BY <1>3, <2>1, SendStoreStep, SendCommitStep, ReceiveLoadStep, ReceiveCommitStep
  <1>4. CASE Handler
    <2>1. HandlerRuns /\ UNCHANGED <<threadVars, primask, s_lock_depth, halted>>
      BY <1>4 DEF Handler, HandlerSend, HandlerReceive, HandlerUpdate, HandlerLocks, lockVars
    <2>2. s_saved_irq' \in {s_saved_irq, 0}
      BY <1>4 DEF Handler, HandlerSend, HandlerReceive, HandlerUpdate, HandlerLocks,
                  lockVars, HandlerRuns
    <2>3. ThreadInv'
      BY <1>0, <2>1, <2>2, HandlerFinds DEF ThreadInv, ThreadTypeOK, MaskInv, Nested,
                                            threadVars, HandlerRuns
    <2>4. QueueInv' /\ Len(s_queues') = Len(s_queues)
      BY <1>4, HandlerStep
    <2> QED BY <1>0, <2>1, <2>3, <2>4, HandlerKeepsCall
  <1>5. ASSUME NEW i \in Handles, AssertHandle(i)
        PROVE  QueueInv' /\ ThreadInv' /\ CallInv'
    <2>1. /\ UNCHANGED <<queueVars, lockVars, cell, primask, threadVars>>
          /\ halted' = "null_handle"
      BY <1>5 DEF AssertHandle
    <2>2. ThreadInv'
      BY <1>0, <2>1 DEF ThreadInv, ThreadTypeOK, MaskInv, Nested, lockVars, threadVars
    <2>3. QueueInv' /\ Calls' = Calls
      BY <1>0, <2>1, QueuesKept, CallsKept DEF queueVars
    <2> QED BY <1>0, <2>1, <2>2, <2>3 DEF CallInv, threadVars, queueVars
  <1>6. CASE UNCHANGED vars
    <2>1. UNCHANGED <<queueVars, lockVars, cell, primask, threadVars, halted>>
      BY <1>6 DEF vars
    <2>2. ThreadInv'
      BY <1>0, <2>1 DEF ThreadInv, ThreadTypeOK, MaskInv, Nested, lockVars, threadVars
    <2>3. QueueInv' /\ Calls' = Calls
      BY <1>0, <2>1, QueuesKept, CallsKept DEF queueVars
    <2> QED BY <1>0, <2>1, <2>2, <2>3 DEF CallInv, threadVars, queueVars
  <1> QED BY <1>1, <1>2, <1>3, <1>4, <1>5, <1>6 DEF Next, Thread

(* The inductive invariant holds. *)
THEOREM OsInvariant == Spec => []IInv
  <1>1. Init => IInv
    BY InitialState
  <1>2. IInv /\ [Next]_vars => IInv'
    BY NextKeeps
  <1> QED BY <1>1, <1>2, PTL DEF Spec

(* Handlers are kept out only while a call runs or a mutex is held. *)
THEOREM MasksNest == Spec => []HandlersLetInAgain
  <1>1. IInv => HandlersLetInAgain
    BY DEF IInv, MaskInv, Nested, HandlersLetInAgain
  <1> QED BY <1>1, OsInvariant, PTL

(* The first queue stays empty for ever. *)
THEOREM FirstQueueUnusable == Spec => []FirstQueueStaysEmpty
  <1>1. IInv => FirstQueueStaysEmpty
    BY DEF IInv
  <1> QED BY <1>1, OsInvariant, PTL

(* A slot of w bytes, one of d, ends inside the region. *)
LEMMA SlotEnds ==
  ASSUME NEW d \in Nat, NEW w \in Nat, NEW s \in 0 .. (d - 1)
  PROVE  s * w + w <= d * w
  <1>1. d - 1 - s \in Nat
    OBVIOUS
  <1>2. (d - 1 - s) * w >= 0
    BY <1>1
  <1>3. (d - 1 - s) * w = d * w - (s * w + w)
    OBVIOUS
  <1> QED BY <1>2, <1>3

(* No send or receive leaves its queue's own region of the pool. *)
THEOREM RegionsSafe == Spec => []PoolRegionsDisjoint
  <1>1. IInv => PoolRegionsDisjoint
    <2> SUFFICES ASSUME IInv PROVE PoolRegionsDisjoint
      OBVIOUS
    <2>1. QueueInv /\ s_pool_offset <= PoolBytes
      BY SizeAssumption DEF IInv, QueueInv, QueuesTypeOK
    <2>2. ASSUME NEW i \in Handles
          PROVE  SlotInside(s_queues[i], s_queues[i].head)
                   /\ SlotInside(s_queues[i], s_queues[i].tail)
      <3>1. PICK r \in Requests : s_queues[i] \in QueueFor(r)
        BY <2>1 DEF QueueInv, QueuesTypeOK
      <3>2. /\ r.depth \in Nat \ {0} /\ r.size + Header \in Nat /\ r.size \in Nat
            /\ Header \in Nat
        BY RequestType DEF Header
      <3>3. ASSUME NEW index \in Nat PROVE SlotInside(s_queues[i], index)
        <4>1. index % r.depth \in 0 .. (r.depth - 1)
          BY <3>2
        <4>2. (index % r.depth) * (r.size + Header) + (r.size + Header) <= Needed(r)
          BY <3>2, <4>1, SlotEnds DEF Needed
        <4>3. (index % r.depth) * (r.size + Header) \in Nat
          BY <3>2, <4>1
        <4>4. (index % r.depth) * (r.size + Header) + Header + r.size <= Needed(r)
          BY <3>2, <4>2, <4>3
        <4> QED BY <3>1, <4>4, QueueFields DEF SlotInside
      <3>4. s_queues[i].head \in Nat /\ s_queues[i].tail \in Nat
        BY <3>1, QueueFields
      <3> QED BY <3>3, <3>4
    <2> QED BY <2>1, <2>2 DEF PoolRegionsDisjoint, QueueInv, PoolInv
  <1> QED BY <1>1, OsInvariant, PTL

(* A mutex that is held excludes the handlers. *)
THEOREM LocksExclude == Spec => LockExcludesHandlers
  <1> DEFINE Excluded == s_lock_depth > 0 /\ pc' = pc
                 => cell' = cell /\ \A i \in Handles : s_queues'[i] = s_queues[i]
  <1>1. ASSUME IInv, [Next]_vars PROVE [Excluded]_vars
    <2> SUFFICES ASSUME Next, s_lock_depth > 0, pc' = pc
                 PROVE  cell' = cell /\ \A i \in Handles : s_queues'[i] = s_queues[i]
      BY <1>1
    <2>1. primask = 1
      BY <1>1 DEF IInv, MaskInv
    <2>2. ASSUME NEW r \in Requests, Create(r)
          PROVE  cell' = cell /\ \A i \in Handles : s_queues'[i] = s_queues[i]
      <3>1. cell' = cell /\ (s_queues' = s_queues \/ \E q : s_queues' = Append(s_queues, q))
        BY <2>2 DEF Create
      <3>2. s_queues \in Seq(Queue)
        BY <1>1 DEF IInv, QueuesTypeOK
      <3> QED BY <3>1, <3>2 DEF Handles
    <2>3. CASE \/ \E i \in Handles : \/ \E m \in Messages : BeginSend(i, m)
                                     \/ \E room \in Rooms : BeginReceive(i, room)
               \/ \E op \in AtomicOps : \E x \in Operands(op) : BeginUpdate(op, x)
      BY <2>3 DEF BeginSend, BeginReceive, BeginUpdate, Begin
    <2>4. CASE Mask \/ AtomicLoad \/ AtomicCommit \/ Restore
      BY <2>4 DEF Mask, AtomicLoad, AtomicCommit, Restore
    <2>5. CASE LockBegin \/ LockMask \/ LockNested \/ UnLock
      BY <2>5 DEF LockBegin, LockMask, LockNested, UnLock, queueVars
    <2>6. CASE SendStore \/ SendCommit \/ ReceiveLoad \/ ReceiveCommit
      BY <2>6 DEF SendStore, SendCommit, ReceiveLoad, ReceiveCommit
    <2>7. CASE Handler
      BY <2>1, <2>7 DEF Handler, HandlerSend, HandlerReceive, HandlerUpdate, HandlerLocks,
                        HandlerRuns
    <2>8. CASE \E i \in Handles : AssertHandle(i)
      BY <2>8 DEF AssertHandle, queueVars
    <2> QED BY <2>2, <2>3, <2>4, <2>5, <2>6, <2>7, <2>8 DEF Next, Thread
  <1> QED BY <1>1, OsInvariant, PTL DEF Spec, LockExcludesHandlers

-----------------------------------------------------------------------------
(* Powers of two. *)
LEMMA Pow2Is ==
  /\ Pow2[0] = 1
  /\ \A n \in Nat : Pow2[n + 1] = 2 * Pow2[n]
  <1> DEFINE base == [n \in {0} |-> 1]
             prev == [n \in Nat \ {0} |-> n - 1]
             step == [n \in Nat \ {0} |-> [v \in Int |-> 2 * v]]
             E(f) == [n \in Nat |-> IF n = 0 THEN 1 ELSE 2 * f[n - 1]]
  <1>1. PICK f \in [Nat -> Int] : Solves(f, Nat, {0}, base, prev, step)
    <2>1. base \in [{0} -> Int] /\ prev \in [Nat \ {0} -> Nat]
          /\ step \in [Nat \ {0} -> [Int -> Int]]
          /\ \A n \in Nat \ {0} : prev[n] < n
      OBVIOUS
    <2>2. Nat \in SUBSET Nat /\ {0} \in SUBSET Nat
      OBVIOUS
    <2> HIDE DEF base, prev, step
    <2> QED BY <2>1, <2>2, Recursion
  <1>2. \A n \in Nat : f[n] = IF n = 0 THEN 1 ELSE 2 * f[n - 1]
    <2> TAKE n \in Nat
    <2>1. f[n] = IF n \in {0} THEN base[n] ELSE step[n][f[prev[n]]]
      BY ONLY <1>1, n \in Nat, Zenon DEF Solves
    <2>2. CASE n = 0
      BY <2>1, <2>2
    <2>3. CASE n # 0
      <3>1. f[n - 1] \in Int /\ n \in Nat \ {0}
        BY <1>1, <2>3
      <3> QED BY <2>1, <3>1
    <2> QED BY <2>2, <2>3
  <1>3. f = E(f)
    BY <1>2
  <1>4. Pow2 = CHOOSE g : g = E(g)
    BY Zenon DEF Pow2
  <1> HIDE DEF E
  <1>5. Pow2 = E(Pow2)
    BY <1>3, <1>4
  <1>6. \A n \in Nat : Pow2[n] = IF n = 0 THEN 1 ELSE 2 * Pow2[n - 1]
    BY <1>5, Zenon DEF E
  <1> QED BY <1>6

LEMMA Pow2Type == \A n \in Nat : Pow2[n] \in Nat \ {0}
  <1> DEFINE T == {n \in Nat : Pow2[n] \in Nat \ {0}}
  <1>1. 0 \in T
    BY Pow2Is
  <1>2. \A n \in Nat : n \in T => n + 1 \in T
    BY Pow2Is
  <1>3. \A n \in Nat : n \in T
    BY <1>1, <1>2, SetInduction
  <1> QED BY <1>3

(* The bits of 2 * r + b are b and then the bits of r. *)
LEMMA BitOfDouble ==
  ASSUME NEW r \in Nat, NEW b \in {0, 1}
  PROVE  /\ Bit(2 * r + b, 0) = b
         /\ \A k \in Nat : Bit(2 * r + b, k + 1) = Bit(r, k)
  <1>1. Bit(2 * r + b, 0) = b
    <2>1. (2 * r + b) \div 1 = 2 * r + b /\ (2 * r + b) % 2 = b
      OBVIOUS
    <2> QED BY <2>1, Pow2Is DEF Bit
  <1>2. ASSUME NEW k \in Nat PROVE Bit(2 * r + b, k + 1) = Bit(r, k)
    <2> DEFINE p == Pow2[k]
               q == r \div p
               s == r % p
    <2>1. p \in Nat \ {0}
      BY Pow2Type
    <2> HIDE DEF p
    <2>2. q \in Nat /\ s \in 0 .. (p - 1) /\ r = p * q + s
      BY <2>1, SMT
    <2> HIDE DEF q, s
    <2> DEFINE t == 2 * s + b
               pp == 2 * p
    <2>3. t \in 0 .. (pp - 1) /\ pp \in Nat \ {0}
      BY <2>1, <2>2
    <2>4. 2 * r + b = q * pp + t
      <3>1. q * pp = 2 * (p * q)
        BY <2>1, <2>2
      <3> QED BY <2>1, <2>2, <3>1
    <2> HIDE DEF t, pp
    <2>5. (q * pp + t) \div pp = q
      BY ONLY <2>2, <2>3, QuotientIs
    <2>6. Pow2[k + 1] = pp
      BY Pow2Is DEF pp, p
    <2>7. (2 * r + b) \div Pow2[k + 1] = r \div Pow2[k]
      BY ONLY <2>4, <2>5, <2>6 DEF q, p
    <2> QED BY <2>7, Zenon DEF Bit
  <1> QED BY <1>1, <1>2

(* There is a number with any given bits. *)
LEMMA BitsMakeNumber ==
  \A n \in Nat : \A f \in [Nat -> {0, 1}] :
      \E r \in 0 .. (Pow2[n] - 1) : \A k \in 0 .. (n - 1) : Bit(r, k) = f[k]
  <1> DEFINE Has(n, f) == \E r \in 0 .. (Pow2[n] - 1) :
                              \A k \in 0 .. (n - 1) : Bit(r, k) = f[k]
             T == {n \in Nat : \A f \in [Nat -> {0, 1}] : Has(n, f)}
  <1>1. 0 \in T
    <2> SUFFICES ASSUME NEW f \in [Nat -> {0, 1}] PROVE Has(0, f)
      OBVIOUS
    <2>1. 0 \in 0 .. (Pow2[0] - 1) /\ \A k \in 0 .. (0 - 1) : FALSE
      BY Pow2Is
    <2> QED BY <2>1
  <1>2. ASSUME NEW n \in Nat, n \in T PROVE n + 1 \in T
    <2> SUFFICES ASSUME NEW f \in [Nat -> {0, 1}] PROVE Has(n + 1, f)
      OBVIOUS
    <2> DEFINE g == [k \in Nat |-> f[k + 1]]
    <2>1. g \in [Nat -> {0, 1}]
      OBVIOUS
    <2>2. PICK r \in 0 .. (Pow2[n] - 1) : \A k \in 0 .. (n - 1) : Bit(r, k) = g[k]
      BY <1>2, <2>1
    <2> DEFINE b == f[0]
               x == 2 * r + b
    <2>3. b \in {0, 1} /\ Pow2[n] \in Nat \ {0} /\ Pow2[n + 1] = 2 * Pow2[n] /\ r \in Nat
      BY Pow2Type, Pow2Is
    <2>4. x \in 0 .. (Pow2[n + 1] - 1)
      BY <2>3
    <2>5. /\ Bit(x, 0) = b /\ \A k \in Nat : Bit(x, k + 1) = Bit(r, k)
      BY <2>3, BitOfDouble
    <2> HIDE DEF b, x
    <2>6. ASSUME NEW k \in 0 .. ((n + 1) - 1) PROVE Bit(x, k) = f[k]
      <3>1. CASE k = 0
        BY <2>5, <3>1 DEF b
      <3>2. CASE k # 0
        <4> DEFINE j == k - 1
        <4>1. j \in 0 .. (n - 1) /\ j \in Nat /\ j + 1 = k
          BY <3>2
        <4> HIDE DEF j
        <4>2. Bit(x, k) = Bit(r, j) /\ Bit(r, j) = g[j] /\ g[j] = f[k]
          BY <2>2, <2>5, <4>1
        <4> QED BY <4>2
      <3> QED BY <3>1, <3>2
    <2> QED BY <2>4, <2>6
  <1>3. \A n \in Nat : n \in T
    BY <1>1, <1>2, SetInduction
  <1> QED BY <1>3

LEMMA BitRange == ASSUME NEW x \in Nat, NEW k \in Nat PROVE Bit(x, k) \in {0, 1}
  <1> DEFINE p == Pow2[k]
             y == x \div p
  <1>1. p \in Nat \ {0}
    BY Pow2Type
  <1> HIDE DEF p
  <1>2. y \in Nat
    BY <1>1
  <1> HIDE DEF y
  <1>3. y % 2 \in {0, 1}
    BY <1>2
  <1> QED BY <1>3 DEF Bit, y, p

(* A builtin leaves a number of the cell's width in the cell. *)
LEMMA NewValueInCell ==
  ASSUME NEW op \in AtomicOps, NEW old \in Cell, NEW x \in Operands(op)
  PROVE  NewValue(op, old, x) \in Cell
  <1> DEFINE w == Pow2[CellBits]
  <1>1. w \in Nat \ {0} /\ CellBits \in Nat
    BY SizeAssumption, Pow2Type
  <1>2. old \in Nat /\ old <= w - 1 /\ (op # "load" => x.v \in Nat /\ x.v <= w - 1)
        /\ (op # "load" => x.v \in Cell)
    BY <1>1 DEF Operands, Cell
  <1>3. CASE op = "load"
    BY <1>3 DEF NewValue
  <1>4. CASE op \in {"store", "exchange"}
    BY <1>2, <1>4 DEF NewValue
  <1>5. CASE op = "cas"
    BY <1>2, <1>5 DEF NewValue
  <1>6. CASE op = "add"
    <2>1. NewValue(op, old, x) = (old + x.v) % w
      BY <1>6 DEF NewValue
    <2> DEFINE y == old + x.v
    <2>2. y \in Nat
      BY <1>2, <1>6
    <2> HIDE DEF w, y
    <2>3. y % w \in 0 .. (w - 1)
      BY <1>1, <2>2
    <2> QED BY <2>1, <2>3 DEF Cell, w, y
  <1>7. CASE op = "sub"
    <2>1. NewValue(op, old, x) = (old + w - x.v) % w
      BY <1>7 DEF NewValue
    <2> DEFINE y == old + w - x.v
    <2>2. y \in Nat
      BY <1>1, <1>2, <1>7
    <2> HIDE DEF w, y
    <2>3. y % w \in 0 .. (w - 1)
      BY <1>1, <2>2
    <2> QED BY <2>1, <2>3 DEF Cell, w, y
  <1>8. CASE op \in {"and", "or"}
    <2> DEFINE f == [k \in Nat |-> IF op = "and"
                                   THEN IF Bit(old, k) = 1 THEN Bit(x.v, k) ELSE 0
                                   ELSE IF Bit(old, k) = 1 THEN 1 ELSE Bit(x.v, k)]
               Is(r) == \A k \in 0 .. (CellBits - 1) : Bit(r, k) = f[k]
    <2>1. f \in [Nat -> {0, 1}]
      BY <1>2, <1>8, BitRange
    <2>2. \E r \in Cell : Is(r)
      <3> HIDE DEF f
      <3> QED BY <1>1, <2>1, BitsMakeNumber DEF Cell
    <2>3. (CHOOSE r \in Cell : Is(r)) \in Cell
      <3> HIDE DEF Is
      <3> QED BY <2>2, Zenon
    <2>4. NewValue(op, old, x) = CHOOSE r \in Cell : Is(r)
      BY <1>1, <1>8 DEF NewValue
    <2> QED BY <2>3, <2>4, Zenon
  <1> QED BY <1>3, <1>4, <1>5, <1>6, <1>7, <1>8 DEF AtomicOps

(* The cell keeps its width through every step. *)
LEMMA CellKept ==
  ASSUME IInv, cell \in Cell, [Next]_vars
  PROVE  cell' \in Cell
  <1>1. CASE AtomicCommit
    <2>1. pc = "commit" /\ call.op \in AtomicOps /\ call \in Calls /\ CallInv
      BY <1>1, CallFields DEF AtomicCommit, IInv, CallInv
    <2>2. call.x \in Operands(call.op) /\ seen = cell
      BY <2>1, CallFields DEF CallInv
    <2> QED BY <1>1, <2>1, <2>2, NewValueInCell DEF AtomicCommit
  <1>2. ASSUME NEW op \in AtomicOps, NEW x \in Operands(op), HandlerUpdate(op, x)
        PROVE  cell' \in Cell
    BY <1>2, NewValueInCell DEF HandlerUpdate
  <1>3. CASE \/ \E r \in Requests : Create(r)
             \/ \E i \in Handles : \/ \E m \in Messages : BeginSend(i, m)
                                   \/ \E room \in Rooms : BeginReceive(i, room)
             \/ \E op \in AtomicOps : \E x \in Operands(op) : BeginUpdate(op, x)
    BY <1>3 DEF Create, BeginSend, BeginReceive, BeginUpdate, Begin
  <1>4. CASE \/ Mask \/ SendStore \/ SendCommit \/ ReceiveLoad \/ ReceiveCommit
             \/ AtomicLoad \/ Restore \/ LockBegin \/ LockMask \/ LockNested \/ UnLock
    BY <1>4 DEF Mask, SendStore, SendCommit, ReceiveLoad, ReceiveCommit, AtomicLoad,
                Restore, LockBegin, LockMask, LockNested, UnLock
  <1>5. CASE \/ \E i \in Handles : \/ \E m \in Messages : HandlerSend(i, m)
                                   \/ \E room \in Rooms : HandlerReceive(i, room)
             \/ HandlerLocks
             \/ \E i \in Handles : AssertHandle(i)
             \/ UNCHANGED vars
    BY <1>5 DEF HandlerSend, HandlerReceive, HandlerLocks, AssertHandle, vars
  <1> QED BY <1>1, <1>2, <1>3, <1>4, <1>5 DEF Next, Thread, Handler

(* TypeOK holds, whatever the cell's width: no builtin, carried out in     *)
(* halves by the thread or in one go by a handler, leaves a value in the   *)
(* cell that is wider than it.                                             *)
THEOREM OsTypeCorrect == Spec => []TypeOK
  <1>1. Init => cell \in Cell
    <2>1. Pow2[CellBits] \in Nat \ {0}
      BY SizeAssumption, Pow2Type
    <2> QED BY <2>1 DEF Init, Cell
  <1>2. IInv /\ cell \in Cell /\ [Next]_vars => (cell \in Cell)'
    BY CellKept DEF Cell
  <1>3. IInv /\ cell \in Cell => TypeOK
    BY DEF IInv, TypeOK
  <1> QED BY <1>1, <1>2, <1>3, OsInvariant, PTL DEF Spec

-----------------------------------------------------------------------------
(***************************************************************************)
(* BaremetalOs implements OsServices.  A call of the thread takes effect   *)
(* in the step that decides its answer: a send in SendCommit, or where it  *)
(* is refused; a receive in ReceiveCommit, or where the queue is empty;    *)
(* a builtin in AtomicCommit.  Filling a slot stutters, because the slot   *)
(* at head holds no message, whichever way head and tail have wrapped.     *)
(***************************************************************************)

Message == Messages \cup {Blank}

(* The contents of a queue: their number and the slot of each. *)
LEMMA ItemsAre ==
  ASSUME NEW r \in Requests, NEW q, QueueOK(q, r)
  PROVE  /\ Items(q) \in Seq(Message) /\ Len(Items(q)) = q.count
         /\ \A k \in 1 .. q.count : Items(q)[k] = q.buf[(q.tail + k - 1) % q.depth]
  <1>1. /\ q.count \in Nat /\ q.tail \in Nat /\ q.depth = r.depth /\ r.depth \in Nat \ {0}
        /\ q.buf \in [0 .. (r.depth - 1) -> Message]
    BY QueueNumbers, Zenon DEF Message
  <1>2. ASSUME NEW k \in 1 .. q.count
        PROVE  q.buf[(q.tail + k - 1) % q.depth] \in Message
    <2>1. q.tail + k - 1 \in Nat
      BY <1>1
    <2>2. (q.tail + k - 1) % q.depth \in 0 .. (r.depth - 1)
      BY <1>1, <2>1
    <2> QED BY <1>1, <2>2
  <1>3. Items(q) \in [1 .. q.count -> Message]
    BY <1>2 DEF Items
  <1>4. Items(q) \in Seq(Message)
    BY <1>1, <1>3, SeqDef
  <1>5. Len(Items(q)) = q.count
    BY <1>1, <1>3, <1>4, LenProperties
  <1>6. \A k \in 1 .. q.count : Items(q)[k] = q.buf[(q.tail + k - 1) % q.depth]
    BY DEF Items
  <1> QED BY <1>4, <1>5, <1>6

(* A wrap of an index is not seen in the slots. *)
LEMMA WrapUnseen ==
  ASSUME NEW r \in Requests, NEW x \in Nat, NEW y \in Nat
  PROVE  ((x % IndexWord) + y) % r.depth = (x + y) % r.depth
  <1>1. r.depth \in Nat \ {0} /\ \E k \in Nat \ {0} : IndexWord = r.depth * k
    BY RequestType
  <1>2. Congruent((x % IndexWord) + y, x + y, r.depth)
    BY <1>1, RemainderInside, Zenon
  <1> QED BY <1>2 DEF Congruent

(* The slot at head, seen from tail. *)
LEMMA HeadSlot ==
  ASSUME NEW r \in Requests, NEW q, QueueOK(q, r)
  PROVE  q.head % q.depth = (q.tail + q.count) % q.depth
  <1> DEFINE x == q.tail + q.count
  <1>1. x \in Nat /\ q.head \in Nat /\ q.depth = r.depth /\ q.head = x % IndexWord
    BY QueueFields DEF QueueOK
  <1> HIDE DEF x
  <1>2. ((x % IndexWord) + 0) % r.depth = (x + 0) % r.depth
    BY <1>1, WrapUnseen
  <1>3. q.head + 0 = q.head /\ x + 0 = x
    BY <1>1
  <1>4. q.head % r.depth = x % r.depth
    BY <1>1, <1>2, <1>3
  <1> QED BY <1>1, <1>4 DEF x

(* Filling the free slot at head changes no message. *)
LEMMA ItemsStored ==
  ASSUME NEW r \in Requests, NEW q, QueueOK(q, r), q.count < q.depth,
         NEW m \in Messages
  PROVE  Items(Stored(q, m)) = Items(q)
  <1> DEFINE p == Stored(q, m)
  <1>1. /\ q.count \in Nat /\ q.tail \in Nat /\ q.depth = r.depth /\ r.depth \in Nat \ {0}
        /\ q.buf \in [0 .. (r.depth - 1) -> Message]
    BY QueueNumbers, Zenon DEF Message
  <1>2. /\ QueueOK(p, r) /\ p.count = q.count /\ p.tail = q.tail
        /\ p.buf = [q.buf EXCEPT ![q.head % q.depth] = m]
    BY StoredKeeps
  <1>3. p.depth = r.depth
    BY <1>2, QueueFields DEF QueueOK
  <1> HIDE DEF p
  <1>4. ASSUME NEW k \in 1 .. q.count
        PROVE  p.buf[(q.tail + k - 1) % r.depth] = q.buf[(q.tail + k - 1) % r.depth]
    <2> DEFINE x == q.tail + k - 1
               c == q.count - (k - 1)
    <2>1. x \in Nat /\ c \in 1 .. (r.depth - 1) /\ x + c = q.tail + q.count
      <3>1. /\ q.count \in Nat /\ q.tail \in Nat /\ q.count < r.depth /\ r.depth \in Nat
            /\ k \in Nat /\ 1 <= k /\ k <= q.count
        BY <1>1
      <3>2. x \in Nat
        BY <3>1
      <3>3. c \in 1 .. (r.depth - 1)
        BY <3>1
      <3>4. x + c = q.tail + q.count
        BY <3>1
      <3> QED BY <3>2, <3>3, <3>4
    <2> HIDE DEF x, c
    <2>2. (x + c) % r.depth # x % r.depth
      BY <1>1, <2>1, RemaindersDiffer
    <2>3. x % r.depth \in 0 .. (r.depth - 1)
      BY <1>1, <2>1
    <2>4. q.head % q.depth # x % r.depth
      BY <1>1, <2>1, <2>2, HeadSlot
    <2> QED BY <1>1, <1>2, <2>3, <2>4 DEF x
  <1>5. Items(p) = Items(q)
    BY <1>1, <1>2, <1>3, <1>4 DEF Items
  <1> QED BY <1>5 DEF p

(* Advancing head appends what the slot at head holds. *)
LEMMA ItemsPushed ==
  ASSUME NEW r \in Requests, NEW q, QueueOK(q, r), q.count < q.depth
  PROVE  Items(Pushed(q)) = Append(Items(q), q.buf[q.head % q.depth])
  <1> DEFINE p == Pushed(q)
             m == q.buf[q.head % q.depth]
  <1>1. /\ q.count \in Nat /\ q.tail \in Nat /\ q.depth = r.depth
    BY QueueFields DEF QueueOK
  <1>2. /\ QueueOK(p, r) /\ p.count = q.count + 1 /\ p.tail = q.tail /\ p.buf = q.buf
    BY PushedKeeps
  <1>3. p.depth = q.depth
    BY <1>1, <1>2, QueueFields DEF QueueOK
  <1>4. m = q.buf[(q.tail + (q.count + 1) - 1) % q.depth]
    <2>1. q.tail + (q.count + 1) - 1 = q.tail + q.count
      BY <1>1
    <2> QED BY <2>1, HeadSlot
  <1> HIDE DEF p, m
  <1>5. /\ Items(p) \in Seq(Message) /\ Len(Items(p)) = q.count + 1
        /\ \A k \in 1 .. q.count + 1 : Items(p)[k] = q.buf[(q.tail + k - 1) % q.depth]
    BY <1>2, <1>3, ItemsAre
  <1>6. /\ Items(q) \in Seq(Message) /\ Len(Items(q)) = q.count
        /\ \A k \in 1 .. q.count : Items(q)[k] = q.buf[(q.tail + k - 1) % q.depth]
    BY ItemsAre
  <1>7. Items(p)[q.count + 1] = m
    BY <1>1, <1>4, <1>5
  <1>8. \A k \in 1 .. q.count : Items(p)[k] = Items(q)[k]
    BY <1>1, <1>5, <1>6
  <1> QED BY <1>1, <1>5, <1>6, <1>7, <1>8 DEF p, m

(* Advancing tail drops the oldest message. *)
LEMMA ItemsPopped ==
  ASSUME NEW r \in Requests, NEW q, QueueOK(q, r), q.count # 0
  PROVE  /\ Items(q) # <<>> /\ Oldest(q) = Head(Items(q))
         /\ Items(Popped(q)) = Tail(Items(q))
  <1> DEFINE p == Popped(q)
  <1>1. /\ q.count \in Nat \ {0} /\ q.tail \in Nat /\ q.depth = r.depth
        /\ r.depth \in Nat \ {0}
    BY QueueFields, RequestType DEF QueueOK
  <1>2. /\ QueueOK(p, r) /\ p.count = q.count - 1 /\ p.tail = (q.tail + 1) % IndexWord
        /\ p.buf = q.buf
    BY PoppedKeeps
  <1>3. p.depth = q.depth
    BY <1>1, <1>2, QueueFields DEF QueueOK
  <1> HIDE DEF p
  <1>4. /\ Items(q) \in Seq(Message) /\ Len(Items(q)) = q.count
        /\ \A k \in 1 .. q.count : Items(q)[k] = q.buf[(q.tail + k - 1) % q.depth]
    BY ItemsAre
  <1>5. /\ Items(p) \in Seq(Message) /\ Len(Items(p)) = q.count - 1
        /\ \A k \in 1 .. q.count - 1 : Items(p)[k] = q.buf[(p.tail + k - 1) % q.depth]
    BY <1>2, <1>3, ItemsAre
  <1>6. Items(q) # <<>> /\ Oldest(q) = Items(q)[1]
    <2>1. q.tail + 1 - 1 = q.tail
      BY <1>1
    <2> QED BY <1>1, <1>4, <2>1 DEF Oldest
  <1>7. ASSUME NEW k \in 1 .. q.count - 1
        PROVE  Items(p)[k] = Items(q)[k + 1]
    <2> DEFINE x == q.tail + 1
               y == k - 1
    <2>1. x \in Nat /\ y \in Nat
      BY <1>1
    <2>2. /\ p.tail \in Nat /\ k \in 1 .. q.count /\ k + 1 \in 1 .. q.count
          /\ p.tail + k - 1 = p.tail + y /\ q.tail + (k + 1) - 1 = x + y
      BY <1>1, <1>2, QueueFields DEF QueueOK
    <2>3. p.tail = x % IndexWord
      BY <1>2
    <2> HIDE DEF x, y
    <2>4. ((x % IndexWord) + y) % r.depth = (x + y) % r.depth
      BY <2>1, WrapUnseen
    <2>5. Items(p)[k] = q.buf[(p.tail + k - 1) % q.depth]
      BY <1>5
    <2>6. Items(q)[k + 1] = q.buf[(q.tail + (k + 1) - 1) % q.depth]
      BY <1>4, <2>2
    <2> QED BY <1>1, <2>2, <2>3, <2>4, <2>5, <2>6
  <1> QED BY <1>1, <1>4, <1>5, <1>6, <1>7 DEF p
-----------------------------------------------------------------------------
(* What the queues are to OsServices, as in the instance Services.         *)
AbsQueue(q) == [depth |-> q.depth, size |-> q.msg_size, items |-> Items(q)]
AbsQueues == [i \in Handles |-> [depth |-> s_queues[i].depth,
                                 size |-> s_queues[i].msg_size,
                                 items |-> Items(s_queues[i])]]
AbsType == [depth : Nat, size : Nat, items : Seq(Message)]

LEMMA AbsQueueType ==
  ASSUME NEW r \in Requests, NEW q, QueueOK(q, r)
  PROVE  AbsQueue(q) \in AbsType
  <1>1. q.depth \in Nat /\ q.msg_size \in Nat
    BY QueueFields, RequestType DEF QueueOK
  <1>2. Items(q) \in Seq(Message)
    BY ItemsAre
  <1> QED BY <1>1, <1>2 DEF AbsQueue, AbsType

LEMMA AbsQueuesAre ==
  ASSUME QueueInv
  PROVE  /\ AbsQueues \in Seq(AbsType) /\ Len(AbsQueues) = Len(s_queues)
         /\ DOMAIN AbsQueues = Handles
         /\ \A i \in Handles : AbsQueues[i] = AbsQueue(s_queues[i])
  <1>1. Len(s_queues) \in Nat
    BY DEF QueueInv, QueuesTypeOK
  <1>2. \A i \in Handles : AbsQueues[i] = AbsQueue(s_queues[i])
    BY DEF AbsQueues, AbsQueue
  <1>3. \A i \in Handles : AbsQueue(s_queues[i]) \in AbsType
    BY QueueTaken, AbsQueueType
  <1>4. AbsQueues \in [1 .. Len(s_queues) -> AbsType]
    <2>1. AbsQueues = [i \in 1 .. Len(s_queues) |-> AbsQueue(s_queues[i])]
      BY DEF AbsQueues, AbsQueue, Handles
    <2> QED BY <1>3, <2>1 DEF Handles
  <1>5. AbsQueues \in Seq(AbsType)
    BY <1>1, <1>4, SeqDef
  <1>6. Len(AbsQueues) = Len(s_queues)
    BY <1>1, <1>4, <1>5, LenProperties
  <1>7. DOMAIN AbsQueues = Handles
    BY DEF AbsQueues
  <1> QED BY <1>2, <1>5, <1>6, <1>7

(* A change of one queue, as OsServices sees it. *)
LEMMA AbsChanged ==
  ASSUME QueueInv, NEW i \in Handles, NEW r \in Requests, NEW q,
         QueueOK(s_queues[i], r), QueueOK(q, r), s_queues' = [s_queues EXCEPT ![i] = q]
  PROVE  AbsQueues' = [AbsQueues EXCEPT ![i].items = Items(q)]
  <1>1. /\ s_queues \in Seq(Queue) /\ q \in Queue
        /\ q.depth = s_queues[i].depth /\ q.msg_size = s_queues[i].msg_size
    BY QueueFields DEF QueueInv, QueuesTypeOK, QueueOK
  <1>2. /\ Handles' = Handles /\ s_queues'[i] = q
        /\ \A j \in Handles : j # i => s_queues'[j] = s_queues[j]
    BY <1>1 DEF Handles
  <1>3. \A j \in Handles : AbsQueue(s_queues'[j])
           = IF j = i THEN [AbsQueue(s_queues[i]) EXCEPT !.items = Items(q)]
             ELSE AbsQueue(s_queues[j])
    BY <1>1, <1>2 DEF AbsQueue
  <1>4. AbsQueues' = [j \in Handles |-> AbsQueue(s_queues'[j])]
    BY <1>2 DEF AbsQueues, AbsQueue
  <1>5. AbsQueues = [j \in Handles |-> AbsQueue(s_queues[j])]
    BY DEF AbsQueues, AbsQueue
  <1> QED BY <1>3, <1>4, <1>5

LEMMA AbsUnchanged == ASSUME s_queues' = s_queues PROVE AbsQueues' = AbsQueues
  BY DEF AbsQueues, Handles, Items

-----------------------------------------------------------------------------
(* Steps that are steps of OsServices. *)

LEMMA SendTaken ==
  ASSUME QueueInv, NEW i \in Handles, NEW m \in Messages,
         SendStatus(s_queues[i], m) = "OK",
         AbsQueues' = [AbsQueues EXCEPT ![i].items = Append(Items(s_queues[i]), m)],
         out' = <<"send", "OK">>, UNCHANGED <<s_pool_offset, cell>>
  PROVE  Services!Send(i, m)
  <1>1. /\ AbsQueues[i] = AbsQueue(s_queues[i])
        /\ Len(Items(s_queues[i])) = s_queues[i].count
    BY AbsQueuesAre, QueueTaken, ItemsAre
  <1>2. /\ AbsQueues[i].items = Items(s_queues[i]) /\ AbsQueues[i].depth = s_queues[i].depth
        /\ AbsQueues[i].size = s_queues[i].msg_size
    BY <1>1 DEF AbsQueue
  <1>3. ~ (Len(AbsQueues[i].items) >= AbsQueues[i].depth) /\ ~ (m.len > AbsQueues[i].size)
    BY <1>1, <1>2 DEF SendStatus
  <1> QED BY <1>2, <1>3 DEF Services!Send, AbsQueues

LEMMA SendRefused ==
  ASSUME QueueInv, NEW i \in Handles, NEW m \in Messages,
         SendStatus(s_queues[i], m) # "OK",
         AbsQueues' = AbsQueues,
         out' = <<"send", SendStatus(s_queues[i], m)>>, UNCHANGED <<s_pool_offset, cell>>
  PROVE  Services!Send(i, m)
  <1>1. /\ AbsQueues[i] = AbsQueue(s_queues[i])
        /\ Len(Items(s_queues[i])) = s_queues[i].count
    BY AbsQueuesAre, QueueTaken, ItemsAre
  <1>2. /\ AbsQueues[i].items = Items(s_queues[i]) /\ AbsQueues[i].depth = s_queues[i].depth
        /\ AbsQueues[i].size = s_queues[i].msg_size
    BY <1>1 DEF AbsQueue
  <1>3. SendStatus(s_queues[i], m)
          = IF Len(AbsQueues[i].items) >= AbsQueues[i].depth THEN "FULL"
            ELSE IF m.len > AbsQueues[i].size THEN "SIZE_MISMATCH" ELSE "OK"
    BY <1>1, <1>2 DEF SendStatus
  <1> QED BY <1>3 DEF Services!Send, AbsQueues

LEMMA ReceiveFinds ==
  ASSUME QueueInv, NEW i \in Handles, NEW room \in Rooms,
         s_queues[i].count # 0,
         AbsQueues' = [AbsQueues EXCEPT ![i].items = Tail(Items(s_queues[i]))],
         out' = Received(Oldest(s_queues[i]), room), UNCHANGED <<s_pool_offset, cell>>
  PROVE  Services!Receive(i, room)
  <1>1. /\ AbsQueues[i] = AbsQueue(s_queues[i])
        /\ Items(s_queues[i]) # <<>> /\ Oldest(s_queues[i]) = Head(Items(s_queues[i]))
    BY AbsQueuesAre, QueueTaken, ItemsPopped
  <1>2. AbsQueues[i].items = Items(s_queues[i])
    BY <1>1 DEF AbsQueue
  <1>3. out' = IF Head(AbsQueues[i].items).len <= room
               THEN <<"receive", "OK", Head(AbsQueues[i].items)>>
               ELSE <<"receive", "SIZE_MISMATCH", Blank>>
    BY <1>1, <1>2 DEF Received
  <1> QED BY <1>1, <1>2, <1>3 DEF Services!Receive, AbsQueues

LEMMA ReceiveFindsNone ==
  ASSUME QueueInv, NEW i \in Handles, NEW room \in Rooms,
         s_queues[i].count = 0, AbsQueues' = AbsQueues,
         out' = <<"receive", "NO_MORE_MSGS", Blank>>, UNCHANGED <<s_pool_offset, cell>>
  PROVE  Services!Receive(i, room)
  <1>1. /\ AbsQueues[i] = AbsQueue(s_queues[i])
        /\ Items(s_queues[i]) \in Seq(Message) /\ Len(Items(s_queues[i])) = 0
    BY AbsQueuesAre, QueueTaken, ItemsAre
  <1>2. AbsQueues[i].items = <<>>
    BY <1>1 DEF AbsQueue
  <1> QED BY <1>2 DEF Services!Receive, AbsQueues

LEMMA CreateRefines ==
  ASSUME QueueInv, NEW r \in Requests, Create(r)
  PROVE  Services!Create(r)
  <1> DEFINE fits == Len(s_queues) < MaxQueues /\ s_pool_offset + Needed(r) <= PoolBytes
             q == [base |-> s_pool_offset, capacity |-> Needed(r), msg_size |-> r.size,
                   depth |-> r.depth, head |-> 0, tail |-> 0, count |-> 0,
                   buf |-> [k \in 0 .. (r.depth - 1) |-> Blank]]
             a == [depth |-> r.depth, size |-> r.size, items |-> <<>>]
  <1>1. /\ Len(AbsQueues) = Len(s_queues) /\ Services!Bytes(r) = Needed(r)
        /\ s_queues \in Seq(Queue) /\ AbsQueues \in Seq(AbsType)
    BY AbsQueuesAre DEF Services!Bytes, Needed, Header, QueueInv, QueuesTypeOK
  <1>2. CASE ~ fits
    <2>1. s_queues' = s_queues /\ s_pool_offset' = s_pool_offset /\ cell' = cell
          /\ out' = <<"create", "UNINITIALIZED">>
      BY <1>2 DEF Create
    <2>2. AbsQueues' = AbsQueues
      BY <2>1, AbsUnchanged
    <2> QED BY <1>1, <1>2, <2>1, <2>2 DEF Services!Create, AbsQueues
  <1>3. CASE fits
    <2>1. /\ s_queues' = Append(s_queues, q) /\ s_pool_offset' = s_pool_offset + Needed(r)
          /\ cell' = cell /\ out' = <<"create", "OK">>
      BY <1>3 DEF Create
    <2>2. AbsQueue(q) = a
      <3>1. Items(q) = <<>>
        BY DEF Items
      <3> QED BY <3>1 DEF AbsQueue
    <2> DEFINE n == Len(s_queues) + 1
    <2> HIDE DEF q
    <2>3. AbsQueues' = Append(AbsQueues, a)
      <3>1. /\ Handles' = 1 .. n /\ n \in Nat /\ Len(s_queues) \in Nat
            /\ s_queues'[n] = q
            /\ \A j \in Handles : s_queues'[j] = s_queues[j]
        BY <1>1, <2>1 DEF Handles
      <3>2. AbsQueues' = [j \in 1 .. n |-> AbsQueue(s_queues'[j])]
        BY <3>1 DEF AbsQueues, AbsQueue
      <3>3. \A j \in 1 .. n : AbsQueue(s_queues'[j]) = IF j = n THEN a ELSE AbsQueues[j]
        BY <2>2, <3>1, AbsQueuesAre DEF Handles
      <3>4. a \in AbsType
        BY RequestType DEF AbsType
      <3> HIDE DEF a
      <3>5. /\ Append(AbsQueues, a) \in Seq(AbsType) /\ Len(Append(AbsQueues, a)) = n
            /\ \A j \in 1 .. n : Append(AbsQueues, a)[j] = IF j = n THEN a ELSE AbsQueues[j]
        BY <1>1, <3>1, <3>4
      <3>6. AbsQueues' \in [1 .. n -> AbsType]
        BY <1>1, <3>1, <3>2, <3>3, <3>4
      <3>7. AbsQueues' \in Seq(AbsType)
        BY <3>1, <3>6, SeqDef
      <3>8. Len(AbsQueues') = n
        BY <3>1, <3>6, <3>7, LenProperties
      <3>9. \A j \in 1 .. n : AbsQueues'[j] = Append(AbsQueues, a)[j]
        BY <3>2, <3>3, <3>5
      <3> QED BY <3>5, <3>7, <3>8, <3>9, SeqEqual
    <2> QED BY <1>1, <1>3, <2>1, <2>3 DEF Services!Create, AbsQueues
  <1> QED BY <1>2, <1>3

(* The builtins' operators are the same in both modules. *)
LEMMA SameOperations ==
  /\ Services!AtomicOps = AtomicOps
  /\ \A op, old, x : /\ Services!Operands(op) = Operands(op)
                     /\ Services!NewValue(op, old, x) = NewValue(op, old, x)
                     /\ Services!Answer(op, old, x) = Answer(op, old, x)
  <1>1. Services!AtomicOps = AtomicOps
    BY Zenon DEF Services!AtomicOps, AtomicOps
  <1>2. \A op : Services!Operands(op) = Operands(op)
    BY Zenon DEF Services!Operands, Operands, Services!Cell, Cell, Services!Pow2, Pow2
  <1>3. \A op, old, x : Services!NewValue(op, old, x) = NewValue(op, old, x)
    BY ZenonT(60) DEF Services!NewValue, NewValue, Services!Bit, Bit, Services!Cell, Cell,
                          Services!Pow2, Pow2
  <1>4. \A op, old, x : Services!Answer(op, old, x) = Answer(op, old, x)
    BY Zenon DEF Services!Answer, Answer
  <1> QED BY <1>1, <1>2, <1>3, <1>4, Zenon

LEMMA UpdateRefines ==
  ASSUME NEW op \in AtomicOps, NEW x \in Operands(op),
         cell' = NewValue(op, cell, x), out' = Answer(op, cell, x),
         UNCHANGED queueVars
  PROVE  \E o \in Services!AtomicOps : \E y \in Services!Operands(o) : Services!Update(o, y)
  <1>1. AbsQueues' = AbsQueues /\ s_pool_offset' = s_pool_offset
    BY AbsUnchanged DEF queueVars
  <1>2. Services!Update(op, x)
    BY <1>1, SameOperations DEF Services!Update, AbsQueues
  <1> QED BY <1>2, SameOperations

-----------------------------------------------------------------------------
(* The thread's steps. *)

LEMMA SendStoreRefines ==
  ASSUME IInv, SendStore
  PROVE  Services!Next \/ UNCHANGED <<AbsQueues, s_pool_offset, cell, out>>
  <1>0. /\ QueueInv /\ Len(AbsQueues) = Len(s_queues)
        /\ call.queue \in Handles /\ call.msg \in Messages
    BY CallFields, AbsQueuesAre DEF IInv, QueueInv, SendStore, UsableQueue
  <1>1. PICK i \in Handles, m \in Messages : i = call.queue /\ m = call.msg
    BY <1>0
  <1> DEFINE q == s_queues[i]
  <1>2. PICK r \in Requests : QueueOK(q, r)
    BY <1>0, QueueTaken
  <1>3. CASE SendStatus(q, m) = "OK"
    <2>1. /\ s_queues' = [s_queues EXCEPT ![i] = Stored(q, m)]
          /\ UNCHANGED <<s_pool_offset, cell, out>>
      BY <1>1, <1>3 DEF SendStore
    <2>2. q.count < q.depth
      BY <1>2, <1>3, QueueFields, RequestType DEF SendStatus, QueueOK
    <2>3. QueueOK(Stored(q, m), r) /\ Items(Stored(q, m)) = Items(q)
      BY <1>2, <2>2, StoredKeeps, ItemsStored
    <2>4. AbsQueues' = [AbsQueues EXCEPT ![i].items = Items(q)]
      <3> DEFINE p == Stored(q, m)
      <3>1. s_queues' = [s_queues EXCEPT ![i] = p] /\ QueueOK(p, r) /\ Items(p) = Items(q)
        BY <2>1, <2>3
      <3> HIDE DEF p
      <3>2. AbsQueues' = [AbsQueues EXCEPT ![i].items = Items(p)]
        BY <1>0, <1>2, <3>1, AbsChanged
      <3> QED BY <3>1, <3>2
    <2>5. /\ AbsQueues[i] = AbsQueue(q) /\ DOMAIN AbsQueues = Handles
          /\ AbsQueues = [j \in Handles |-> AbsQueues[j]]
      BY <1>0, AbsQueuesAre DEF AbsQueues
    <2>6. AbsQueues' = AbsQueues
      <3>1. [AbsQueues[i] EXCEPT !.items = Items(q)] = AbsQueues[i]
        BY <2>5 DEF AbsQueue
      <3> QED BY <2>4, <2>5, <3>1
    <2> QED BY <2>1, <2>6
  <1>4. CASE SendStatus(q, m) # "OK"
    <2>1. /\ s_queues' = s_queues /\ UNCHANGED <<s_pool_offset, cell>>
          /\ out' = <<"send", SendStatus(q, m)>>
      BY <1>1, <1>4 DEF SendStore
    <2>2. Services!Send(i, m)
      BY <1>0, <1>4, <2>1, AbsUnchanged, SendRefused
    <2> QED BY <1>0, <2>2 DEF Services!Next, AbsQueues, Handles
  <1> QED BY <1>3, <1>4

LEMMA SendCommitRefines ==
  ASSUME IInv, SendCommit
  PROVE  Services!Next
  <1>0. /\ QueueInv /\ CallInv /\ Len(AbsQueues) = Len(s_queues)
        /\ call.queue \in Handles /\ call.msg \in Messages
    BY CallFields, AbsQueuesAre DEF IInv, QueueInv, SendCommit, UsableQueue
  <1>1. PICK i \in Handles, m \in Messages : i = call.queue /\ m = call.msg
    BY <1>0
  <1> DEFINE q == s_queues[i]
  <1>2. PICK r \in Requests : QueueOK(q, r)
    BY <1>0, QueueTaken
  <1>3. SendStatus(q, m) = "OK" /\ q.buf[q.head % q.depth] = m
    BY <1>0, <1>1 DEF SendCommit, CallInv
  <1>4. q.count < q.depth
    BY <1>2, <1>3, QueueFields, RequestType DEF SendStatus, QueueOK
  <1>5. /\ s_queues' = [s_queues EXCEPT ![i] = Pushed(q)] /\ out' = <<"send", "OK">>
        /\ UNCHANGED <<s_pool_offset, cell>>
    BY <1>1 DEF SendCommit
  <1>6. QueueOK(Pushed(q), r) /\ Items(Pushed(q)) = Append(Items(q), m)
    BY <1>2, <1>3, <1>4, PushedKeeps, ItemsPushed
  <1>7. AbsQueues' = [AbsQueues EXCEPT ![i].items = Append(Items(q), m)]
    BY <1>0, <1>2, <1>5, <1>6, AbsChanged
  <1>8. Services!Send(i, m)
    BY <1>0, <1>3, <1>5, <1>7, SendTaken
  <1> QED BY <1>0, <1>8 DEF Services!Next, AbsQueues, Handles

LEMMA ReceiveLoadRefines ==
  ASSUME IInv, ReceiveLoad
  PROVE  Services!Next \/ UNCHANGED <<AbsQueues, s_pool_offset, cell, out>>
  <1>0. /\ QueueInv /\ Len(AbsQueues) = Len(s_queues)
        /\ call.queue \in Handles /\ call.room \in Rooms
    BY CallFields, AbsQueuesAre DEF IInv, QueueInv, ReceiveLoad, UsableQueue
  <1>1. PICK i \in Handles, room \in Rooms : i = call.queue /\ room = call.room
    BY <1>0
  <1>2. AbsQueues' = AbsQueues /\ UNCHANGED <<s_pool_offset, cell>>
    BY AbsUnchanged DEF ReceiveLoad, queueVars
  <1>3. CASE s_queues[i].count # 0
    BY <1>1, <1>2, <1>3 DEF ReceiveLoad
  <1>4. CASE s_queues[i].count = 0
    <2>1. out' = <<"receive", "NO_MORE_MSGS", Blank>>
      BY <1>1, <1>4 DEF ReceiveLoad
    <2>2. Services!Receive(i, room)
      BY <1>0, <1>2, <1>4, <2>1, ReceiveFindsNone
    <2> QED BY <1>0, <2>2 DEF Services!Next, AbsQueues, Handles
  <1> QED BY <1>3, <1>4

LEMMA ReceiveCommitRefines ==
  ASSUME IInv, ReceiveCommit
  PROVE  Services!Next
  <1>0. /\ QueueInv /\ CallInv /\ Len(AbsQueues) = Len(s_queues)
        /\ call.queue \in Handles /\ call.room \in Rooms
    BY CallFields, AbsQueuesAre DEF IInv, QueueInv, ReceiveCommit, UsableQueue
  <1>1. PICK i \in Handles, room \in Rooms : i = call.queue /\ room = call.room
    BY <1>0
  <1> DEFINE q == s_queues[i]
  <1>2. PICK r \in Requests : QueueOK(q, r)
    BY <1>0, QueueTaken
  <1>3. q.count # 0 /\ seen = Received(Oldest(q), room)
    BY <1>0, <1>1 DEF ReceiveCommit, CallInv
  <1>4. /\ s_queues' = [s_queues EXCEPT ![i] = Popped(q)]
        /\ out' = Received(Oldest(q), room) /\ UNCHANGED <<s_pool_offset, cell>>
    BY <1>1, <1>3 DEF ReceiveCommit
  <1>5. QueueOK(Popped(q), r) /\ Items(Popped(q)) = Tail(Items(q))
    BY <1>2, <1>3, PoppedKeeps, ItemsPopped
  <1>6. AbsQueues' = [AbsQueues EXCEPT ![i].items = Tail(Items(q))]
    BY <1>0, <1>2, <1>4, <1>5, AbsChanged
  <1>7. Services!Receive(i, room)
    BY <1>0, <1>3, <1>4, <1>6, ReceiveFinds
  <1> QED BY <1>0, <1>7 DEF Services!Next, AbsQueues, Handles

LEMMA AtomicCommitRefines ==
  ASSUME IInv, AtomicCommit
  PROVE  Services!Next
  <1>1. call.op \in AtomicOps /\ call.x \in Operands(call.op) /\ seen = cell
    BY CallFields DEF IInv, AtomicCommit, CallInv
  <1>2. \E o \in Services!AtomicOps : \E y \in Services!Operands(o) : Services!Update(o, y)
    BY <1>1, UpdateRefines DEF AtomicCommit
  <1> QED BY <1>2 DEF Services!Next

-----------------------------------------------------------------------------
(* The handlers' calls. *)

LEMMA HandlerSendRefines ==
  ASSUME IInv, NEW i \in Handles, NEW m \in Messages, HandlerSend(i, m)
  PROVE  Services!Send(i, m)
  <1> DEFINE q == s_queues[i]
             p == Stored(q, m)
  <1>0. QueueInv
    BY DEF IInv, QueueInv
  <1>1. PICK r \in Requests : QueueOK(q, r)
    BY <1>0, QueueTaken
  <1>2. UNCHANGED <<s_pool_offset, cell>> /\ out' = <<"send", SendStatus(q, m)>>
    BY DEF HandlerSend
  <1>3. CASE SendStatus(q, m) = "OK"
    <2>1. /\ QueueOK(p, r) /\ p.count = q.count /\ p.head = q.head
          /\ p.buf = [q.buf EXCEPT ![q.head % q.depth] = m]
          /\ q.head % q.depth \in 0 .. (q.depth - 1)
      BY <1>1, StoredKeeps
    <2>2. /\ q.depth = r.depth /\ q.count < q.depth
          /\ q.buf \in [0 .. (r.depth - 1) -> Messages \cup {Blank}]
      BY <1>1, <1>3, QueueFields, RequestType DEF SendStatus, QueueOK
    <2>3. p.depth = r.depth
      <3> HIDE DEF p
      <3> QED BY <2>1, QueueFields DEF QueueOK
    <2>4. p.buf[p.head % p.depth] = m /\ p.count < p.depth
      BY <2>1, <2>2, <2>3
    <2>5. Items(p) = Items(q)
      BY <1>1, <2>2, ItemsStored
    <2>6. QueueOK(Pushed(p), r) /\ Items(Pushed(p)) = Append(Items(q), m)
      <3> HIDE DEF p
      <3> QED BY <2>1, <2>4, <2>5, PushedKeeps, ItemsPushed
    <2>7. s_queues' = [s_queues EXCEPT ![i] = Pushed(p)]
      BY <1>3 DEF HandlerSend
    <2>8. AbsQueues' = [AbsQueues EXCEPT ![i].items = Append(Items(q), m)]
      BY <1>0, <1>1, <2>6, <2>7, AbsChanged
    <2> QED BY <1>0, <1>2, <1>3, <2>8, SendTaken
  <1>4. CASE SendStatus(q, m) # "OK"
    <2>1. s_queues' = s_queues
      BY <1>4 DEF HandlerSend
    <2> QED BY <1>0, <1>2, <1>4, <2>1, AbsUnchanged, SendRefused
  <1> QED BY <1>3, <1>4

LEMMA HandlerReceiveRefines ==
  ASSUME IInv, NEW i \in Handles, NEW room \in Rooms, HandlerReceive(i, room)
  PROVE  Services!Receive(i, room)
  <1> DEFINE q == s_queues[i]
  <1>0. QueueInv
    BY DEF IInv, QueueInv
  <1>1. PICK r \in Requests : QueueOK(q, r)
    BY <1>0, QueueTaken
  <1>2. UNCHANGED <<s_pool_offset, cell>>
    BY DEF HandlerReceive
  <1>3. CASE q.count # 0
    <2>1. /\ out' = Received(Oldest(q), room)
          /\ s_queues' = [s_queues EXCEPT ![i] = Popped(q)]
      BY <1>3 DEF HandlerReceive
    <2>2. QueueOK(Popped(q), r) /\ Items(Popped(q)) = Tail(Items(q))
      BY <1>1, <1>3, PoppedKeeps, ItemsPopped
    <2>3. AbsQueues' = [AbsQueues EXCEPT ![i].items = Tail(Items(q))]
      BY <1>0, <1>1, <2>1, <2>2, AbsChanged
    <2> QED BY <1>0, <1>2, <1>3, <2>1, <2>3, ReceiveFinds
  <1>4. CASE q.count = 0
    <2>1. s_queues' = s_queues /\ out' = <<"receive", "NO_MORE_MSGS", Blank>>
      BY <1>4 DEF HandlerReceive
    <2> QED BY <1>0, <1>2, <1>4, <2>1, AbsUnchanged, ReceiveFindsNone
  <1> QED BY <1>3, <1>4

-----------------------------------------------------------------------------
LEMMA InitRefines == Init => Services!Init
  <1> SUFFICES ASSUME Init PROVE Services!Init
    OBVIOUS
  <1>1. Handles = {}
    BY DEF Init, Handles
  <1>2. AbsQueues = <<>>
    BY <1>1 DEF AbsQueues
  <1> QED BY <1>2 DEF Init, Services!Init, AbsQueues

LEMMA StepRefines ==
  ASSUME IInv, [Next]_vars
  PROVE  Services!Next \/ UNCHANGED <<AbsQueues, s_pool_offset, cell, out>>
  <1>0. QueueInv /\ Len(AbsQueues) = Len(s_queues)
    BY AbsQueuesAre DEF IInv, QueueInv
  <1>1. ASSUME NEW r \in Requests, Create(r) PROVE Services!Next
    BY <1>0, <1>1, CreateRefines DEF Services!Next
  <1>2. CASE \/ \E i \in Handles : \/ \E m \in Messages : BeginSend(i, m)
                                   \/ \E room \in Rooms : BeginReceive(i, room)
             \/ \E op \in AtomicOps : \E x \in Operands(op) : BeginUpdate(op, x)
    BY <1>2, AbsUnchanged DEF BeginSend, BeginReceive, BeginUpdate, Begin, queueVars
  <1>3. CASE Mask \/ AtomicLoad \/ Restore \/ LockBegin \/ LockMask \/ LockNested \/ UnLock
    BY <1>3, AbsUnchanged DEF Mask, AtomicLoad, Restore, LockBegin, LockMask, LockNested,
                              UnLock, queueVars
  <1>4. CASE SendStore \/ SendCommit \/ ReceiveLoad \/ ReceiveCommit \/ AtomicCommit
    BY <1>4, SendStoreRefines, SendCommitRefines, ReceiveLoadRefines, ReceiveCommitRefines,
       AtomicCommitRefines
  <1>5. CASE Handler
    <2>1. ASSUME NEW i \in Handles, NEW m \in Messages, HandlerSend(i, m)
          PROVE  Services!Next
      BY <1>0, <2>1, HandlerSendRefines DEF Services!Next, AbsQueues, Handles
    <2>2. ASSUME NEW i \in Handles, NEW room \in Rooms, HandlerReceive(i, room)
          PROVE  Services!Next
      BY <1>0, <2>2, HandlerReceiveRefines DEF Services!Next, AbsQueues, Handles
    <2>3. ASSUME NEW op \in AtomicOps, NEW x \in Operands(op), HandlerUpdate(op, x)
          PROVE  Services!Next
      <3>1. \E o \in Services!AtomicOps : \E y \in Services!Operands(o) :
                Services!Update(o, y)
        BY <2>3, UpdateRefines DEF HandlerUpdate
      <3> QED BY <3>1 DEF Services!Next
    <2>4. CASE HandlerLocks
      BY <2>4, AbsUnchanged DEF HandlerLocks, queueVars
    <2> QED BY <1>5, <2>1, <2>2, <2>3, <2>4 DEF Handler
  <1>6. CASE \E i \in Handles : AssertHandle(i)
    BY <1>6, AbsUnchanged DEF AssertHandle, queueVars
  <1>7. CASE UNCHANGED vars
    BY <1>7, AbsUnchanged DEF vars, queueVars
  <1> QED BY <1>1, <1>2, <1>3, <1>4, <1>5, <1>6, <1>7 DEF Next, Thread

(* Whoever calls, and wherever a handler comes between, the queues are the *)
(* bounded FIFOs of OsServices and the builtins its atomic operations.     *)
THEOREM LayerImplementsServices == Spec => ImplementsOsServices
  <1>1. Init => Services!Init
    BY InitRefines
  <1>2. IInv /\ [Next]_vars => [Services!Next]_(Services!osVars)
    BY StepRefines DEF Services!osVars, AbsQueues
  <1> QED BY <1>1, <1>2, OsInvariant, PTL DEF Spec, ImplementsOsServices, Services!Spec
=============================================================================
