------------------------------ MODULE ShmQueue ------------------------------
(***************************************************************************)
(* soc_shm_lock_free_queue: the ring through which a dispatcher core and a *)
(* worker core of one component block hand buffers to each other. One core *)
(* produces and owns tail_, the other consumes and owns head_; each access *)
(* to shared memory is a step of its own.                                  *)
(*                                                                         *)
(* The consumer is one of the two of SoCWrapper: it asks for get_size()    *)
(* and then calls dequeue() that many times, without looking at the result.*)
(* The worker loop of __launch does so once more than a batch is queued,   *)
(* __collect_tx_pkts whenever something is. (That the transmit queue has   *)
(* room for all of it is a matter of SocDatapath.)                         *)
(***************************************************************************)
EXTENDS Integers, Sequences

CONSTANTS
  Size,       \* kWsQueueSize
  Buffers,    \* the pointers that are enqueued
  Null,       \* nullptr
  Threshold,  \* the size above which the consumer starts: kAppRxMsgBatchSize
              \* for the worker, 0 for __collect_tx_pkts
  Ordered     \* whether the producer's two stores become visible in the order
              \* in which it issues them. There is no barrier between them and
              \* only tail_ is volatile, the slot is not: FALSE is what an ARM
              \* core of the NIC, or a compiler, may make of it.

ASSUME QueueAssumption ==
  /\ Size \in Nat \ {0}
  /\ Null \notin Buffers
  /\ Threshold \in Nat
  /\ Ordered \in BOOLEAN

VARIABLES
  queue,      \* queue_
  head, tail, \* head_, tail_
  storing,    \* the producer's stores that are not visible yet
  pkt,        \* enqueue's argument
  cpc,        \* consumer: what it does next
  todo,       \* consumer: dequeues still to do of the size it read
  got,        \* consumer: the slot's value, inside dequeue
  ret         \* consumer: the result of the last dequeue

producer_vars == <<queue, tail, storing, pkt>>
consumer_vars == <<head, cpc, todo, got, ret>>
vars == <<producer_vars, consumer_vars>>

Slots == 0 .. Size - 1
Succ(i) == (i + 1) % Size

Init ==
  /\ queue = [i \in Slots |-> Null]
  /\ head = 0
  /\ tail = 0
  /\ storing = {}
  /\ pkt = Null
  /\ cpc = "idle"
  /\ todo = 0
  /\ got = Null
  /\ ret = Null

----------------------------------------------------------------------------
(* Plausible slips; see the note of the same name in SocDatapath. *)

Bug_RingFullNever == FALSE
Bug_MayPublishFirst == TRUE
Bug_QueueSizeCountsOneMore == ((tail - head) % Size) + 1
Bug_LoopDueLate(n) == n > Threshold + 1

----------------------------------------------------------------------------
(* The producer. *)

RingFull == Succ(tail) = head

\* enqueue(p), up to its test: a full queue refuses the packet.
Enqueue(p) ==
  /\ storing = {}
  /\ IF RingFull
     THEN UNCHANGED <<storing, pkt>>
     ELSE storing' = {"slot", "tail"} /\ pkt' = p
  /\ UNCHANGED <<queue, tail, consumer_vars>>

\* tail_ is only owned by the producer; the slot it stores to is the one that
\* was the tail when enqueue began.
StoreSlot ==
  /\ "slot" \in storing
  /\ queue' = [queue EXCEPT ![IF "tail" \in storing THEN tail ELSE (tail - 1) % Size] = pkt]
  /\ storing' = storing \ {"slot"}
  /\ UNCHANGED <<tail, pkt, consumer_vars>>

MayPublish == Ordered => "slot" \notin storing

StoreTail ==
  /\ "tail" \in storing
  /\ MayPublish
  /\ tail' = Succ(tail)
  /\ storing' = storing \ {"tail"}
  /\ UNCHANGED <<queue, pkt, consumer_vars>>

Producer == (\E p \in Buffers : Enqueue(p)) \/ StoreSlot \/ StoreTail

----------------------------------------------------------------------------
(* The consumer. *)

QueueSize == (tail - head) % Size

LoopDue(n) == n > Threshold

\* get_size(), as the bound of a loop of dequeues.
GetSize ==
  /\ cpc = "idle"
  /\ IF LoopDue(QueueSize)
     THEN todo' = QueueSize /\ cpc' = "test"
     ELSE UNCHANGED <<todo, cpc>>
  /\ UNCHANGED <<head, got, ret, producer_vars>>

\* The next turn of the loop, if there is one.
NextTurn ==
  /\ todo' = todo - 1
  /\ cpc' = IF todo > 1 THEN "test" ELSE "idle"

\* dequeue(): an empty queue yields nullptr ...
TestEmpty ==
  /\ cpc = "test"
  /\ IF head = tail
     THEN ret' = Null /\ NextTurn
     ELSE cpc' = "load" /\ UNCHANGED <<todo, ret>>
  /\ UNCHANGED <<head, got, producer_vars>>

\* ... any other the value in the slot at head_, ...
LoadSlot ==
  /\ cpc = "load"
  /\ got' = queue[head]
  /\ cpc' = "advance"
  /\ UNCHANGED <<head, todo, ret, producer_vars>>

\* ... after which the slot is the producer's again.
StoreHead ==
  /\ cpc = "advance"
  /\ head' = Succ(head)
  /\ ret' = got
  /\ NextTurn
  /\ UNCHANGED <<got, producer_vars>>

Consumer == GetSize \/ TestEmpty \/ LoadSlot \/ StoreHead

----------------------------------------------------------------------------
Next == Producer \/ Consumer

Spec == Init /\ [][Next]_vars

\* Each core runs on, and what it stores is visible eventually. The producer
\* need never enqueue anything.
FairSpec ==
  Spec /\ WF_vars(Consumer) /\ WF_vars(StoreSlot) /\ WF_vars(StoreTail)

----------------------------------------------------------------------------
\* The ranges of the queue's indices; a size is never read as the full ring.
TypeOK ==
  /\ queue \in [Slots -> Buffers \cup {Null}]
  /\ head \in Slots
  /\ tail \in Slots
  /\ storing \in SUBSET {"slot", "tail"}
  /\ pkt \in Buffers \cup {Null}
  /\ cpc \in {"idle", "test", "load", "advance"}
  /\ todo \in 0 .. Size - 1
  /\ got \in Buffers \cup {Null}
  /\ ret \in Buffers \cup {Null}

\* The size read by get_size stays a lower bound of what is in the queue, so
\* that no dequeue of the loop finds it empty: its callers would take the
\* nullptr for a packet.
SizeIsKept == todo <= QueueSize

\* The consumer does not load a slot whose content the producer has still to
\* store; otherwise it would take a pointer of an earlier lap, of a buffer
\* that somebody else owns by now.
LoadsAfterStore ==
  cpc = "load" => ~("slot" \in storing /\ "tail" \notin storing /\ Succ(head) = tail)

\* As long as more than the consumer's threshold is queued, the oldest packet
\* does not stay. (Up to kAppRxMsgBatchSize packets do stay with the worker for
\* as long as no others come; __collect_tx_pkts leaves none.)
Drains ==
  \A i \in Slots : head = i /\ (tail - head) % Size > Threshold ~> head # i

----------------------------------------------------------------------------
Fifo == INSTANCE BoundedFifo WITH
  Elements <- Buffers, Capacity <- Size - 1, out <- ret,
  fifo <- [i \in 1 .. QueueSize |-> queue[(head + i - 1) % Size]]

\* The ring implements a FIFO of Size - 1 elements: nothing is overwritten
\* before it is read, read twice, or skipped, at any interleaving of the two
\* cores.
FifoSpec == Fifo!Spec
=============================================================================
