--------------------------- MODULE ShmQueueProofs ---------------------------
(***************************************************************************)
(* Theorems about the worker queue, for rings of any size: the size the    *)
(* consumer reads stays covered, and, where the producer's stores become   *)
(* visible in program order, the ring implements a bounded FIFO.           *)
(***************************************************************************)
EXTENDS ShmQueue, Arithmetic, SequenceTheorems

----------------------------------------------------------------------------
(* The number of elements, and how the two ends move.                      *)

\* A position on the ring is an index of the array.
LEMMA SuccType ==
  ASSUME NEW i \in Slots
  PROVE  Succ(i) \in Slots
<1>1. Size \in Nat \ {0} /\ i + 1 \in Int
  BY QueueAssumption DEF Slots
<1> QED
  BY <1>1, ModInRange DEF Succ, Slots

\* get_size is at most Size - 1, and tells how far tail_ is from head_.
LEMMA SizeOf ==
  ASSUME NEW h \in Slots, NEW t \in Slots
  PROVE  /\ (t - h) % Size \in 0 .. Size - 1
         /\ (h + ((t - h) % Size)) % Size = t
         /\ (t - h) % Size = 0 <=> t = h
<1>1. Size \in Nat \ {0} /\ h \in Int /\ t \in Int /\ t - h \in Int
  BY QueueAssumption DEF Slots
<1>2. (t - h) % Size \in 0 .. Size - 1
  BY <1>1, ModInRange
<1>3. (((t - h) % Size) + h) % Size = (t - h + h) % Size
  BY <1>1, ModAdd
<1>4. t - h + h = t /\ t % Size = t /\ h % Size = h
  BY <1>1, ModSmall DEF Slots
<1>5. (h + ((t - h) % Size)) % Size = t
  BY <1>1, <1>2, <1>3, <1>4
<1>6. ASSUME (t - h) % Size = 0
      PROVE  t = h
  BY <1>1, <1>4, <1>5, <1>6
<1>7. ASSUME t = h
      PROVE  (t - h) % Size = 0
  BY <1>1, <1>7, ModSmall
<1> QED
  BY <1>2, <1>5, <1>6, <1>7

\* Storing tail_ adds one element, if the ring was not full.
LEMMA TailGrows ==
  ASSUME NEW h \in Slots, NEW t \in Slots, Succ(t) # h
  PROVE  /\ (Succ(t) - h) % Size = ((t - h) % Size) + 1
         /\ (t - h) % Size < Size - 1
<1>1. /\ Size \in Nat \ {0} /\ h \in Int /\ t \in Int
      /\ t - h \in Int /\ t + 1 \in Int /\ -h \in Int /\ 1 \in Int
  BY QueueAssumption DEF Slots
<1> DEFINE k == (t - h) % Size
<1>2. k \in 0 .. Size - 1 /\ (h + k) % Size = t
  BY SizeOf
<1>3. (Succ(t) - h) % Size = (k + 1) % Size
  <2>1. (((t + 1) % Size) + (-h)) % Size = (t + 1 + (-h)) % Size
    BY <1>1, ModAdd, Zenon
  <2>2. (k + 1) % Size = (t - h + 1) % Size
    BY <1>1, ModAdd, Zenon
  <2>3. t + 1 + (-h) = t - h + 1 /\ ((t + 1) % Size) + (-h) = Succ(t) - h
    BY <1>1 DEF Succ
  <2> QED
    BY <2>1, <2>2, <2>3
<1> HIDE DEF k
<1>4. k < Size - 1
  <2> SUFFICES ASSUME k = Size - 1
               PROVE  FALSE
    BY <1>1, <1>2
  <2>1. (k + 1) % Size = 0
    <3>1. k + 1 = 0 + Size /\ 0 % Size = 0
      BY <1>1, <1>2, ModSmall
    <3> QED
      BY <1>1, <3>1, ModTurn
  <2>2. (Succ(t) - h) % Size = 0
    BY <1>3, <2>1
  <2> QED
    BY <2>2, SizeOf, SuccType
<1>5. (k + 1) % Size = k + 1
  BY <1>1, <1>2, <1>4, ModSmall
<1> QED
  BY <1>3, <1>4, <1>5 DEF k

\* Storing head_ takes one element away, if there was one.
LEMMA HeadShrinks ==
  ASSUME NEW h \in Slots, NEW t \in Slots, t # h
  PROVE  (t - Succ(h)) % Size = ((t - h) % Size) - 1
<1>1. /\ Size \in Nat \ {0} /\ h \in Int /\ t \in Int
      /\ t - h \in Int /\ h + 1 \in Int /\ 0 \in Int /\ -1 \in Int
  BY QueueAssumption DEF Slots
<1> DEFINE k == (t - h) % Size
<1>2. k \in 1 .. Size - 1
  BY <1>1, SizeOf
<1>3. Succ(h) = h + 1 \/ Succ(h) = h + 1 - Size
  <2>1. CASE h + 1 < Size
    BY <1>1, <2>1, ModSmall DEF Succ, Slots
  <2>2. CASE h + 1 = Size
    <3>1. h + 1 = 0 + Size /\ 0 % Size = 0
      BY <1>1, <2>2, ModSmall
    <3>2. (0 + Size) % Size = 0 % Size
      BY <1>1, ModTurn, Zenon
    <3>3. Succ(h) = 0
      BY <3>1, <3>2 DEF Succ
    <3> QED
      BY <1>1, <2>2, <3>3
  <2> QED
    BY <1>1, <2>1, <2>2 DEF Slots
<1>4. (t - Succ(h)) % Size = (t - h - 1) % Size
  <2>1. CASE Succ(h) = h + 1
    BY <1>1, <2>1
  <2>2. CASE Succ(h) = h + 1 - Size
    <3>1. t - Succ(h) = (t - h - 1) + Size /\ t - h - 1 \in Int
      BY <1>1, <2>2
    <3> QED
      BY <1>1, <3>1, ModTurn
  <2> QED
    BY <1>3, <2>1, <2>2
<1>5. (t - h - 1) % Size = (k + (-1)) % Size
  <2>1. (k + (-1)) % Size = (t - h + (-1)) % Size
    BY <1>1, ModAdd, Zenon
  <2> QED
    BY <1>1, <2>1
<1> HIDE DEF k
<1>6. (k + (-1)) % Size = k - 1
  <2>1. k + (-1) = k - 1 /\ k - 1 \in 0 .. Size - 1
    BY <1>1, <1>2
  <2> QED
    BY <1>1, <2>1, ModSmall
<1> QED
  BY <1>4, <1>5, <1>6 DEF k

\* Different entries have different successors.
LEMMA SuccInjective ==
  ASSUME NEW h \in Slots, NEW t \in Slots, Succ(t) = Succ(h)
  PROVE  t = h
<1>1. Size \in Nat \ {0} /\ h \in Int /\ t \in Int /\ h + 1 \in Int /\ t + 1 \in Int
  BY QueueAssumption DEF Slots
<1>2. (t + 1) - (h + 1) < Size /\ (h + 1) - (t + 1) < Size
  BY <1>1 DEF Slots
<1>3. t + 1 = h + 1
  <2>1. (t + 1) % Size = (h + 1) % Size
    BY DEF Succ
  <2> QED
    BY <1>1, <1>2, <2>1, ModInjective, Zenon
<1> QED
  BY <1>1, <1>3

----------------------------------------------------------------------------
(* The size read by the consumer.                                          *)

\* A dequeue is under way only on account of a size that was read; a full ring
\* is not enqueued to.
Covered ==
  /\ cpc # "idle" => todo >= 1
  /\ "tail" \in storing => Succ(tail) # head

QueueInv == TypeOK /\ Covered /\ SizeIsKept

\* The empty ring has nothing to dequeue.
LEMMA QueueInit == Init => QueueInv
<1> SUFFICES ASSUME Init
             PROVE  QueueInv
  OBVIOUS
<1>1. Size \in Nat \ {0} /\ 0 \in Slots
  BY QueueAssumption DEF Slots
<1>2. QueueSize \in 0 .. Size - 1
  BY <1>1, SizeOf DEF Init, QueueSize
<1>3. TypeOK
  BY <1>1 DEF Init, TypeOK
<1>4. Covered
  BY DEF Init, Covered
<1>5. SizeIsKept
  BY <1>2 DEF Init, SizeIsKept
<1> QED
  BY <1>3, <1>4, <1>5 DEF QueueInv

\* What is read of the ring between two steps, in numbers.
LEMMA QueueFacts ==
  ASSUME QueueInv
  PROVE  /\ Size \in Nat \ {0}
         /\ head \in Slots /\ tail \in Slots
         /\ QueueSize \in 0 .. Size - 1
         /\ todo \in 0 .. Size - 1
         /\ cpc # "idle" => head # tail
<1>1. Size \in Nat \ {0} /\ head \in Slots /\ tail \in Slots /\ todo \in 0 .. Size - 1
  BY QueueAssumption DEF QueueInv, TypeOK
<1>2. QueueSize \in 0 .. Size - 1 /\ (QueueSize = 0 <=> tail = head)
  BY <1>1, SizeOf DEF QueueSize
<1>3. ASSUME cpc # "idle"
      PROVE  head # tail
  BY <1>1, <1>2, <1>3 DEF QueueInv, Covered, SizeIsKept
<1> QED
  BY <1>1, <1>2, <1>3

\* Every step of either core preserves the invariant.
LEMMA QueueStep == QueueInv /\ [Next]_vars => QueueInv'
<1> SUFFICES ASSUME QueueInv, [Next]_vars
             PROVE  QueueInv'
  OBVIOUS
<1> USE DEF producer_vars, consumer_vars
<1>f. /\ Size \in Nat \ {0} /\ head \in Slots /\ tail \in Slots
      /\ QueueSize \in 0 .. Size - 1 /\ todo \in 0 .. Size - 1
      /\ cpc # "idle" => head # tail
  BY QueueFacts
<1>t. TypeOK /\ Covered /\ SizeIsKept
  BY DEF QueueInv
<1>1. ASSUME NEW p \in Buffers, Enqueue(p)
      PROVE  QueueInv'
  BY <1>1, <1>t DEF Enqueue, RingFull, QueueInv, TypeOK, Covered, SizeIsKept, QueueSize
<1>2. CASE StoreSlot
  <2>1. (tail - 1) % Size \in Slots /\ tail \in Slots
    <3>1. tail - 1 \in Int
      BY <1>f DEF Slots
    <3> QED
      BY <1>f, <3>1, ModInRange DEF Slots
  <2>2. queue' \in [Slots -> Buffers \cup {Null}]
    BY <1>2, <1>t, <2>1 DEF StoreSlot, TypeOK
  <2>3. TypeOK'
    BY <1>2, <1>t, <2>2 DEF StoreSlot, TypeOK
  <2>4. Covered' /\ SizeIsKept'
    BY <1>2, <1>t DEF StoreSlot, Covered, SizeIsKept, QueueSize
  <2> QED
    BY <2>3, <2>4 DEF QueueInv
<1>3. CASE StoreTail
  <2>1. Succ(tail) \in Slots
    BY <1>f, SuccType
  <2>2. TypeOK'
    BY <1>3, <1>t, <2>1 DEF StoreTail, TypeOK
  <2>3. QueueSize' = QueueSize + 1
    BY <1>3, <1>t, <1>f, TailGrows DEF StoreTail, Covered, QueueSize
  <2>4. Covered'
    BY <1>3, <1>t DEF StoreTail, Covered
  <2>5. SizeIsKept'
    BY <1>3, <1>t, <1>f, <2>3 DEF StoreTail, SizeIsKept
  <2> QED
    BY <2>2, <2>4, <2>5 DEF QueueInv
<1>4. CASE GetSize
  <2>1. QueueSize' = QueueSize
    BY <1>4 DEF GetSize, QueueSize
  <2>2. CASE LoopDue(QueueSize)
    <3>1. todo' = QueueSize /\ cpc' = "test"
      BY <1>4, <2>2 DEF GetSize
    <3>2. QueueSize > 0
      BY <1>f, <2>2, QueueAssumption DEF LoopDue
    <3> QED
      BY <1>4, <1>t, <1>f, <2>1, <3>1, <3>2
         DEF GetSize, QueueInv, TypeOK, Covered, SizeIsKept
  <2>3. CASE ~LoopDue(QueueSize)
    <3>1. UNCHANGED <<todo, cpc>>
      BY <1>4, <2>3 DEF GetSize
    <3> QED
      BY <1>4, <1>t, <1>f, <2>1, <3>1
         DEF GetSize, QueueInv, TypeOK, Covered, SizeIsKept
  <2> QED
    BY <2>2, <2>3
<1>5. CASE TestEmpty
  <2>1. cpc' = "load" /\ cpc = "test" /\ UNCHANGED <<todo, ret, head, got, queue, tail, storing, pkt>>
    BY <1>5, <1>f DEF TestEmpty
  <2>2. QueueSize' = QueueSize
    BY <2>1 DEF QueueSize
  <2> QED
    BY <2>1, <1>t, <2>2 DEF QueueInv, TypeOK, Covered, SizeIsKept
<1>6. CASE LoadSlot
  <2>1. queue[head] \in Buffers \cup {Null}
    BY <1>t, <1>f DEF TypeOK
  <2>2. QueueSize' = QueueSize
    BY <1>6 DEF LoadSlot, QueueSize
  <2> QED
    BY <1>6, <1>t, <2>1, <2>2 DEF LoadSlot, QueueInv, TypeOK, Covered, SizeIsKept
<1>7. CASE StoreHead
  <2>1. Succ(head) \in Slots /\ head # tail /\ todo >= 1
    BY <1>7, <1>f, <1>t, SuccType DEF StoreHead, Covered
  <2>2. TypeOK'
    BY <1>7, <1>t, <1>f, <2>1 DEF StoreHead, NextTurn, TypeOK
  <2>3. QueueSize' = QueueSize - 1
    BY <1>7, <1>f, <2>1, HeadShrinks DEF StoreHead, QueueSize
  <2>4. "tail" \in storing' => Succ(tail') # head'
    BY <1>7, <1>f, <2>1, SuccInjective DEF StoreHead
  <2>5. cpc' # "idle" => todo' >= 1
    BY <1>7, <1>f DEF StoreHead, NextTurn
  <2>6. SizeIsKept'
    BY <1>7, <1>t, <1>f, <2>3 DEF StoreHead, NextTurn, SizeIsKept
  <2> QED
    BY <2>2, <2>4, <2>5, <2>6 DEF QueueInv, Covered
<1>8. CASE UNCHANGED vars
  BY <1>8, <1>t DEF vars, QueueInv, TypeOK, Covered, SizeIsKept, QueueSize
<1> QED
  BY <1>1, <1>2, <1>3, <1>4, <1>5, <1>6, <1>7, <1>8 DEF Next, Producer, Consumer

\* The invariant holds throughout.
LEMMA QueueInvariant == Spec => []QueueInv
  BY QueueInit, QueueStep, PTL DEF Spec

\* The indices of the queue stay on the ring and the size read by get_size is
\* never the whole ring, for a queue of any size and whatever the order in
\* which the producer's stores become visible.
THEOREM QueueTypeCorrect == Spec => []TypeOK
<1>1. QueueInv => TypeOK
  BY DEF QueueInv
<1> QED
  BY <1>1, QueueInvariant, PTL

\* The size read by get_size stays a lower bound of what is in the queue while
\* the consumer works it off: no dequeue of its loop returns nullptr. Holds
\* even if the producer's stores are reordered.
THEOREM SizeAlwaysKept == Spec => []SizeIsKept
<1>1. QueueInv => SizeIsKept
  BY DEF QueueInv
<1> QED
  BY <1>1, QueueInvariant, PTL

----------------------------------------------------------------------------
(* The ring is a FIFO.                                                     *)

\* What the queue holds, oldest first: the abstract queue of Fifo.
InQueue == [i \in 1 .. QueueSize |-> queue[(head + i - 1) % Size]]

\* With ordered stores the slot is written before the tail moves over it, and
\* what a dequeue has loaded is still what the slot holds.
Published ==
  /\ "slot" \in storing => "tail" \in storing
  /\ storing # {} => pkt \in Buffers
  /\ storing = {"tail"} => queue[tail] = pkt
  /\ cpc = "advance" => got = queue[head]

\* The slot at tail_ is none of those the consumer may read.
LEMMA TailIsFree ==
  ASSUME QueueInv, NEW i \in 1 .. QueueSize
  PROVE  /\ (head + i - 1) % Size \in Slots
         /\ (head + i - 1) % Size # tail
<1>1. /\ Size \in Nat \ {0} /\ head \in Slots /\ tail \in Slots
      /\ QueueSize \in 0 .. Size - 1
  BY QueueFacts
<1>2. (head + QueueSize) % Size = tail
  BY <1>1, SizeOf DEF QueueSize
<1>3. /\ head + i - 1 \in Int /\ head + QueueSize \in Int
      /\ (head + i - 1) - (head + QueueSize) < Size
      /\ (head + QueueSize) - (head + i - 1) < Size
      /\ head + i - 1 # head + QueueSize
  BY <1>1 DEF Slots
<1>4. (head + i - 1) % Size \in Slots
  BY <1>1, <1>3, ModInRange DEF Slots
<1>5. (head + i - 1) % Size # (head + QueueSize) % Size
  BY <1>1, <1>3, ModInjective, Zenon
<1> QED
  BY <1>2, <1>4, <1>5

\* The publication order is preserved.
LEMMA PublishedStep ==
  ASSUME QueueInv, Published, Ordered, [Next]_vars
  PROVE  Published'
<1> USE DEF producer_vars, consumer_vars
<1>f. /\ Size \in Nat \ {0} /\ head \in Slots /\ tail \in Slots
      /\ QueueSize \in 0 .. Size - 1 /\ todo \in 0 .. Size - 1
      /\ cpc # "idle" => head # tail
      /\ queue \in [Slots -> Buffers \cup {Null}]
      /\ storing \in SUBSET {"slot", "tail"}
  BY QueueFacts DEF QueueInv, TypeOK
<1>1. ASSUME NEW p \in Buffers, Enqueue(p)
      PROVE  Published'
  BY <1>1, <1>f DEF Enqueue, RingFull, Published
<1>2. CASE StoreSlot
  <2>1. "tail" \in storing /\ queue' = [queue EXCEPT ![tail] = pkt]
    BY <1>2 DEF StoreSlot, Published
  <2>2. queue'[tail] = pkt /\ (cpc = "advance" => queue'[head] = queue[head])
    BY <1>f, <2>1
  <2> QED
    BY <1>2, <2>1, <2>2, <1>f DEF StoreSlot, Published
<1>3. CASE StoreTail
  BY <1>3, <1>f DEF StoreTail, MayPublish, Published
<1>4. CASE GetSize
  BY <1>4, <1>f DEF GetSize, Published
<1>5. CASE TestEmpty
  BY <1>5, <1>f DEF TestEmpty, NextTurn, Published
<1>6. CASE LoadSlot
  BY <1>6, <1>f DEF LoadSlot, Published
<1>7. CASE StoreHead
  BY <1>7, <1>f DEF StoreHead, NextTurn, Published
<1>8. CASE UNCHANGED vars
  BY <1>8 DEF vars, Published
<1> QED
  BY <1>1, <1>2, <1>3, <1>4, <1>5, <1>6, <1>7, <1>8 DEF Next, Producer, Consumer

\* Storing tail_ appends the packet that was stored to the slot.
LEMMA StoreTailAppends ==
  ASSUME QueueInv, Published, Ordered, StoreTail
  PROVE  /\ Len(InQueue) < Size - 1
         /\ pkt \in Buffers
         /\ InQueue' = Append(InQueue, pkt)
<1> USE DEF producer_vars, consumer_vars
<1>f. /\ Size \in Nat \ {0} /\ head \in Slots /\ tail \in Slots
      /\ QueueSize \in 0 .. Size - 1
      /\ queue \in [Slots -> Buffers \cup {Null}]
  BY QueueFacts DEF QueueInv, TypeOK
<1>1. storing = {"tail"} /\ queue[tail] = pkt /\ pkt \in Buffers /\ Succ(tail) # head
      /\ UNCHANGED <<queue, head>>
  BY DEF StoreTail, MayPublish, Published, QueueInv, TypeOK, Covered
<1>2. QueueSize' = QueueSize + 1 /\ QueueSize < Size - 1
  BY <1>1, <1>f, TailGrows DEF StoreTail, QueueSize
<1>3. (head + QueueSize) % Size = tail
  BY <1>f, SizeOf DEF QueueSize
<1>4. InQueue' = [i \in 1 .. QueueSize + 1 |-> queue[(head + i - 1) % Size]]
  BY <1>1, <1>2 DEF InQueue
<1> DEFINE n == QueueSize
           e(i) == queue[(head + i - 1) % Size]
           S == Buffers \cup {Null}
<1>5. \A i \in 1 .. n : e(i) \in S
  BY <1>f, TailIsFree
<1>6. n \in Nat /\ head \in Int
  BY <1>f DEF Slots
<1>7. e(n + 1) = pkt
  BY <1>1, <1>3, <1>6
<1>8. [i \in 1 .. n + 1 |-> e(i)] = Append([i \in 1 .. n |-> e(i)], pkt)
  <2> HIDE DEF n, e, S
  <2>1. [i \in 1 .. n |-> e(i)] \in Seq(S) /\ Len([i \in 1 .. n |-> e(i)]) = n
    BY <1>5, <1>6
  <2> QED
    BY <1>1, <1>5, <1>6, <1>7, <2>1 DEF S
<1>9. Len(InQueue) = n
  BY <1>6 DEF InQueue
<1> QED
  BY <1>1, <1>2, <1>4, <1>8, <1>9 DEF InQueue

\* Storing head_ removes the oldest element, which is the one returned.
LEMMA StoreHeadRemoves ==
  ASSUME QueueInv, Published, StoreHead
  PROVE  /\ InQueue # << >>
         /\ ret' = Head(InQueue)
         /\ InQueue' = Tail(InQueue)
<1> USE DEF producer_vars, consumer_vars
<1>f. /\ Size \in Nat \ {0} /\ head \in Slots /\ tail \in Slots
      /\ QueueSize \in 0 .. Size - 1
      /\ queue \in [Slots -> Buffers \cup {Null}]
      /\ head # tail
  BY QueueFacts DEF QueueInv, TypeOK, StoreHead
<1>1. /\ head' = Succ(head) /\ UNCHANGED <<queue, tail>>
      /\ ret' = queue[head]
  BY DEF StoreHead, Published
<1>2. QueueSize' = QueueSize - 1 /\ QueueSize \in Nat /\ QueueSize >= 1
  BY <1>1, <1>f, HeadShrinks, SizeOf DEF QueueSize
<1> DEFINE n == QueueSize
           e(i) == queue[(head + i - 1) % Size]
           S == Buffers \cup {Null}
<1>3. InQueue' = [i \in 1 .. n - 1 |-> e(i + 1)]
  <2>1. ASSUME NEW i \in 1 .. n - 1
        PROVE  (head' + i - 1) % Size = (head + (i + 1) - 1) % Size
    <3>1. head + 1 \in Int /\ i - 1 \in Int /\ i \in Int /\ head \in Int
      BY <1>f, <1>2 DEF Slots
    <3>2. (((head + 1) % Size) + (i - 1)) % Size = (head + 1 + (i - 1)) % Size
      BY <1>f, <3>1, ModAdd, Zenon
    <3>3. head' = (head + 1) % Size /\ head' \in Int
      BY <1>1, <1>f, SuccType DEF Succ, Slots
    <3>4. head' + i - 1 = ((head + 1) % Size) + (i - 1) /\ head + (i + 1) - 1 = head + 1 + (i - 1)
      BY <3>1, <3>3
    <3> QED
      BY <3>2, <3>4
  <2>2. InQueue' = [i \in 1 .. n - 1 |-> queue[(head' + i - 1) % Size]]
    BY <1>1, <1>2 DEF InQueue
  <2> QED
    BY <2>1, <2>2
<1>4. \A i \in 1 .. n : e(i) \in S
  BY <1>f, TailIsFree
<1>5. e(1) = queue[head]
  <2>1. head + 1 - 1 = head /\ head % Size = head
    BY <1>f, ModSmall DEF Slots
  <2> QED
    BY <2>1
<1>6. InQueue = [i \in 1 .. n |-> e(i)]
  BY DEF InQueue
<1> HIDE DEF n, e, S
<1>7. n \in Nat /\ n >= 1
  BY <1>2 DEF n
<1>8. /\ [i \in 1 .. n |-> e(i)] # << >>
      /\ Head([i \in 1 .. n |-> e(i)]) = e(1)
      /\ Tail([i \in 1 .. n |-> e(i)]) = [i \in 1 .. n - 1 |-> e(i + 1)]
  <2>1. [i \in 1 .. n |-> e(i)] \in Seq(S) /\ Len([i \in 1 .. n |-> e(i)]) = n
    BY <1>4, <1>7
  <2> QED
    BY <1>4, <1>7, <2>1
<1> QED
  BY <1>1, <1>3, <1>5, <1>6, <1>8

\* Storing the slot, and whatever else the two cores do, changes nothing in
\* the queue.
LEMMA OthersLeaveQueue ==
  ASSUME QueueInv, Published, [Next]_vars, ~StoreTail, ~StoreHead
  PROVE  InQueue' = InQueue /\ ret' = ret
<1> USE DEF producer_vars, consumer_vars
<1>f. /\ head \in Slots /\ tail \in Slots
      /\ queue \in [Slots -> Buffers \cup {Null}]
      /\ cpc # "idle" => head # tail
  BY QueueFacts DEF QueueInv, TypeOK
<1>1. CASE StoreSlot
  <2>1. /\ queue' = [queue EXCEPT ![tail] = pkt]
        /\ UNCHANGED <<head, tail, ret>>
    BY <1>1 DEF StoreSlot, Published
  <2>2. QueueSize' = QueueSize
    BY <2>1 DEF QueueSize
  <2>3. ASSUME NEW i \in 1 .. QueueSize
        PROVE  queue'[(head + i - 1) % Size] = queue[(head + i - 1) % Size]
    BY <2>1, <1>f, TailIsFree
  <2>4. InQueue' = [i \in 1 .. QueueSize |-> queue'[(head + i - 1) % Size]]
    BY <2>1, <2>2 DEF InQueue
  <2> QED
    BY <2>1, <2>3, <2>4 DEF InQueue
<1>2. CASE UNCHANGED <<queue, head, tail, ret>>
  BY <1>2 DEF InQueue, QueueSize
<1>3. ASSUME NEW p \in Buffers, Enqueue(p)
      PROVE  UNCHANGED <<queue, head, tail, ret>>
  BY <1>3 DEF Enqueue
<1>4. CASE GetSize \/ LoadSlot \/ UNCHANGED vars
  BY <1>2, <1>4 DEF GetSize, LoadSlot, vars
<1>5. CASE TestEmpty
  BY <1>2, <1>5, <1>f DEF TestEmpty
<1> QED
  BY <1>1, <1>2, <1>3, <1>4, <1>5 DEF Next, Producer, Consumer

\* Where the producer's stores become visible in program order the ring
\* implements a FIFO of Size - 1 elements: at any interleaving of the two cores
\* a packet is enqueued at the end and dequeued from the front, exactly once.
THEOREM QueueIsFifo ==
  ASSUME Ordered
  PROVE  Spec => FifoSpec
<1>1. Init => Published /\ Fifo!Init
  <2> SUFFICES ASSUME Init
               PROVE  Published /\ Fifo!Init
    OBVIOUS
  <2>1. Published
    BY DEF Init, Published
  <2>2. QueueSize = 0
    BY QueueAssumption, SizeOf DEF Init, QueueSize, Slots
  <2>3. InQueue = << >>
    BY <2>2 DEF InQueue
  <2>4. ret \notin Buffers
    BY QueueAssumption DEF Init
  <2> QED
    BY <2>1, <2>3, <2>4 DEF Fifo!Init, InQueue
<1>2. QueueInv /\ Published /\ [Next]_vars => Published'
  BY PublishedStep
<1>3. QueueInv /\ Published /\ [Next]_vars => [Fifo!Enqueue \/ Fifo!Dequeue]_<<InQueue, ret>>
  <2> SUFFICES ASSUME QueueInv, Published, [Next]_vars
               PROVE  [Fifo!Enqueue \/ Fifo!Dequeue]_<<InQueue, ret>>
    OBVIOUS
  <2>1. CASE StoreTail
    <3>1. ret' = ret
      BY <2>1 DEF StoreTail, consumer_vars
    <3> QED
      BY <2>1, <3>1, StoreTailAppends DEF Fifo!Enqueue, InQueue
  <2>2. CASE StoreHead
    BY <2>2, StoreHeadRemoves DEF Fifo!Dequeue, InQueue
  <2>3. CASE ~StoreTail /\ ~StoreHead
    BY <2>3, OthersLeaveQueue
  <2> QED
    BY <2>1, <2>2, <2>3
<1> QED
  BY <1>1, <1>2, <1>3, QueueInvariant, PTL DEF Spec, FifoSpec, Fifo!Spec, InQueue

=============================================================================
