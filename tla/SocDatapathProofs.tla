------------------------- MODULE SocDatapathProofs -------------------------
(***************************************************************************)
(* Proofs about the SoC data path, for rings, queues and batches of any    *)
(* size that satisfies the assumptions of SocDatapath.                     *)
(***************************************************************************)
EXTENDS SocDatapath, Arithmetic, SequenceTheorems, FiniteSetTheorems, TLAPS

----------------------------------------------------------------------------
(* The operators the model is built from. *)

\* A remainder is an index of the ring.
LEMMA ModRange ==
  ASSUME NEW a \in Int, NEW n \in Nat \ {0}
  PROVE  a % n \in 0 .. n - 1
  BY SMT

\* The lesser of two numbers.
LEMMA LeastOf ==
  ASSUME NEW a \in Int, NEW b \in Int
  PROVE  /\ Least(a, b) \in {a, b}
         /\ Least(a, b) <= a
         /\ Least(a, b) <= b
  BY DEF Least

\* A prefix has the elements of the sequence.
LEMMA PrefixType ==
  ASSUME NEW S, NEW s \in Seq(S), NEW n \in Int, n <= Len(s)
  PROVE  SubSeq(s, 1, n) \in Seq(S)
  <1>1. \A i \in 1 .. n : s[i] \in S
    OBVIOUS
  <1> QED
    BY <1>1, SubSeqProperties

\* A prefix and what is left after it.
LEMMA PrefixAndRest ==
  ASSUME NEW S, NEW s \in Seq(S), NEW n \in 0 .. Len(s)
  PROVE  /\ SubSeq(s, 1, n) \in Seq(S)
         /\ Len(SubSeq(s, 1, n)) = n
         /\ Elems(SubSeq(s, 1, n)) \subseteq S
         /\ Drop(s, n) \in Seq(S)
         /\ Len(Drop(s, n)) = Len(s) - n
  BY SMT DEF Drop, Elems

\* A ring entry is a buffer.
LEMMA RxBufType ==
  ASSUME NEW q \in QPs, NEW i \in Int
  PROVE  RxBuf(q, i) \in Buffers
  BY ModRange, RingAssumption DEF RxBuf, Buffers

\* The queue pair a packet leaves by.
LEMMA OutType ==
  ASSUME NEW q \in QPs
  PROVE  Out(q) \in QPs
  BY DEF Out, QPs

\* What waits to be dispatched are as many buffers as are counted.
LEMMA WaitingType ==
  ASSUME TypeOK, NEW q \in QPs
  PROVE  /\ Waiting(q) \in Seq(Buffers)
         /\ Len(Waiting(q)) = wait_for_disp[q]
  <1>1. wait_for_disp[q] \in Nat /\ ring_head[q] \in Int
    BY DEF TypeOK
  <1>2. \A i \in 1 .. wait_for_disp[q] : RxBuf(q, ring_head[q] + i - 1) \in Buffers
    BY <1>1, RxBufType
  <1> QED
    BY <1>1, <1>2 DEF Waiting

----------------------------------------------------------------------------
(* Type correctness. *)

\* The types hold at first.
LEMMA InitType == Init => TypeOK
  <1> SUFFICES ASSUME Init PROVE TypeOK
    OBVIOUS
  <1>1. \A q \in QPs : <<Out(q), 0>> \in Buffers
    BY OutType, RingAssumption DEF Buffers
  <1>2. \A q \in QPs : FilledQueue(q) \in Seq(Buffers)
    BY RxBufType, RingAssumption DEF FilledQueue
  <1>3. /\ 0 \in Nat
        /\ 0 \in 0 .. NumRxRingEntries - 1
        /\ 0 \in 0 .. NumTxRingEntries - 1
        /\ NumTxRingEntries \in Nat
        /\ << >> \in Seq(Buffers)
        /\ Len(<< >>) <= NumTxRingEntries
    BY RingAssumption
  <1> QED
    BY <1>1, <1>2, <1>3 DEF Init, TypeOK, PCs

\* Reposting keeps the types.
LEMMA PostRecvsType ==
  ASSUME TypeOK, NEW q \in QPs, NEW from \in PCs, NEW to \in PCs,
         PostRecvs(q, from, to)
  PROVE  TypeOK'
  <1> DEFINE entry(i) == RxBuf(q, recv_head[q] + i)
  <1>1. PICK n \in 0 .. NumRxRingEntries :
          /\ \E posted \in Taken("recv", n) :
               /\ rq' = [rq EXCEPT ![q] = @ \o [i \in 1 .. posted |-> entry(i - 1)]]
               /\ content' = [b \in Buffers |->
                                IF b \in {entry(i) : i \in 0 .. posted - 1}
                                THEN "empty" ELSE content[b]]
          /\ state' = Mark({entry(i) : i \in 0 .. n - 1}, POSTED)
          /\ recv_head' = [recv_head EXCEPT ![q] = Advance(@, n)]
    BY DEF PostRecvs
  <1>p. PICK posted \in 0 .. n :
          /\ rq' = [rq EXCEPT ![q] = @ \o [i \in 1 .. posted |-> entry(i - 1)]]
          /\ content' = [b \in Buffers |->
                           IF b \in {entry(i) : i \in 0 .. posted - 1}
                           THEN "empty" ELSE content[b]]
    <2>1. Taken("recv", n) \subseteq 0 .. n
      BY RingAssumption DEF Taken
    <2> QED
      BY <1>1, <2>1
  <1>2. recv_head[q] \in Nat /\ n \in Nat /\ posted \in Nat
    BY RingAssumption DEF TypeOK
  <1>3. [i \in 1 .. posted |-> entry(i - 1)] \in Seq(Buffers)
    <2>1. \A i \in 1 .. posted : entry(i - 1) \in Buffers
      BY <1>2, RxBufType
    <2> QED
      BY <1>2, <2>1
  <1>4. rq' \in [QPs -> Seq(Buffers)]
    BY <1>p, <1>3 DEF TypeOK
  <1>5. recv_head' \in [QPs -> 0 .. NumRxRingEntries - 1]
    <2>1. Advance(recv_head[q], n) \in 0 .. NumRxRingEntries - 1
      <3>1. recv_head[q] + n \in Int
        BY <1>2
      <3> QED
        BY <3>1, ModRange, RingAssumption DEF Advance
    <2> QED
      BY <1>1, <2>1 DEF TypeOK
  <1>6. state' \in [Buffers -> {POSTED, APP_OWNED, FREE}]
    BY <1>1 DEF TypeOK, Mark
  <1>7. content' \in [Buffers -> {"empty", "raw", "sized"}]
    BY <1>p DEF TypeOK
  <1>8. /\ pc' = to
        /\ UNCHANGED <<expired, ring_head, wait_for_disp, wk_vars, tx_vars,
                       failed, recv_cq, sq, send_cq>>
    BY DEF PostRecvs
  <1> QED
    BY <1>4, <1>5, <1>6, <1>7, <1>8 DEF TypeOK, wk_vars, tx_vars

\* Polling for received packets keeps the types.
LEMMA PollRecvType ==
  ASSUME TypeOK, NEW q \in QPs, NEW from \in PCs, NEW to \in PCs,
         PollRecv(q, from, to)
  PROVE  TypeOK'
  <1> DEFINE ret == Least(Len(recv_cq[q]), RxBatchSize)
  <1>1. recv_cq[q] \in Seq(Buffers) /\ Len(recv_cq[q]) \in Nat /\ RxBatchSize \in Nat
    BY RingAssumption DEF TypeOK
  <1>2. ret \in 0 .. Len(recv_cq[q])
    BY <1>1, LeastOf
  <1>3. Drop(recv_cq[q], ret) \in Seq(Buffers)
    BY <1>1, <1>2, PrefixAndRest
  <1>4. recv_cq' \in [QPs -> Seq(Buffers)]
    BY <1>3 DEF PollRecv, TypeOK
  <1>5. wait_for_disp' \in [QPs -> Nat]
    BY <1>2 DEF PollRecv, TypeOK
  <1>6. content' \in [Buffers -> {"empty", "raw", "sized"}]
    BY DEF PollRecv, TypeOK
  <1>7. /\ pc' = to
        /\ UNCHANGED <<expired, state, recv_head, ring_head, wk_vars, tx_vars,
                       failed, rq, sq, send_cq>>
    BY DEF PollRecv
  <1> QED
    BY <1>4, <1>5, <1>6, <1>7 DEF TypeOK, wk_vars, tx_vars

\* Passing entries on keeps the ring head on the ring.
LEMMA PassOnType ==
  ASSUME TypeOK, NEW q \in QPs, NEW n \in 0 .. wait_for_disp[q], PassOn(q, n)
  PROVE  /\ ring_head' \in [QPs -> 0 .. NumRxRingEntries - 1]
         /\ wait_for_disp' \in [QPs -> Nat]
  <1>1. ring_head[q] \in Nat /\ wait_for_disp[q] \in Nat
    BY RingAssumption DEF TypeOK
  <1>2. Advance(ring_head[q], n) \in 0 .. NumRxRingEntries - 1
    <2>1. ring_head[q] + n \in Int
      BY <1>1
    <2> QED
      BY <2>1, ModRange, RingAssumption DEF Advance
  <1>3. wait_for_disp[q] - n \in Nat
    BY <1>1
  <1> QED
    BY <1>2, <1>3 DEF PassOn, TypeOK

\* Dispatching to the worker keeps the types.
LEMMA DispatchType == TypeOK /\ Dispatch => TypeOK'
  <1> SUFFICES ASSUME TypeOK, Dispatch PROVE TypeOK'
    OBVIOUS
  <1> DEFINE got  == Waiting("prior")
             kept == SubSeq(got, 1, Least(Len(got), WsCapacity - Len(worker_rx)))
  <1>1. "prior" \in QPs
    BY DEF QPs
  <1>2. got \in Seq(Buffers) /\ Len(got) = wait_for_disp["prior"]
    BY <1>1, WaitingType
  <1>3. kept \in Seq(Buffers)
    <2>1. Len(got) \in Int /\ WsCapacity - Len(worker_rx) \in Int
      BY <1>2, RingAssumption DEF TypeOK, WsCapacity
    <2>2. /\ Least(Len(got), WsCapacity - Len(worker_rx)) \in Int
          /\ Least(Len(got), WsCapacity - Len(worker_rx)) <= Len(got)
      BY <2>1 DEF Least
    <2> QED
      BY <1>2, <2>2, PrefixType
  <1>4. worker_rx' \in Seq(Buffers)
    BY <1>3 DEF Dispatch, TypeOK
  <1>5. state' \in [Buffers -> {POSTED, APP_OWNED, FREE}]
    BY DEF Dispatch, Dispatched, TypeOK
  <1>6. /\ ring_head' \in [QPs -> 0 .. NumRxRingEntries - 1]
        /\ wait_for_disp' \in [QPs -> Nat]
    <2>1. PassOn("prior", Len(got)) /\ Len(got) \in 0 .. wait_for_disp["prior"]
      BY <1>1, <1>2 DEF Dispatch, TypeOK
    <2> QED
      BY <1>1, <2>1, PassOnType
  <1>7. /\ pc' = "worker"
        /\ UNCHANGED <<expired, content, recv_head, worker_tx, tx_vars, nic_vars>>
    BY DEF Dispatch
  <1> QED
    BY <1>4, <1>5, <1>6, <1>7 DEF TypeOK, tx_vars, nic_vars, PCs

\* So does the worker,
LEMMA WorkerType == TypeOK /\ Worker => TypeOK'
  <1> SUFFICES ASSUME TypeOK, Worker PROVE TypeOK'
    OBVIOUS
  <1>1. worker_rx \in Seq(Buffers) /\ worker_tx \in Seq(Buffers)
    BY DEF TypeOK
  <1>2. worker_rx' \in Seq(Buffers) /\ worker_tx' \in Seq(Buffers)
    <2> DEFINE n == Least(Len(worker_rx), WsCapacity - Len(worker_tx))
    <2>1. Len(worker_rx) \in Int /\ WsCapacity - Len(worker_tx) \in Int
      BY <1>1, RingAssumption DEF WsCapacity
    <2>2. n \in Int /\ n <= Len(worker_rx)
      BY <2>1 DEF Least
    <2>3. SubSeq(worker_rx, 1, n) \in Seq(Buffers)
      BY <1>1, <2>2, PrefixType
    <2>4. CASE MessagesDue(Len(worker_rx))
      <3>1. worker_tx' = worker_tx \o SubSeq(worker_rx, 1, n) /\ worker_rx' = << >>
        BY <2>4 DEF Worker
      <3> HIDE DEF n
      <3> QED
        BY <1>1, <2>3, <3>1
    <2>5. CASE ~MessagesDue(Len(worker_rx))
      BY <1>1, <2>5 DEF Worker, wk_vars
    <2> QED
      BY <2>4, <2>5
  <1>3. /\ pc' = "collect"
        /\ UNCHANGED <<expired, state, content, rx_vars, tx_vars, nic_vars>>
    BY DEF Worker
  <1> QED
    BY <1>2, <1>3 DEF TypeOK, rx_vars, tx_vars, nic_vars, PCs

\* The room left in a transmit queue.
LEMMA TxRoomType ==
  ASSUME TypeOK, NEW q \in QPs
  PROVE  /\ tx_queue[q] \in Seq(Buffers)
         /\ Len(tx_queue[q]) \in Nat
         /\ TxRoom(q) \in Nat
         /\ TxRoom(q) = NumTxRingEntries - Len(tx_queue[q])
  <1>1. tx_queue[q] \in Seq(Buffers) /\ Len(tx_queue[q]) <= NumTxRingEntries
    BY DEF TypeOK
  <1> QED
    BY <1>1, RingAssumption DEF TxRoom

\* Appending what a transmit queue has room for.
LEMMA FillType ==
  ASSUME TypeOK, NEW q \in QPs, NEW s \in Seq(Buffers), Len(s) <= TxRoom(q),
         tx_queue' = [tx_queue EXCEPT ![q] = @ \o s]
  PROVE  /\ tx_queue' \in [QPs -> Seq(Buffers)]
         /\ \A r \in QPs : Len(tx_queue'[r]) <= NumTxRingEntries
  <1>1. /\ tx_queue[q] \o s \in Seq(Buffers)
        /\ Len(tx_queue[q] \o s) = Len(tx_queue[q]) + Len(s)
    BY TxRoomType
  <1>2. Len(tx_queue[q] \o s) <= NumTxRingEntries
    BY <1>1, TxRoomType, RingAssumption
  <1> QED
    BY <1>1, <1>2 DEF TypeOK

\* Collecting what the worker has handled keeps the types.
LEMMA CollectType == TypeOK /\ Collect => TypeOK'
  <1> SUFFICES ASSUME TypeOK, Collect PROVE TypeOK'
    OBVIOUS
  <1> DEFINE tx_size == Least(Len(worker_tx), TxRoom("next"))
  <1>1. worker_tx \in Seq(Buffers) /\ "next" \in QPs
    BY DEF TypeOK, QPs
  <1>2. tx_size \in 0 .. Len(worker_tx) /\ tx_size <= TxRoom("next")
    BY <1>1, TxRoomType DEF Least
  <1>3. /\ SubSeq(worker_tx, 1, tx_size) \in Seq(Buffers)
        /\ Len(SubSeq(worker_tx, 1, tx_size)) = tx_size
        /\ Drop(worker_tx, tx_size) \in Seq(Buffers)
    BY <1>1, <1>2, PrefixAndRest
  <1>4. /\ tx_queue' \in [QPs -> Seq(Buffers)]
        /\ \A r \in QPs : Len(tx_queue'[r]) <= NumTxRingEntries
    <2>1. tx_queue' = [tx_queue EXCEPT !["next"] = @ \o SubSeq(worker_tx, 1, tx_size)]
      BY DEF Collect
    <2> HIDE DEF tx_size
    <2> QED
      BY <1>1, <1>2, <1>3, <2>1, FillType
  <1>5. worker_tx' \in Seq(Buffers)
    BY <1>3 DEF Collect
  <1>6. /\ pc' \in {"flush_next", "post_next"}
        /\ UNCHANGED <<expired, state, content, rx_vars, worker_rx, sw_ring, send_head,
                       send_tail, free_send_wr_num, nic_vars>>
    BY DEF Collect
  <1> QED
    BY <1>4, <1>5, <1>6 DEF TypeOK, rx_vars, nic_vars, PCs

\* So does handing packets directly to the other side,
LEMMA DirectTxBurstType == TypeOK /\ DirectTxBurst => TypeOK'
  <1> SUFFICES ASSUME TypeOK, DirectTxBurst PROVE TypeOK'
    OBVIOUS
  <1>1. "next" \in QPs /\ "prior" \in QPs
    BY DEF QPs
  <1>2. Waiting("next") \in Seq(Buffers) /\ Len(Waiting("next")) = wait_for_disp["next"]
    BY <1>1, WaitingType
  <1>3. /\ wait_for_disp["next"] \in Nat
        /\ DirectSize \in 0 .. wait_for_disp["next"]
        /\ DirectSize <= TxRoom("prior")
    <2>1. wait_for_disp["next"] \in Nat /\ TxRoom("prior") \in Nat
      BY <1>1, TxRoomType DEF TypeOK
    <2> QED
      BY <2>1 DEF DirectSize, Least
  <1>4. /\ SubSeq(Waiting("next"), 1, DirectSize) \in Seq(Buffers)
        /\ Len(SubSeq(Waiting("next"), 1, DirectSize)) = DirectSize
    BY <1>2, <1>3, PrefixAndRest
  <1>5. /\ tx_queue' \in [QPs -> Seq(Buffers)]
        /\ \A r \in QPs : Len(tx_queue'[r]) <= NumTxRingEntries
    BY <1>1, <1>3, <1>4, FillType DEF DirectTxBurst
  <1>6. /\ ring_head' \in [QPs -> 0 .. NumRxRingEntries - 1]
        /\ wait_for_disp' \in [QPs -> Nat]
    BY <1>1, <1>3, PassOnType DEF DirectTxBurst
  <1>7. /\ pc' = "flush_prior"
        /\ UNCHANGED <<expired, state, content, recv_head, wk_vars, sw_ring, send_head,
                       send_tail, free_send_wr_num, nic_vars>>
    BY DEF DirectTxBurst
  <1> QED
    BY <1>5, <1>6, <1>7 DEF TypeOK, wk_vars, nic_vars, PCs

\* sending a burst,
LEMMA TxBurstType ==
  ASSUME TypeOK, NEW q \in QPs, NEW at, TxBurst(q, at)
  PROVE  TypeOK'
  <1> DEFINE reaped  == Reaped(q)
             free    == FreeWrs(q)
             nb_tx   == Least(free, Len(tx_queue[q]))
             mounted == SubSeq(tx_queue[q], 1, nb_tx)
  <1>1. /\ send_cq[q] \in Seq(Buffers)
        /\ reaped \in 0 .. Len(send_cq[q])
    <2>1. send_cq[q] \in Seq(Buffers) /\ Len(send_cq[q]) \in Nat
      BY DEF TypeOK
    <2> QED
      BY <2>1, RingAssumption DEF Reaped, Least
  <1>2. free \in Nat /\ free_send_wr_num[q] \in Nat
    BY <1>1 DEF FreeWrs, TypeOK
  <1>3. nb_tx \in 0 .. Len(tx_queue[q]) /\ nb_tx <= free
    BY <1>2, TxRoomType DEF Least
  <1>4. /\ mounted \in Seq(Buffers)
        /\ Len(mounted) = nb_tx
        /\ Drop(tx_queue[q], nb_tx) \in Seq(Buffers)
        /\ Len(Drop(tx_queue[q], nb_tx)) = Len(tx_queue[q]) - nb_tx
    BY <1>3, TxRoomType, PrefixAndRest
  <1> HIDE DEF reaped, free, nb_tx, mounted
  <1>5. send_cq' \in [QPs -> Seq(Buffers)]
    <2>1. send_cq' = [send_cq EXCEPT ![q] = Drop(@, reaped)]
      BY DEF TxBurst, reaped
    <2>2. Drop(send_cq[q], reaped) \in Seq(Buffers)
      BY <1>1, PrefixAndRest
    <2> QED
      BY <2>1, <2>2 DEF TypeOK
  <1>6. send_head' \in [QPs -> 0 .. NumTxRingEntries - 1]
    <2>1. send_head' = [send_head EXCEPT ![q] = (@ + reaped) % NumTxRingEntries]
      BY DEF TxBurst, reaped
    <2>2. send_head[q] + reaped \in Int
      BY <1>1 DEF TypeOK
    <2>3. (send_head[q] + reaped) % NumTxRingEntries \in 0 .. NumTxRingEntries - 1
      BY <2>2, ModRange, RingAssumption
    <2> QED
      BY <2>1, <2>3 DEF TypeOK
  <1>7. send_tail' \in [QPs -> 0 .. NumTxRingEntries - 1]
    <2>1. send_tail' = [send_tail EXCEPT ![q] = (@ + nb_tx) % NumTxRingEntries]
      BY DEF TxBurst, nb_tx, free
    <2>2. send_tail[q] + nb_tx \in Int
      BY <1>3 DEF TypeOK
    <2>3. (send_tail[q] + nb_tx) % NumTxRingEntries \in 0 .. NumTxRingEntries - 1
      BY <2>2, ModRange, RingAssumption
    <2> QED
      BY <2>1, <2>3 DEF TypeOK
  <1>8. free_send_wr_num' \in [QPs -> Nat]
    <2>1. free_send_wr_num' = [free_send_wr_num EXCEPT ![q] = free - nb_tx]
      BY DEF TxBurst, nb_tx, free
    <2>2. free - nb_tx \in Nat
      BY <1>2, <1>3
    <2> QED
      BY <2>1, <2>2 DEF TypeOK
  <1>9. /\ tx_queue' \in [QPs -> Seq(Buffers)]
        /\ \A r \in QPs : Len(tx_queue'[r]) <= NumTxRingEntries
    <2>1. tx_queue' = [tx_queue EXCEPT ![q] = Drop(@, nb_tx)]
      BY DEF TxBurst, nb_tx, free
    <2>2. Len(Drop(tx_queue[q], nb_tx)) <= NumTxRingEntries
      BY <1>3, <1>4, TxRoomType, RingAssumption DEF TypeOK
    <2> QED
      BY <1>4, <2>1, <2>2 DEF TypeOK
  <1>10. sw_ring' \in [QPs -> [0 .. NumTxRingEntries - 1 -> Buffers]]
    <2>1. sw_ring' = [sw_ring EXCEPT ![q] =
              [k \in 0 .. NumTxRingEntries - 1 |->
                 IF \E i \in 1 .. nb_tx : SendSlot(q, i) = k
                 THEN mounted[CHOOSE i \in 1 .. nb_tx : SendSlot(q, i) = k]
                 ELSE @[k]]]
      BY DEF TxBurst, nb_tx, free, mounted
    <2>2. \A k \in 0 .. NumTxRingEntries - 1 : sw_ring[q][k] \in Buffers
      <3>1. sw_ring[q] \in [0 .. NumTxRingEntries - 1 -> Buffers]
        BY DEF TypeOK
      <3> QED
        BY <3>1
    <2>3. \A i \in 1 .. nb_tx : mounted[i] \in Buffers
      BY <1>3, <1>4
    <2>4. ASSUME NEW k \in 0 .. NumTxRingEntries - 1,
                 \E i \in 1 .. nb_tx : SendSlot(q, i) = k
          PROVE  mounted[CHOOSE i \in 1 .. nb_tx : SendSlot(q, i) = k] \in Buffers
      BY <2>3, <2>4
    <2> QED
      BY <2>1, <2>2, <2>4 DEF TypeOK
  <1>11. state' \in [Buffers -> {POSTED, APP_OWNED, FREE}]
    BY DEF TxBurst, TypeOK
  <1>12. sq' \in [QPs -> Seq(Buffers)]
    <2>1. PICK posted \in Taken("send", nb_tx) :
            sq' = [sq EXCEPT ![q] = @ \o SubSeq(mounted, 1, posted)]
      BY DEF TxBurst, nb_tx, free, mounted
    <2>2. posted \in 0 .. Len(mounted)
      BY <1>3, <1>4, <2>1 DEF Taken
    <2>3. SubSeq(mounted, 1, posted) \in Seq(Buffers)
      BY <1>4, <2>2, PrefixAndRest
    <2> QED
      BY <2>1, <2>3 DEF TypeOK
  <1>13. UNCHANGED <<pc, expired, content, rx_vars, wk_vars, failed, rq, recv_cq>>
    BY DEF TxBurst
  <1> QED
    BY <1>5, <1>6, <1>7, <1>8, <1>9, <1>10, <1>11, <1>12, <1>13 DEF TypeOK, rx_vars, wk_vars

\* the end of a flush,
LEMMA FlushDoneType ==
  ASSUME TypeOK, NEW q \in QPs, NEW at, NEW to \in PCs, FlushDone(q, at, to)
  PROVE  TypeOK'
  BY DEF FlushDone, TypeOK, rx_vars, wk_vars, tx_vars, nic_vars

\* and the network card.
LEMMA NicType ==
  ASSUME TypeOK, NEW q \in QPs, NicRecv(q) \/ NicSendDone(q) \/ PeerFails(q)
  PROVE  TypeOK'
  <1>1. /\ rq[q] \in Seq(Buffers)
        /\ recv_cq[q] \in Seq(Buffers)
        /\ sq[q] \in Seq(Buffers)
        /\ send_cq[q] \in Seq(Buffers)
    BY DEF TypeOK
  <1>2. CASE NicRecv(q)
    <2>1. Head(rq[q]) \in Buffers /\ Tail(rq[q]) \in Seq(Buffers)
      BY <1>1, <1>2, HeadTailProperties DEF NicRecv
    <2>2. recv_cq' \in [QPs -> Seq(Buffers)] /\ rq' \in [QPs -> Seq(Buffers)]
      BY <1>1, <1>2, <2>1 DEF NicRecv, TypeOK
    <2>3. content' \in [Buffers -> {"empty", "raw", "sized"}]
      BY <1>2, <2>1 DEF NicRecv, TypeOK
    <2> QED
      BY <1>2, <2>2, <2>3
      DEF NicRecv, TypeOK, ctrl_vars, rx_vars, wk_vars, tx_vars
  <1>3. CASE NicSendDone(q)
    <2>1. Head(sq[q]) \in Buffers /\ Tail(sq[q]) \in Seq(Buffers)
      BY <1>1, <1>3, HeadTailProperties DEF NicSendDone
    <2>2. send_cq' \in [QPs -> Seq(Buffers)] /\ sq' \in [QPs -> Seq(Buffers)]
      BY <1>1, <1>3, <2>1 DEF NicSendDone, TypeOK
    <2> QED
      BY <1>3, <2>2 DEF NicSendDone, TypeOK, ctrl_vars, rx_vars, wk_vars, tx_vars
  <1>4. CASE PeerFails(q)
    BY <1>4 DEF PeerFails, TypeOK, ctrl_vars, rx_vars, wk_vars, tx_vars
  <1> QED
    BY <1>2, <1>3, <1>4

\* A failing post that ends the process leaves everything as it was.
LEMMA ShutdownStep ==
  ASSUME Shutdown
  PROVE  /\ pc' = "aborted"
         /\ UNCHANGED <<expired, state, content, rx_vars, wk_vars, tx_vars, nic_vars>>
  BY DEF Shutdown, PostRecvsFails, TxBurstFails, PostFails

\* Every step keeps the types.
LEMMA NextType == TypeOK /\ [Next]_vars => TypeOK'
  <1> SUFFICES ASSUME TypeOK, [Next]_vars PROVE TypeOK'
    OBVIOUS
  <1> USE DEF PCs
  <1>1. CASE Launch
    BY <1>1 DEF Launch, TypeOK, rx_vars, wk_vars, tx_vars, nic_vars
  <1>2. CASE Forward
    BY <1>2, PostRecvsType, PollRecvType, DispatchType, WorkerType, CollectType,
       TxBurstType, FlushDoneType DEF Forward, QPs
  <1>3. CASE Backward
    BY <1>3, PostRecvsType, PollRecvType, DirectTxBurstType, TxBurstType,
       FlushDoneType DEF Backward, QPs
  <1>4. CASE CheckTimeout
    BY <1>4 DEF CheckTimeout, TypeOK, rx_vars, wk_vars, tx_vars, nic_vars
  <1>5. CASE Nic
    BY <1>5, NicType DEF Nic
  <1>6. CASE Expire
    BY <1>6 DEF Expire, TypeOK, rx_vars, wk_vars, tx_vars, nic_vars
  <1>7. CASE UNCHANGED vars
    BY <1>7 DEF vars, TypeOK, ctrl_vars, rx_vars, wk_vars, tx_vars, nic_vars
  <1>8. CASE Shutdown
    BY <1>8, ShutdownStep DEF TypeOK, rx_vars, wk_vars, tx_vars, nic_vars
  <1> QED
    BY <1>1, <1>2, <1>3, <1>4, <1>5, <1>6, <1>7, <1>8 DEF Next, Wrapper, Stopped

\* The values of all variables are of their type at all times; in particular
\* every ring index stays inside its ring, and the transmit queues never hold
\* more than the kNumTxRingEntries entries of their array.
THEOREM TypeCorrect == Spec => []TypeOK
  <1>1. Init => TypeOK
    BY InitType
  <1>2. TypeOK /\ [Next]_vars => TypeOK'
    BY NextType
  <1> QED
    BY <1>1, <1>2, PTL DEF Spec

----------------------------------------------------------------------------
(* The worker queues are large enough. A poll takes at most RxBatchSize    *)
(* packets, the dispatch passes them all on, and the worker leaves at most *)
(* AppRxMsgBatchSize of them behind; all it passes on fits into the        *)
(* transmit queue, which never starts an iteration with a full batch.      *)

WorkerInv ==
  /\ wait_for_disp["prior"] <= IF pc = "dispatch" THEN RxBatchSize ELSE 0
  /\ Len(worker_rx) <= AppRxMsgBatchSize + IF pc = "worker" THEN RxBatchSize ELSE 0
  /\ Len(worker_tx) <= IF pc = "collect" THEN AppRxMsgBatchSize + RxBatchSize ELSE 0
  /\ pc \notin {"flush_next", "aborted"} => Len(tx_queue["next"]) < TxBatchSize

\* The worker queues are empty at first.
LEMMA WorkerInvInit == Init => WorkerInv
  <1> SUFFICES ASSUME Init PROVE WorkerInv
    OBVIOUS
  <1>1. Len(<< >>) = 0
    OBVIOUS
  <1> QED
    BY <1>1, RingAssumption DEF Init, WorkerInv, QPs

\* Dispatching a batch leaves the worker no more than it can take.
LEMMA WorkerInvDispatch == TypeOK /\ WorkerInv /\ Dispatch => WorkerInv'
  <1> SUFFICES ASSUME TypeOK, WorkerInv, Dispatch PROVE WorkerInv'
    OBVIOUS
  <1> DEFINE got == Waiting("prior")
             n   == Least(Len(got), WsCapacity - Len(worker_rx))
  <1>1. pc = "dispatch" /\ pc' = "worker" /\ worker_rx' = worker_rx \o SubSeq(got, 1, n)
    BY DEF Dispatch
  <1>2. got \in Seq(Buffers) /\ Len(got) = wait_for_disp["prior"]
    BY WaitingType DEF QPs
  <1>3. worker_rx \in Seq(Buffers) /\ Len(worker_rx) \in Nat
    BY DEF TypeOK
  <1>4. Len(got) \in Nat /\ Len(got) <= RxBatchSize /\ Len(worker_rx) <= AppRxMsgBatchSize
    BY <1>1, <1>2, <1>3, RingAssumption DEF WorkerInv
  <1>5. n = Len(got)
    BY <1>3, <1>4, RingAssumption, SizingAssumption DEF Least, WsCapacity
  <1>6. Len(worker_rx') <= AppRxMsgBatchSize + RxBatchSize
    <2>1. SubSeq(got, 1, n) \in Seq(Buffers) /\ Len(SubSeq(got, 1, n)) = Len(got)
      BY <1>2, <1>4, <1>5, PrefixAndRest
    <2>2. PICK kept \in Seq(Buffers) :
            Len(kept) = Len(got) /\ worker_rx' = worker_rx \o kept
      BY <1>1, <2>1
    <2>3. Len(worker_rx') = Len(worker_rx) + Len(kept)
      BY <1>3, <2>2, ConcatProperties
    <2> QED
      BY <1>3, <1>4, <2>2, <2>3, RingAssumption
  <1>7. wait_for_disp'["prior"] = 0
    <2>1. wait_for_disp' = [wait_for_disp EXCEPT !["prior"] = @ - Len(got)]
      BY DEF Dispatch, PassOn
    <2>2. wait_for_disp'["prior"] = wait_for_disp["prior"] - Len(got)
      BY <2>1 DEF TypeOK, QPs
    <2> QED
      BY <1>2, <1>4, <2>2
  <1>8. UNCHANGED <<worker_tx, tx_queue>>
    BY DEF Dispatch, tx_vars
  <1>9. Len(worker_tx) <= 0 /\ Len(tx_queue["next"]) < TxBatchSize
    BY <1>1 DEF WorkerInv
  <1>10. (wait_for_disp["prior"] <= IF pc = "dispatch" THEN RxBatchSize ELSE 0)'
    BY <1>1, <1>7
  <1>11. (Len(worker_rx) <= AppRxMsgBatchSize + IF pc = "worker" THEN RxBatchSize ELSE 0)'
    BY <1>1, <1>6
  <1>12. (Len(worker_tx) <= IF pc = "collect" THEN AppRxMsgBatchSize + RxBatchSize ELSE 0)'
    BY <1>1, <1>8, <1>9
  <1> QED
    BY <1>8, <1>9, <1>10, <1>11, <1>12 DEF WorkerInv

\* The worker moves a batch from one queue to the other.
LEMMA WorkerInvWorker == TypeOK /\ WorkerInv /\ Worker => WorkerInv'
  <1> SUFFICES ASSUME TypeOK, WorkerInv, Worker PROVE WorkerInv'
    OBVIOUS
  <1>1. pc = "worker" /\ pc' = "collect"
    BY DEF Worker
  <1>2. /\ worker_rx \in Seq(Buffers) /\ Len(worker_rx) \in Nat
        /\ worker_tx \in Seq(Buffers) /\ Len(worker_tx) \in Nat
    BY DEF TypeOK
  <1>3. Len(worker_tx) = 0 /\ Len(worker_rx) <= AppRxMsgBatchSize + RxBatchSize
    BY <1>1, <1>2 DEF WorkerInv
  <1>4. UNCHANGED <<wait_for_disp, tx_queue>>
    BY DEF Worker, rx_vars, tx_vars
  <1>5. CASE MessagesDue(Len(worker_rx))
    <2> DEFINE n == Least(Len(worker_rx), WsCapacity - Len(worker_tx))
    <2>1. worker_tx' = worker_tx \o SubSeq(worker_rx, 1, n) /\ worker_rx' = << >>
      BY <1>5 DEF Worker
    <2>2. n = Len(worker_rx)
      BY <1>2, <1>3, RingAssumption, SizingAssumption DEF Least, WsCapacity
    <2>3. /\ SubSeq(worker_rx, 1, n) \in Seq(Buffers)
          /\ Len(SubSeq(worker_rx, 1, n)) = Len(worker_rx)
      BY <1>2, <2>2, PrefixAndRest
    <2> HIDE DEF n
    <2>4. Len(worker_tx') = Len(worker_rx)
      BY <1>2, <1>3, <2>1, <2>3
    <2>5. Len(worker_rx') = 0
      BY <2>1
    <2> QED
      BY <1>1, <1>2, <1>3, <1>4, <2>4, <2>5, RingAssumption DEF WorkerInv
  <1>6. CASE ~MessagesDue(Len(worker_rx))
    <2>1. Len(worker_rx) <= AppRxMsgBatchSize
      BY <1>2, <1>6, RingAssumption DEF MessagesDue
    <2>2. UNCHANGED <<worker_rx, worker_tx>>
      BY <1>6 DEF Worker, wk_vars
    <2> QED
      BY <1>1, <1>2, <1>3, <1>4, <2>1, <2>2, RingAssumption DEF WorkerInv
  <1> QED
    BY <1>5, <1>6

\* Collecting empties the second one.
LEMMA WorkerInvCollect == TypeOK /\ WorkerInv /\ Collect => WorkerInv'
  <1> SUFFICES ASSUME TypeOK, WorkerInv, Collect PROVE WorkerInv'
    OBVIOUS
  <1> DEFINE tx_size == Least(Len(worker_tx), TxRoom("next"))
  <1>1. /\ pc = "collect"
        /\ pc' = IF FlushDue(Len(tx_queue'["next"])) THEN "flush_next" ELSE "post_next"
        /\ tx_queue' = [tx_queue EXCEPT !["next"] = @ \o SubSeq(worker_tx, 1, tx_size)]
        /\ worker_tx' = Drop(worker_tx, tx_size)
        /\ UNCHANGED <<wait_for_disp, worker_rx>>
    BY DEF Collect, rx_vars
  <1>2. /\ worker_tx \in Seq(Buffers) /\ Len(worker_tx) \in Nat
        /\ Len(worker_tx) <= AppRxMsgBatchSize + RxBatchSize
        /\ Len(worker_rx) <= AppRxMsgBatchSize
        /\ wait_for_disp["prior"] <= 0
        /\ Len(tx_queue["next"]) < TxBatchSize
    BY <1>1, RingAssumption DEF WorkerInv, TypeOK
  <1>3. /\ Len(tx_queue["next"]) \in Nat
        /\ TxRoom("next") = NumTxRingEntries - Len(tx_queue["next"])
    BY TxRoomType DEF QPs
  <1>4. tx_size = Len(worker_tx)
    BY <1>2, <1>3, RingAssumption, SizingAssumption DEF Least
  <1>5. Len(worker_tx') = 0
    <2>1. Len(worker_tx) \in 0 .. Len(worker_tx)
      BY <1>2
    <2>2. Len(Drop(worker_tx, Len(worker_tx))) = Len(worker_tx) - Len(worker_tx)
      BY <1>2, <2>1, PrefixAndRest
    <2> QED
      BY <1>1, <1>2, <1>4, <2>2
  <1> HIDE DEF tx_size
  <1>6. tx_queue' \in [QPs -> Seq(Buffers)]
    BY CollectType DEF TypeOK
  <1>7. pc' # "flush_next" => Len(tx_queue'["next"]) < TxBatchSize
    <2>1. Len(tx_queue'["next"]) \in Nat
      BY <1>6 DEF QPs
    <2>2. pc' # "flush_next" => ~FlushDue(Len(tx_queue'["next"]))
      BY <1>1
    <2> QED
      BY <2>1, <2>2, RingAssumption DEF FlushDue
  <1>8. pc' \in {"flush_next", "post_next"}
    BY <1>1
  <1>9. (wait_for_disp["prior"] <= IF pc = "dispatch" THEN RxBatchSize ELSE 0)'
    BY <1>1, <1>2, <1>8
  <1>10. (Len(worker_rx) <= AppRxMsgBatchSize + IF pc = "worker" THEN RxBatchSize ELSE 0)'
    BY <1>1, <1>2, <1>8, RingAssumption
  <1>11. (Len(worker_tx) <= IF pc = "collect" THEN AppRxMsgBatchSize + RxBatchSize ELSE 0)'
    BY <1>5, <1>8
  <1> QED
    BY <1>7, <1>9, <1>10, <1>11 DEF WorkerInv

\* A step between places where the invariant asks for the same.
LEMMA WorkerInvElsewhere ==
  ASSUME WorkerInv,
         pc \notin {"dispatch", "worker", "collect", "flush_next", "aborted"},
         pc' \notin {"dispatch", "worker", "collect", "flush_next", "aborted"},
         wait_for_disp'["prior"] = wait_for_disp["prior"],
         tx_queue'["next"] = tx_queue["next"],
         UNCHANGED <<worker_rx, worker_tx>>
  PROVE  WorkerInv'
  BY DEF WorkerInv

\* The steps of the way through the worker keep WorkerInv.
LEMMA WorkerInvForward == TypeOK /\ WorkerInv /\ Forward => WorkerInv'
  <1> SUFFICES ASSUME TypeOK, WorkerInv, Forward PROVE WorkerInv'
    OBVIOUS
  <1>1. CASE PostRecvs("prior", "post_prior", "poll_prior")
    BY <1>1, WorkerInvElsewhere DEF PostRecvs, wk_vars, tx_vars
  <1>2. CASE PollRecv("prior", "poll_prior", "dispatch")
    <2> DEFINE ret == Least(Len(recv_cq["prior"]), RxBatchSize)
    <2>1. /\ wait_for_disp["prior"] \in Nat /\ wait_for_disp["prior"] <= 0
          /\ Len(worker_rx) <= AppRxMsgBatchSize + 0
          /\ Len(worker_tx) <= 0
          /\ Len(tx_queue["next"]) < TxBatchSize
      BY <1>2 DEF PollRecv, WorkerInv, TypeOK, QPs
    <2>2. ret \in Nat /\ ret <= RxBatchSize
      <3>1. Len(recv_cq["prior"]) \in Nat
        BY DEF TypeOK, QPs
      <3> QED
        BY <3>1, RingAssumption DEF Least
    <2>3. wait_for_disp'["prior"] = wait_for_disp["prior"] + ret
      BY <1>2 DEF PollRecv, TypeOK, QPs
    <2> HIDE DEF ret
    <2>4. wait_for_disp'["prior"] <= RxBatchSize
      BY <2>1, <2>2, <2>3, RingAssumption
    <2>5. pc' = "dispatch" /\ UNCHANGED <<worker_rx, worker_tx, tx_queue>>
      BY <1>2 DEF PollRecv, wk_vars, tx_vars
    <2> QED
      BY <2>1, <2>4, <2>5 DEF WorkerInv
  <1>3. CASE Dispatch
    BY <1>3, WorkerInvDispatch
  <1>4. CASE Worker
    BY <1>4, WorkerInvWorker
  <1>5. CASE Collect
    BY <1>5, WorkerInvCollect
  <1>6. CASE TxBurst("next", "flush_next")
    <2>1. pc = "flush_next" /\ UNCHANGED <<pc, wait_for_disp, worker_rx, worker_tx>>
      BY <1>6 DEF TxBurst, rx_vars, wk_vars
    <2> QED
      BY <2>1 DEF WorkerInv
  <1>7. CASE FlushDone("next", "flush_next", "post_next")
    <2>1. /\ pc = "flush_next" /\ pc' = "post_next"
          /\ tx_queue["next"] = << >>
          /\ UNCHANGED <<wait_for_disp, worker_rx, worker_tx, tx_queue>>
      BY <1>7 DEF FlushDone, rx_vars, wk_vars, tx_vars
    <2>2. Len(tx_queue'["next"]) = 0
      BY <2>1
    <2> QED
      BY <2>1, <2>2, RingAssumption DEF WorkerInv
  <1> QED
    BY <1>1, <1>2, <1>3, <1>4, <1>5, <1>6, <1>7 DEF Forward

\* So do those of the way back.
LEMMA WorkerInvBackward == TypeOK /\ WorkerInv /\ Backward => WorkerInv'
  <1> SUFFICES ASSUME TypeOK, WorkerInv, Backward PROVE WorkerInv'
    OBVIOUS
  <1>1. CASE PostRecvs("next", "post_next", "poll_next")
    BY <1>1, WorkerInvElsewhere DEF PostRecvs, wk_vars, tx_vars
  <1>2. CASE PollRecv("next", "poll_next", "direct_tx")
    <2>1. /\ pc = "poll_next" /\ pc' = "direct_tx"
          /\ UNCHANGED <<worker_rx, worker_tx, tx_queue>>
      BY <1>2 DEF PollRecv, wk_vars, tx_vars
    <2>2. wait_for_disp'["prior"] = wait_for_disp["prior"]
      BY <1>2 DEF PollRecv, TypeOK, QPs
    <2> QED
      BY <2>1, <2>2, WorkerInvElsewhere
  <1>3. CASE DirectTxBurst
    <2>1. /\ pc = "direct_tx" /\ pc' = "flush_prior"
          /\ UNCHANGED <<worker_rx, worker_tx>>
      BY <1>3 DEF DirectTxBurst, wk_vars
    <2>2. wait_for_disp'["prior"] = wait_for_disp["prior"]
      BY <1>3 DEF DirectTxBurst, PassOn, TypeOK, QPs
    <2>3. tx_queue'["next"] = tx_queue["next"]
      BY <1>3 DEF DirectTxBurst, TypeOK, QPs
    <2> QED
      BY <2>1, <2>2, <2>3, WorkerInvElsewhere
  <1>4. CASE TxBurst("prior", "flush_prior")
    <2>1. /\ pc = "flush_prior"
          /\ UNCHANGED <<pc, wait_for_disp, worker_rx, worker_tx>>
      BY <1>4 DEF TxBurst, rx_vars, wk_vars
    <2>2. tx_queue'["next"] = tx_queue["next"]
      BY <1>4 DEF TxBurst, TypeOK, QPs
    <2> QED
      BY <2>1, <2>2, WorkerInvElsewhere
  <1>5. CASE FlushDone("prior", "flush_prior", "check")
    BY <1>5, WorkerInvElsewhere DEF FlushDone, rx_vars, wk_vars, tx_vars
  <1> QED
    BY <1>1, <1>2, <1>3, <1>4, <1>5 DEF Backward

\* Every step keeps WorkerInv.
LEMMA WorkerInvNext == TypeOK /\ WorkerInv /\ [Next]_vars => WorkerInv'
  <1> SUFFICES ASSUME TypeOK, WorkerInv, [Next]_vars PROVE WorkerInv'
    OBVIOUS
  <1>1. CASE Launch
    BY <1>1, WorkerInvElsewhere DEF Launch, rx_vars, wk_vars, tx_vars
  <1>2. CASE Forward
    BY <1>2, WorkerInvForward
  <1>3. CASE Backward
    BY <1>3, WorkerInvBackward
  <1>4. CASE CheckTimeout
    BY <1>4, WorkerInvElsewhere DEF CheckTimeout, rx_vars, wk_vars, tx_vars
  <1>5. CASE Nic \/ Expire \/ UNCHANGED vars
    <2>1. UNCHANGED <<pc, wait_for_disp, worker_rx, worker_tx, tx_queue>>
      BY <1>5 DEF Nic, NicRecv, NicSendDone, PeerFails, Expire, vars, ctrl_vars,
                  rx_vars, wk_vars, tx_vars
    <2> QED
      BY <2>1 DEF WorkerInv
  <1>6. CASE Shutdown
    <2>1. pc' = "aborted" /\ UNCHANGED <<wait_for_disp, worker_rx, worker_tx, tx_queue>>
      BY <1>6, ShutdownStep DEF rx_vars, wk_vars, tx_vars
    <2>2. pc \in {"post_prior", "flush_next", "post_next", "flush_prior"}
      BY <1>6 DEF Shutdown, PostRecvsFails, TxBurstFails, PostFails
    <2> QED
      BY <2>1, <2>2 DEF WorkerInv
  <1> QED
    BY <1>1, <1>2, <1>3, <1>4, <1>5, <1>6 DEF Next, Wrapper, Stopped

\* Neither the dispatch to the worker nor the worker's own enqueue ever meets
\* a full queue, whatever the sizes, as long as SizingAssumption holds: no
\* packet is dropped on its way through the worker.
THEOREM NothingLostInWorkerQueues == Spec => []WorkerLosesNothing
  <1>1. Init => WorkerInv
    BY WorkerInvInit
  <1>2. TypeOK /\ WorkerInv /\ [Next]_vars => WorkerInv'
    BY WorkerInvNext
  <1>3. TypeOK /\ WorkerInv => WorkerLosesNothing
    <2> SUFFICES ASSUME TypeOK, WorkerInv PROVE WorkerLosesNothing
      OBVIOUS
    <2>1. /\ Len(worker_rx) \in Nat /\ Len(worker_tx) \in Nat
          /\ wait_for_disp["prior"] \in Nat
      <3>1. worker_rx \in Seq(Buffers) /\ worker_tx \in Seq(Buffers)
        BY DEF TypeOK
      <3>2. wait_for_disp["prior"] \in Nat
        BY DEF TypeOK, QPs
      <3> QED
        BY <3>1, <3>2
    <2> QED
      BY <2>1, RingAssumption, SizingAssumption
      DEF WorkerInv, WorkerLosesNothing, WsCapacity
  <1> QED
    BY <1>1, <1>2, <1>3, TypeCorrect, PTL DEF Spec


----------------------------------------------------------------------------
(* There is always room to flush. Whatever becomes of posts that fail, an  *)
(* entry of a receive ring counts once at most: as free, as posted or      *)
(* received, on its way, queued for sending, or for a work request that is *)
(* not free. Entries get lost, but none comes from nowhere.                *)

Ring(q) == {q} \X (0 .. NumRxRingEntries - 1)
FreeIn(q, st) == {b \in Ring(q) : st[b] = FREE}

Frees(q)    == Cardinality(FreeIn(q, state))
Posted(q)   == Len(rq[q])
Received(q) == Len(recv_cq[q])
Waits(q)    == wait_for_disp[q]
AtWorker(q) == IF q = "prior" THEN Len(worker_rx) + Len(worker_tx) ELSE 0
Queued(q)   == Len(tx_queue[Out(q)])
Busy(q)     == NumTxRingEntries - free_send_wr_num[Out(q)]

Used(q) ==
  Frees(q) + Posted(q) + Received(q) + Waits(q) + AtWorker(q) + Queued(q) + Busy(q)

CountInv == \A q \in QPs : Used(q) <= NumRxRingEntries

\* What leaves through a queue pair was received on the other one.
SideInv ==
  /\ \A q \in QPs : /\ tx_queue[Out(q)] \in Seq(Ring(q))
                    /\ \A k \in 0 .. NumTxRingEntries - 1 : sw_ring[Out(q)][k] \in Ring(q)
  /\ worker_rx \in Seq(Ring("prior")) /\ worker_tx \in Seq(Ring("prior"))

\* The two sides.
LEMMA Sides ==
  /\ QPs = {"prior", "next"} /\ Out("prior") = "next" /\ Out("next") = "prior"
  /\ \A q \in QPs : Out(q) \in QPs /\ Out(Out(q)) = q
  /\ \A q, r \in QPs : Out(q) = Out(r) => q = r
  BY DEF QPs, Out

\* A ring is a finite set of buffers, and so are the free ones of it.
LEMMA RingFinite ==
  ASSUME NEW q \in QPs
  PROVE  IsFiniteSet(Ring(q)) /\ Ring(q) \subseteq Buffers
<1>1. IsFiniteSet(0 .. NumRxRingEntries - 1)
  BY RingAssumption, FS_Interval
<1>2. IsFiniteSet({q})
  BY FS_Singleton
<1>3. IsFiniteSet(Ring(q))
  BY <1>1, <1>2, FS_Product DEF Ring
<1> QED
  BY <1>3 DEF Ring, Buffers

\* A ring entry is one of its ring.
LEMMA RxBufIn ==
  ASSUME NEW q \in QPs, NEW i \in Int
  PROVE  RxBuf(q, i) \in Ring(q)
  BY ModRange, RingAssumption DEF RxBuf, Ring

\* The number of free buffers of a ring.
LEMMA FreeFinite ==
  ASSUME NEW q \in QPs, NEW st
  PROVE  IsFiniteSet(FreeIn(q, st)) /\ Cardinality(FreeIn(q, st)) \in Nat
<1>1. FreeIn(q, st) \in SUBSET Ring(q)
  BY DEF FreeIn
<1>2. IsFiniteSet(FreeIn(q, st))
  BY <1>1, RingFinite, FS_Subset
<1> QED
  BY <1>2, FS_CardinalityType

\* Where no buffer becomes free, there are not more of them.
LEMMA FewerFree ==
  ASSUME NEW q \in QPs, NEW st, NEW old, \A b \in Ring(q) : st[b] = FREE => old[b] = FREE
  PROVE  Cardinality(FreeIn(q, st)) <= Cardinality(FreeIn(q, old))
<1>1. FreeIn(q, st) \in SUBSET FreeIn(q, old)
  BY DEF FreeIn
<1> QED
  BY <1>1, FreeFinite, FS_Subset

\* Where some become free, there are at most so many more.
LEMMA MoreFree ==
  ASSUME NEW q \in QPs, NEW st, NEW old, NEW n \in Nat, NEW f \in [1 .. n -> Ring(q)],
         \A b \in Ring(q) : st[b] = FREE => old[b] = FREE \/ \E i \in 1 .. n : b = f[i]
  PROVE  Cardinality(FreeIn(q, st)) <= Cardinality(FreeIn(q, old)) + n
<1> DEFINE S == FreeIn(q, old)
           T == {f[i] : i \in 1 .. n}
<1>1. IsFiniteSet(S) /\ Cardinality(S) \in Nat
  BY FreeFinite
<1>2. T \in SUBSET Ring(q)
  OBVIOUS
<1>3. IsFiniteSet(T)
  BY <1>2, RingFinite, FS_Subset
<1>4. Cardinality(T) \in Nat /\ Cardinality(T) <= n
  <2>1. f \in Surjection(1 .. n, T)
    BY DEF Surjection
  <2>2. ExistsSurjection(1 .. n, T)
    BY <2>1 DEF ExistsSurjection
  <2> QED
    BY <1>3, <2>2, FS_SurjCardinalityBound, FS_CardinalityType
<1>5. FreeIn(q, st) \in SUBSET (S \cup T)
  BY DEF FreeIn
<1> HIDE DEF S, T
<1>6. /\ IsFiniteSet(S \cup T)
      /\ Cardinality(S \cup T) = Cardinality(S) + Cardinality(T) - Cardinality(S \cap T)
  BY <1>1, <1>3, FS_Union
<1>7. Cardinality(S \cap T) \in Nat
  BY <1>1, FS_Intersection, FS_CardinalityType
<1>8. Cardinality(FreeIn(q, st)) <= Cardinality(S \cup T) /\ Cardinality(FreeIn(q, st)) \in Nat
  BY <1>5, <1>6, FS_Subset, FreeFinite
<1> QED
  BY <1>1, <1>4, <1>6, <1>7, <1>8 DEF S


\* Where a run of free ones is taken, there are so many less.
LEMMA LessFree ==
  ASSUME NEW q \in QPs, NEW st, NEW old, NEW n \in Nat, NEW f \in [1 .. n -> Ring(q)],
         \A i, j \in 1 .. n : f[i] = f[j] => i = j,
         \A i \in 1 .. n : old[f[i]] = FREE /\ st[f[i]] # FREE,
         \A b \in Ring(q) : st[b] = FREE => old[b] = FREE
  PROVE  Cardinality(FreeIn(q, st)) + n <= Cardinality(FreeIn(q, old))
<1> DEFINE S == FreeIn(q, old)
           T == {f[i] : i \in 1 .. n}
<1>1. IsFiniteSet(S) /\ Cardinality(S) \in Nat
  BY FreeFinite
<1>2. T \in SUBSET S
  BY DEF FreeIn
<1>3. IsFiniteSet(1 .. n) /\ Cardinality(1 .. n) = n
  BY FS_Interval
<1>4. Cardinality(T) = n
  <2>1. f \in Bijection(1 .. n, T)
    BY DEF Bijection, Injection, Surjection, IsInjective
  <2>2. ExistsBijection(1 .. n, T)
    BY <2>1 DEF ExistsBijection
  <2> QED
    BY <1>3, <2>2, FS_Bijection
<1>5. FreeIn(q, st) \in SUBSET (S \ T)
  BY DEF FreeIn
<1>6. S \cap T = T
  BY <1>2
<1> HIDE DEF S, T
<1>7. IsFiniteSet(S \ T) /\ Cardinality(S \ T) = Cardinality(S) - Cardinality(S \cap T)
  BY <1>1, FS_Difference
<1>8. Cardinality(FreeIn(q, st)) <= Cardinality(S \ T) /\ Cardinality(FreeIn(q, st)) \in Nat
  BY <1>5, <1>7, FS_Subset, FreeFinite
<1>9. Cardinality(S \ T) = Cardinality(S) - n
  BY <1>4, <1>6, <1>7
<1> QED
  BY <1>1, <1>8, <1>9 DEF S

UsedTypes ==
  \A q \in QPs :
    /\ Frees(q) \in Nat /\ Posted(q) \in Nat /\ Received(q) \in Nat /\ Waits(q) \in Nat
    /\ AtWorker(q) \in Nat /\ Queued(q) \in Nat /\ Busy(q) \in Int /\ Used(q) \in Int

\* All that is counted are numbers.
LEMMA UsedTyped == TypeOK => UsedTypes
<1> SUFFICES ASSUME TypeOK, NEW q \in QPs
             PROVE  /\ Frees(q) \in Nat /\ Posted(q) \in Nat /\ Received(q) \in Nat /\ Waits(q) \in Nat
                    /\ AtWorker(q) \in Nat /\ Queued(q) \in Nat /\ Busy(q) \in Int /\ Used(q) \in Int
  BY DEF UsedTypes
<1>1. Frees(q) \in Nat
  BY FreeFinite DEF Frees
<1>2. /\ rq[q] \in Seq(Buffers) /\ recv_cq[q] \in Seq(Buffers) /\ wait_for_disp[q] \in Nat
      /\ worker_rx \in Seq(Buffers) /\ worker_tx \in Seq(Buffers)
      /\ tx_queue[Out(q)] \in Seq(Buffers) /\ free_send_wr_num[Out(q)] \in Nat
  BY OutType DEF TypeOK
<1>3. Posted(q) \in Nat /\ Received(q) \in Nat /\ Waits(q) \in Nat /\ Queued(q) \in Nat
  BY <1>2 DEF Posted, Received, Waits, Queued
<1>4. AtWorker(q) \in Nat
  <2>1. Len(worker_rx) \in Nat /\ Len(worker_tx) \in Nat
    BY <1>2
  <2> QED
    BY <2>1 DEF AtWorker
<1>5. Busy(q) \in Int
  BY <1>2, RingAssumption DEF Busy
<1>6. Used(q) \in Int
  <2> SUFFICES ASSUME NEW f \in Nat, NEW p \in Nat, NEW r \in Nat, NEW w \in Nat, NEW a \in Nat,
                      NEW t \in Nat, NEW b \in Int
               PROVE  f + p + r + w + a + t + b \in Int
    BY <1>1, <1>3, <1>4, <1>5 DEF Used
  <2> QED
    OBVIOUS
<1> QED
  BY <1>1, <1>3, <1>4, <1>5, <1>6

\* At first all entries of both rings are posted.
LEMMA CountInit == Init => CountInv /\ SideInv
<1> SUFFICES ASSUME Init
             PROVE  CountInv /\ SideInv
  OBVIOUS
<1>1. SideInv
  <2>1. << >> \in Seq(Ring("prior")) /\ << >> \in Seq(Ring("next"))
    OBVIOUS
  <2>2. \A q \in QPs : <<q, 0>> \in Ring(q)
    BY RingAssumption DEF Ring
  <2> QED
    BY <2>1, <2>2, Sides DEF Init, SideInv
<1>2. ASSUME NEW q \in QPs
      PROVE  Used(q) = NumRxRingEntries
  <2>1. FreeIn(q, state) = {}
    BY RingFinite DEF Init, FreeIn, POSTED, FREE
  <2>2. Frees(q) = 0
    BY <2>1, FS_EmptySet DEF Frees
  <2>3. Posted(q) = NumRxRingEntries
    BY RingAssumption DEF Init, Posted, FilledQueue
  <2>4. Len(<< >>) = 0
    OBVIOUS
  <2>5. /\ Received(q) = 0 /\ Waits(q) = 0 /\ AtWorker(q) = 0 /\ Queued(q) = 0
    BY <2>4, Sides DEF Init, Received, Waits, AtWorker, Queued
  <2>6. Busy(q) = 0
    BY Sides, RingAssumption DEF Init, Busy
  <2> QED
    BY <2>2, <2>3, <2>5, <2>6, RingAssumption DEF Used
<1> QED
  BY <1>1, <1>2, RingAssumption DEF CountInv


\* They are after a step as well.
LEMMA UsedTypedNext == TypeOK' => UsedTypes'
  BY UsedTyped, PTL

\* No step makes the count of a ring grow.
LEMMA CountStep ==
  ASSUME TypeOK, TypeOK', CountInv, \A q \in QPs : Used(q)' <= Used(q)
  PROVE  CountInv'
<1> SUFFICES ASSUME NEW q \in QPs
             PROVE  Used(q)' <= NumRxRingEntries
  BY DEF CountInv
<1>1. Used(q) \in Int /\ Used(q)' \in Int
  BY UsedTyped, UsedTypedNext DEF UsedTypes
<1>2. Used(q) <= NumRxRingEntries /\ Used(q)' <= Used(q) /\ NumRxRingEntries \in Int
  BY RingAssumption DEF CountInv
<1> HIDE DEF Used
<1> QED
  BY <1>1, <1>2

\* What a step may do to the parts of the count.
LEMMA CountParts ==
  ASSUME TypeOK, TypeOK', NEW q \in QPs, NEW f \in Int, NEW p \in Int, NEW r \in Int,
         NEW w \in Int, NEW a \in Int, NEW t \in Int, NEW b \in Int,
         Frees(q)' <= Frees(q) + f, Posted(q)' <= Posted(q) + p, Received(q)' <= Received(q) + r,
         Waits(q)' <= Waits(q) + w, AtWorker(q)' <= AtWorker(q) + a, Queued(q)' <= Queued(q) + t,
         Busy(q)' <= Busy(q) + b, f + p + r + w + a + t + b <= 0
  PROVE  Used(q)' <= Used(q)
<1>1. /\ Frees(q) \in Int /\ Posted(q) \in Int /\ Received(q) \in Int /\ Waits(q) \in Int
      /\ AtWorker(q) \in Int /\ Queued(q) \in Int /\ Busy(q) \in Int
  BY UsedTyped DEF UsedTypes
<1>2. /\ Frees(q)' \in Int /\ Posted(q)' \in Int /\ Received(q)' \in Int /\ Waits(q)' \in Int
      /\ AtWorker(q)' \in Int /\ Queued(q)' \in Int /\ Busy(q)' \in Int
  BY UsedTypedNext DEF UsedTypes
<1>3. Used(q)' = Frees(q)' + Posted(q)' + Received(q)' + Waits(q)' + AtWorker(q)' + Queued(q)' + Busy(q)'
  BY DEF Used
<1> QED
  BY <1>1, <1>2, <1>3 DEF Used


\* What stays counts as before.
LEMMA Unmoved ==
  ASSUME TypeOK, NEW q \in QPs
  PROVE  /\ state' = state => Frees(q)' <= Frees(q) + 0
         /\ rq'[q] = rq[q] => Posted(q)' <= Posted(q) + 0
         /\ recv_cq'[q] = recv_cq[q] => Received(q)' <= Received(q) + 0
         /\ wait_for_disp'[q] = wait_for_disp[q] => Waits(q)' <= Waits(q) + 0
         /\ (q = "prior" => UNCHANGED <<worker_rx, worker_tx>>) => AtWorker(q)' <= AtWorker(q) + 0
         /\ tx_queue'[Out(q)] = tx_queue[Out(q)] => Queued(q)' <= Queued(q) + 0
         /\ free_send_wr_num'[Out(q)] = free_send_wr_num[Out(q)] => Busy(q)' <= Busy(q) + 0
<1>1. /\ Frees(q) \in Int /\ Posted(q) \in Int /\ Received(q) \in Int /\ Waits(q) \in Int
      /\ AtWorker(q) \in Int /\ Queued(q) \in Int /\ Busy(q) \in Int
  BY UsedTyped DEF UsedTypes
<1>2. /\ state' = state => Frees(q)' = Frees(q)
      /\ rq'[q] = rq[q] => Posted(q)' = Posted(q)
      /\ recv_cq'[q] = recv_cq[q] => Received(q)' = Received(q)
      /\ wait_for_disp'[q] = wait_for_disp[q] => Waits(q)' = Waits(q)
      /\ (q = "prior" => UNCHANGED <<worker_rx, worker_tx>>) => AtWorker(q)' = AtWorker(q)
      /\ tx_queue'[Out(q)] = tx_queue[Out(q)] => Queued(q)' = Queued(q)
      /\ free_send_wr_num'[Out(q)] = free_send_wr_num[Out(q)] => Busy(q)' = Busy(q)
  BY DEF Frees, FreeIn, Posted, Received, Waits, AtWorker, Queued, Busy
<1> QED
  BY <1>1, <1>2

\* Steps that move nothing.
LEMMA CountQuiet ==
  ASSUME TypeOK, TypeOK', CountInv, SideInv,
         UNCHANGED <<state, rx_vars, wk_vars, tx_vars, rq, recv_cq>>
  PROVE  CountInv' /\ SideInv'
<1>1. ASSUME NEW q \in QPs
      PROVE  Used(q)' <= Used(q)
  <2>1. /\ Frees(q)' <= Frees(q) + 0 /\ Posted(q)' <= Posted(q) + 0
        /\ Received(q)' <= Received(q) + 0 /\ Waits(q)' <= Waits(q) + 0
        /\ AtWorker(q)' <= AtWorker(q) + 0 /\ Queued(q)' <= Queued(q) + 0
        /\ Busy(q)' <= Busy(q) + 0
    BY Unmoved DEF rx_vars, wk_vars, tx_vars
  <2> QED
    BY <2>1, CountParts
<1>2. SideInv'
  BY DEF SideInv, wk_vars, tx_vars
<1> QED
  BY <1>1, <1>2, CountStep

\* A RECV completes.
LEMMA CountNicRecv ==
  ASSUME TypeOK, TypeOK', CountInv, SideInv, NEW q \in QPs, NicRecv(q)
  PROVE  CountInv' /\ SideInv'
<1>1. /\ rq[q] # << >>
      /\ recv_cq' = [recv_cq EXCEPT ![q] = Append(@, Head(rq[q]))]
      /\ rq' = [rq EXCEPT ![q] = Tail(@)]
      /\ UNCHANGED <<state, rx_vars, wk_vars, tx_vars>>
  BY DEF NicRecv
<1>2. /\ rq \in [QPs -> Seq(Buffers)] /\ recv_cq \in [QPs -> Seq(Buffers)]
      /\ rq[q] \in Seq(Buffers) /\ recv_cq[q] \in Seq(Buffers)
  BY DEF TypeOK
<1>3. /\ Len(rq'[q]) = Len(rq[q]) - 1 /\ Len(recv_cq'[q]) = Len(recv_cq[q]) + 1
      /\ \A r \in QPs \ {q} : rq'[r] = rq[r] /\ recv_cq'[r] = recv_cq[r]
  <2>1. Head(rq[q]) \in Buffers /\ Len(Tail(rq[q])) = Len(rq[q]) - 1
    BY <1>1, <1>2, HeadTailProperties
  <2>2. Len(Append(recv_cq[q], Head(rq[q]))) = Len(recv_cq[q]) + 1
    BY <1>2, <2>1
  <2> QED
    BY <1>1, <1>2, <2>1, <2>2
<1>4. ASSUME NEW r \in QPs
      PROVE  Used(r)' <= Used(r)
  <2>1. /\ Frees(r)' <= Frees(r) + 0 /\ Waits(r)' <= Waits(r) + 0
        /\ AtWorker(r)' <= AtWorker(r) + 0 /\ Queued(r)' <= Queued(r) + 0
        /\ Busy(r)' <= Busy(r) + 0
    BY <1>1, Unmoved DEF rx_vars, wk_vars, tx_vars
  <2>2. CASE r = q
    <3>1. Posted(r)' <= Posted(r) + (-1) /\ Received(r)' <= Received(r) + 1
      BY <1>2, <1>3, <2>2 DEF Posted, Received
    <3> QED
      BY <2>1, <3>1, CountParts
  <2>3. CASE r # q
    <3>1. Posted(r)' <= Posted(r) + 0 /\ Received(r)' <= Received(r) + 0
      BY <1>3, <2>3, Unmoved
    <3> QED
      BY <2>1, <3>1, CountParts
  <2> QED
    BY <2>2, <2>3
<1>5. SideInv'
  BY <1>1 DEF SideInv, wk_vars, tx_vars
<1> QED
  BY <1>4, <1>5, CountStep

\* __rx_burst polls.
LEMMA CountPoll ==
  ASSUME TypeOK, TypeOK', CountInv, SideInv, NEW q \in QPs, NEW from, NEW to,
         PollRecv(q, from, to)
  PROVE  CountInv' /\ SideInv'
<1> DEFINE ret == Least(Len(recv_cq[q]), RxBatchSize)
<1>1. /\ recv_cq' = [recv_cq EXCEPT ![q] = Drop(@, ret)]
      /\ wait_for_disp' = [wait_for_disp EXCEPT ![q] = @ + ret]
      /\ UNCHANGED <<state, wk_vars, tx_vars, rq>>
  BY DEF PollRecv
<1>2. /\ recv_cq \in [QPs -> Seq(Buffers)] /\ wait_for_disp \in [QPs -> Nat]
      /\ recv_cq[q] \in Seq(Buffers) /\ wait_for_disp[q] \in Nat
  BY DEF TypeOK
<1>3. ret \in 0 .. Len(recv_cq[q])
  <2>1. Len(recv_cq[q]) \in Nat
    BY <1>2
  <2> QED
    BY <2>1, RingAssumption DEF Least
<1> HIDE DEF ret
<1>4. /\ Len(recv_cq'[q]) = Len(recv_cq[q]) - ret
      /\ wait_for_disp'[q] = wait_for_disp[q] + ret
      /\ \A r \in QPs \ {q} : recv_cq'[r] = recv_cq[r] /\ wait_for_disp'[r] = wait_for_disp[r]
  <2>1. Len(Drop(recv_cq[q], ret)) = Len(recv_cq[q]) - ret
    BY <1>2, <1>3, PrefixAndRest
  <2> QED
    BY <1>1, <1>2, <2>1
<1>5. ASSUME NEW r \in QPs
      PROVE  Used(r)' <= Used(r)
  <2>1. /\ Frees(r)' <= Frees(r) + 0 /\ Posted(r)' <= Posted(r) + 0
        /\ AtWorker(r)' <= AtWorker(r) + 0 /\ Queued(r)' <= Queued(r) + 0
        /\ Busy(r)' <= Busy(r) + 0
    BY <1>1, Unmoved DEF wk_vars, tx_vars
  <2>2. CASE r = q
    <3>1. Received(r)' <= Received(r) + (-ret) /\ Waits(r)' <= Waits(r) + ret
      BY <1>2, <1>3, <1>4, <2>2 DEF Received, Waits
    <3>2. -ret \in Int /\ ret \in Int /\ 0 + 0 + (-ret) + ret + 0 + 0 + 0 <= 0
      BY <1>3
    <3> QED
      BY <2>1, <3>1, <3>2, CountParts
  <2>3. CASE r # q
    <3>1. Received(r)' <= Received(r) + 0 /\ Waits(r)' <= Waits(r) + 0
      BY <1>4, <2>3, Unmoved
    <3> QED
      BY <2>1, <3>1, CountParts
  <2> QED
    BY <2>2, <2>3
<1>6. SideInv'
  BY <1>1 DEF SideInv, wk_vars, tx_vars
<1> QED
  BY <1>5, <1>6, CountStep


\* __rx_burst posts the free entries again.
LEMMA CountPost ==
  ASSUME TypeOK, TypeOK', CountInv, SideInv, NEW q \in QPs, NEW from, NEW to,
         PostRecvs(q, from, to)
  PROVE  CountInv' /\ SideInv'
<1> DEFINE entry(i) == RxBuf(q, recv_head[q] + i)
<1>1. PICK n \in 0 .. NumRxRingEntries :
        /\ FreeRun(q, n)
        /\ \E posted \in Taken("recv", n) :
             rq' = [rq EXCEPT ![q] = @ \o [i \in 1 .. posted |-> entry(i - 1)]]
        /\ state' = Mark({entry(i) : i \in 0 .. n - 1}, POSTED)
  BY DEF PostRecvs
<1>2. UNCHANGED <<wait_for_disp, wk_vars, tx_vars, recv_cq>>
  BY DEF PostRecvs
<1>3. n \in Nat /\ n <= NumRxRingEntries /\ recv_head[q] \in Nat
  BY RingAssumption DEF TypeOK
<1>4. PICK posted \in 0 .. n :
        rq' = [rq EXCEPT ![q] = @ \o [i \in 1 .. posted |-> entry(i - 1)]]
  <2>1. Taken("recv", n) \subseteq 0 .. n
    BY <1>3 DEF Taken
  <2> QED
    BY <1>1, <2>1
<1>5. Posted(q)' <= Posted(q) + n /\ \A r \in QPs \ {q} : rq'[r] = rq[r]
  <2> DEFINE s == [i \in 1 .. posted |-> entry(i - 1)]
  <2>1. \A i \in 1 .. posted : entry(i - 1) \in Buffers
    BY <1>3, RxBufType
  <2>2. s \in Seq(Buffers) /\ Len(s) = posted /\ posted \in Nat /\ posted <= n
    BY <1>3, <2>1
  <2>3. rq \in [QPs -> Seq(Buffers)] /\ rq[q] \in Seq(Buffers)
    BY DEF TypeOK
  <2> HIDE DEF s
  <2>4. Len(rq[q] \o s) = Len(rq[q]) + posted /\ Len(rq[q]) \in Nat
    BY <2>2, <2>3, ConcatProperties, LenProperties
  <2>5. rq'[q] = rq[q] \o s /\ \A r \in QPs \ {q} : rq'[r] = rq[r]
    BY <1>4, <2>3 DEF s
  <2> QED
    BY <1>3, <2>4, <2>5 DEF Posted
<1> DEFINE f == [i \in 1 .. n |-> entry(i - 1)]
<1>6. f \in [1 .. n -> Ring(q)] /\ \A i \in 1 .. n : f[i] \in Buffers
  <2>1. \A i \in 1 .. n : entry(i - 1) \in Ring(q)
    BY <1>3, RxBufIn
  <2> QED
    BY <2>1, RingFinite
<1>7. ASSUME NEW i \in 1 .. n, NEW j \in 1 .. n, f[i] = f[j]
      PROVE  i = j
  <2> DEFINE x == recv_head[q] + (i - 1)
             y == recv_head[q] + (j - 1)
  <2>1. x % NumRxRingEntries = y % NumRxRingEntries
    BY <1>7 DEF RxBuf
  <2>2. x \in Int /\ y \in Int /\ x - y < NumRxRingEntries /\ y - x < NumRxRingEntries
    BY <1>3, RingAssumption
  <2> HIDE DEF x, y
  <2>3. x = y
    BY <2>1, <2>2, ModInjective, RingAssumption
  <2> QED
    BY <1>3, <2>3 DEF x, y
<1>8. \A i \in 1 .. n : state[f[i]] = FREE /\ f[i] \in {entry(k) : k \in 0 .. n - 1}
  <2>1. \A i \in 1 .. n : i - 1 \in 0 .. n - 1
    BY <1>3
  <2> QED
    BY <1>1, <2>1 DEF FreeRun
<1>9. \A b \in Buffers : state'[b] = IF b \in {entry(k) : k \in 0 .. n - 1} THEN POSTED ELSE state[b]
  BY <1>1 DEF Mark
<1>10. POSTED # FREE
  BY DEF POSTED, FREE
<1> HIDE DEF f
<1>11. Frees(q)' + n <= Frees(q)
  <2>1. /\ \A i \in 1 .. n : state[f[i]] = FREE /\ state'[f[i]] # FREE
        /\ \A b \in Ring(q) : state'[b] = FREE => state[b] = FREE
    BY <1>6, <1>8, <1>9, <1>10, RingFinite
  <2>2. Cardinality(FreeIn(q, state')) + n <= Cardinality(FreeIn(q, state))
    BY <1>3, <1>6, <1>7, <2>1, LessFree
  <2> QED
    BY <2>2 DEF Frees, FreeIn
<1>12. ASSUME NEW r \in QPs
       PROVE  Used(r)' <= Used(r)
  <2>1. /\ Received(r)' <= Received(r) + 0 /\ Waits(r)' <= Waits(r) + 0
        /\ AtWorker(r)' <= AtWorker(r) + 0 /\ Queued(r)' <= Queued(r) + 0
        /\ Busy(r)' <= Busy(r) + 0
    BY <1>2, Unmoved DEF wk_vars, tx_vars
  <2>2. CASE r = q
    <3>1. -n \in Int /\ n \in Int /\ (-n) + n + 0 + 0 + 0 + 0 + 0 <= 0
      BY <1>3
    <3>2. Frees(r)' <= Frees(r) + (-n)
      <4>1. Frees(q) \in Int /\ Frees(q)' \in Int
        BY UsedTyped, UsedTypedNext DEF UsedTypes
      <4> QED
        BY <1>3, <1>11, <2>2, <4>1
    <3>3. Posted(r)' <= Posted(r) + n
      BY <1>5, <2>2
    <3> QED
      BY <2>1, <3>1, <3>2, <3>3, CountParts
  <2>3. CASE r # q
    <3>1. Posted(r)' <= Posted(r) + 0
      BY <1>5, <2>3, Unmoved
    <3>2. Cardinality(FreeIn(r, state')) <= Cardinality(FreeIn(r, state))
      <4>1. \A b \in Ring(r) : state'[b] = FREE => state[b] = FREE
        BY <1>9, <1>10, RingFinite
      <4> QED
        BY <4>1, FewerFree
    <3>3. Frees(r)' <= Frees(r) + 0
      <4>1. Frees(r) \in Int /\ Frees(r)' \in Int
        BY UsedTyped, UsedTypedNext DEF UsedTypes
      <4>2. Frees(r)' <= Frees(r)
        BY <3>2 DEF Frees, FreeIn
      <4> QED
        BY <4>1, <4>2
    <3> QED
      BY <2>1, <3>1, <3>3, CountParts
  <2> QED
    BY <2>2, <2>3
<1>13. SideInv'
  BY <1>2 DEF SideInv, wk_vars, tx_vars
<1> QED
  BY <1>12, <1>13, CountStep


\* What waits on a ring are entries of it.
LEMMA WaitingIn ==
  ASSUME TypeOK, NEW q \in QPs
  PROVE  Waiting(q) \in Seq(Ring(q)) /\ Len(Waiting(q)) = wait_for_disp[q]
<1>1. wait_for_disp[q] \in Nat /\ ring_head[q] \in Int
  BY DEF TypeOK
<1>2. \A i \in 1 .. wait_for_disp[q] : RxBuf(q, ring_head[q] + i - 1) \in Ring(q)
  BY <1>1, RxBufIn
<1> QED
  BY <1>1, <1>2 DEF Waiting

\* All that waits goes to the worker.
LEMMA CountDispatch ==
  ASSUME TypeOK, TypeOK', WorkerInv, CountInv, SideInv, Dispatch
  PROVE  CountInv' /\ SideInv'
<1> DEFINE got  == Waiting("prior")
           n    == Least(Len(got), WsCapacity - Len(worker_rx))
           kept == SubSeq(got, 1, n)
<1>1. /\ pc = "dispatch" /\ worker_rx' = worker_rx \o kept
      /\ state' = Dispatched(Elems(kept), Elems(got))
      /\ wait_for_disp' = [wait_for_disp EXCEPT !["prior"] = @ - Len(got)]
      /\ UNCHANGED <<worker_tx, tx_vars, rq, recv_cq>>
  BY DEF Dispatch, PassOn, nic_vars
<1>2. "prior" \in QPs /\ wait_for_disp \in [QPs -> Nat]
  BY DEF TypeOK, QPs
<1>3. /\ got \in Seq(Ring("prior")) /\ Len(got) = wait_for_disp["prior"]
      /\ Len(got) \in Nat
  BY <1>2, WaitingIn
<1>4. worker_rx \in Seq(Ring("prior")) /\ Len(worker_rx) \in Nat /\ Len(worker_tx) \in Nat
  BY DEF SideInv
<1>5. n = Len(got)
  <2>1. Len(got) <= RxBatchSize /\ Len(worker_rx) <= AppRxMsgBatchSize
    BY <1>1, <1>3, <1>4, RingAssumption DEF WorkerInv
  <2> QED
    BY <1>3, <1>4, <2>1, RingAssumption, SizingAssumption DEF Least, WsCapacity
<1> HIDE DEF got, n
<1>6. /\ kept \in Seq(Ring("prior")) /\ Len(kept) = Len(got)
      /\ \A i \in 1 .. Len(got) : kept[i] = got[i]
  BY <1>3, <1>5
<1>7. Elems(got) = Elems(kept)
  BY <1>6 DEF Elems
<1> HIDE DEF kept
<1>8. ASSUME NEW q \in QPs
      PROVE  Frees(q)' <= Frees(q) + 0
  <2>1. \A b \in Ring(q) : state'[b] = FREE => state[b] = FREE
    BY <1>1, <1>7, RingFinite DEF Dispatched, APP_OWNED, FREE
  <2>2. Cardinality(FreeIn(q, state')) <= Cardinality(FreeIn(q, state))
    BY <2>1, FewerFree
  <2>3. Frees(q)' <= Frees(q)
    BY <2>2 DEF Frees, FreeIn
  <2>4. Frees(q) \in Int
    BY UsedTyped DEF UsedTypes
  <2> QED
    BY <2>3, <2>4
<1>9. ASSUME NEW q \in QPs
      PROVE  Used(q)' <= Used(q)
  <2>1. /\ Frees(q)' <= Frees(q) + 0 /\ Posted(q)' <= Posted(q) + 0
        /\ Received(q)' <= Received(q) + 0 /\ Queued(q)' <= Queued(q) + 0
        /\ Busy(q)' <= Busy(q) + 0
    BY <1>1, <1>8, Unmoved DEF tx_vars
  <2>2. CASE q = "prior"
    <3> DEFINE g == Len(got)
    <3>0. g \in Int
      BY <1>3
    <3>1. Waits(q)' <= Waits(q) + (-g)
      <4>1. wait_for_disp'["prior"] = wait_for_disp["prior"] - g
        BY <1>1, <1>2
      <4>2. wait_for_disp["prior"] \in Int
        BY <1>2
      <4> HIDE DEF g
      <4> QED
        BY <2>2, <3>0, <4>1, <4>2 DEF Waits
    <3>2. AtWorker(q)' <= AtWorker(q) + g
      <4>1. kept \in Seq(Ring("prior")) /\ Len(kept) = g
        BY <1>6
      <4> HIDE DEF g
      <4>2. Len(worker_rx \o kept) = Len(worker_rx) + Len(kept)
        BY <1>4, <4>1, ConcatProperties
      <4>3. Len(worker_rx') = Len(worker_rx) + g /\ Len(worker_tx') = Len(worker_tx)
        BY <1>1, <4>1, <4>2
      <4> QED
        BY <1>4, <2>2, <3>0, <4>3 DEF AtWorker
    <3>3. g \in Int /\ -g \in Int /\ 0 + 0 + 0 + (-g) + g + 0 + 0 <= 0
      BY <1>3
    <3> HIDE DEF g
    <3> QED
      BY <2>1, <3>1, <3>2, <3>3, CountParts
  <2>3. CASE q # "prior"
    <3>1. Waits(q)' <= Waits(q) + 0 /\ AtWorker(q)' <= AtWorker(q) + 0
      BY <1>1, <1>2, <2>3, Unmoved
    <3> QED
      BY <2>1, <3>1, CountParts
  <2> QED
    BY <2>2, <2>3
<1>10. SideInv'
  <2>1. worker_rx' \in Seq(Ring("prior"))
    BY <1>1, <1>4, <1>6, ConcatProperties
  <2> QED
    BY <1>1, <2>1 DEF SideInv, tx_vars
<1> QED
  BY <1>9, <1>10, CountStep

\* The worker passes on no more than it had.
LEMMA CountWorker ==
  ASSUME TypeOK, TypeOK', CountInv, SideInv, Worker
  PROVE  CountInv' /\ SideInv'
<1>1. UNCHANGED <<state, rx_vars, tx_vars, nic_vars>>
  BY DEF Worker
<1>2. worker_rx \in Seq(Ring("prior")) /\ worker_tx \in Seq(Ring("prior"))
  BY DEF SideInv
<1>3. /\ worker_rx' \in Seq(Ring("prior")) /\ worker_tx' \in Seq(Ring("prior"))
      /\ Len(worker_rx') + Len(worker_tx') <= Len(worker_rx) + Len(worker_tx)
  <2>1. CASE ~MessagesDue(Len(worker_rx))
    <3>1. UNCHANGED wk_vars
      BY <2>1 DEF Worker
    <3> QED
      BY <1>2, <3>1 DEF wk_vars
  <2>2. CASE MessagesDue(Len(worker_rx))
    <3> DEFINE n == Least(Len(worker_rx), WsCapacity - Len(worker_tx))
               s == SubSeq(worker_rx, 1, n)
    <3>1. worker_tx' = worker_tx \o s /\ worker_rx' = << >>
      BY <2>2 DEF Worker
    <3>2. Len(worker_rx) \in Nat /\ Len(worker_tx) \in Nat
      BY <1>2
    <3>3. n \in Int /\ n <= Len(worker_rx)
      BY <3>2, RingAssumption DEF Least, WsCapacity
    <3> HIDE DEF n
    <3>4. s \in Seq(Ring("prior")) /\ Len(s) <= Len(worker_rx) /\ Len(s) \in Nat
      <4>1. \A i \in 1 .. n : worker_rx[i] \in Ring("prior")
        BY <1>2, <3>2, <3>3
      <4>2. s \in Seq(Ring("prior")) /\ Len(s) = IF 1 <= n THEN n - 1 + 1 ELSE 0
        BY <1>2, <3>3, <4>1, SubSeqProperties
      <4> QED
        BY <3>2, <3>3, <4>2
    <3> HIDE DEF s
    <3>5. /\ worker_tx \o s \in Seq(Ring("prior"))
          /\ Len(worker_tx \o s) = Len(worker_tx) + Len(s)
      BY <1>2, <3>4, ConcatProperties
    <3>6. << >> \in Seq(Ring("prior")) /\ Len(<< >>) = 0
      OBVIOUS
    <3> QED
      BY <3>1, <3>2, <3>4, <3>5, <3>6
  <2> QED
    BY <2>1, <2>2
<1>4. ASSUME NEW q \in QPs
      PROVE  Used(q)' <= Used(q)
  <2>1. /\ Frees(q)' <= Frees(q) + 0 /\ Posted(q)' <= Posted(q) + 0
        /\ Received(q)' <= Received(q) + 0 /\ Waits(q)' <= Waits(q) + 0
        /\ Queued(q)' <= Queued(q) + 0 /\ Busy(q)' <= Busy(q) + 0
    BY <1>1, Unmoved DEF rx_vars, tx_vars, nic_vars
  <2>2. AtWorker(q)' <= AtWorker(q) + 0
    <3>1. /\ Len(worker_rx) \in Nat /\ Len(worker_tx) \in Nat
          /\ Len(worker_rx') \in Nat /\ Len(worker_tx') \in Nat
      BY <1>2, <1>3
    <3> QED
      BY <1>3, <3>1 DEF AtWorker
  <2> QED
    BY <2>1, <2>2, CountParts
<1>5. SideInv'
  BY <1>1, <1>3 DEF SideInv, tx_vars
<1> QED
  BY <1>4, <1>5, CountStep


\* What is appended to a transmit queue comes from its side.
LEMMA Filled ==
  ASSUME TypeOK, SideInv, NEW q \in QPs, NEW s \in Seq(Ring(q)), NEW l, l = Len(s),
         tx_queue' = [tx_queue EXCEPT ![Out(q)] = @ \o s],
         UNCHANGED <<worker_rx, sw_ring>>, worker_tx' \in Seq(Ring("prior"))
  PROVE  /\ SideInv'
         /\ Queued(q)' <= Queued(q) + l
         /\ \A r \in QPs \ {q} : Queued(r)' <= Queued(r) + 0
<1>1. /\ Out(q) \in QPs /\ tx_queue[Out(q)] \in Seq(Ring(q)) /\ tx_queue \in [QPs -> Seq(Buffers)]
      /\ \A r \in QPs \ {q} : Out(r) \in QPs /\ Out(r) # Out(q)
  BY Sides DEF SideInv, TypeOK
<1>2. /\ tx_queue[Out(q)] \o s \in Seq(Ring(q))
      /\ Len(tx_queue[Out(q)] \o s) = Len(tx_queue[Out(q)]) + l
      /\ Len(tx_queue[Out(q)]) \in Nat /\ l \in Nat
  BY <1>1, ConcatProperties, LenProperties
<1>3. /\ tx_queue'[Out(q)] = tx_queue[Out(q)] \o s
      /\ \A r \in QPs \ {q} : tx_queue'[Out(r)] = tx_queue[Out(r)]
  BY <1>1
<1>4. Queued(q)' <= Queued(q) + l
  <2>1. Queued(q)' = Len(tx_queue[Out(q)] \o s) /\ Queued(q) = Len(tx_queue[Out(q)])
    BY <1>3 DEF Queued
  <2> QED
    BY <1>2, <2>1
<1>5. \A r \in QPs \ {q} : Queued(r)' <= Queued(r) + 0
  BY <1>3, Unmoved
<1>6. SideInv'
  <2>1. \A r \in QPs : tx_queue'[Out(r)] \in Seq(Ring(r))
    BY <1>2, <1>3 DEF SideInv
  <2> QED
    BY <2>1 DEF SideInv
<1> QED
  BY <1>4, <1>5, <1>6

\* __collect_tx_pkts takes from the worker,
LEMMA CountCollect ==
  ASSUME TypeOK, TypeOK', CountInv, SideInv, Collect
  PROVE  CountInv' /\ SideInv'
<1> DEFINE n == Least(Len(worker_tx), TxRoom("next"))
           s == SubSeq(worker_tx, 1, n)
<1>1. /\ tx_queue' = [tx_queue EXCEPT !["next"] = @ \o s]
      /\ worker_tx' = Drop(worker_tx, n)
      /\ UNCHANGED <<state, rq, recv_cq, worker_rx, sw_ring, free_send_wr_num, wait_for_disp>>
  BY DEF Collect, rx_vars, nic_vars
<1>2. /\ worker_tx \in Seq(Ring("prior")) /\ Len(worker_tx) \in Nat
      /\ worker_rx \in Seq(Ring("prior")) /\ Len(worker_rx) \in Nat
      /\ "prior" \in QPs /\ "next" \in QPs /\ Out("prior") = "next"
  BY Sides DEF SideInv
<1>3. n \in 0 .. Len(worker_tx)
  BY <1>2, TxRoomType DEF Least
<1> HIDE DEF n
<1>4. /\ s \in Seq(Ring("prior")) /\ Len(s) = n
      /\ Drop(worker_tx, n) \in Seq(Ring("prior"))
      /\ Len(Drop(worker_tx, n)) = Len(worker_tx) - n
  BY <1>2, <1>3, PrefixAndRest
<1> HIDE DEF s
<1>5. /\ SideInv'
      /\ Queued("prior")' <= Queued("prior") + n
      /\ \A r \in QPs \ {"prior"} : Queued(r)' <= Queued(r) + 0
  <2>1. worker_tx' \in Seq(Ring("prior"))
    BY <1>1, <1>4
  <2> QED
    BY <1>1, <1>2, <1>4, <2>1, Filled
<1>6. AtWorker("prior")' <= AtWorker("prior") + (-n)
  <2>1. Len(worker_tx') = Len(worker_tx) - n /\ Len(worker_rx') = Len(worker_rx) /\ n \in Int
    BY <1>1, <1>3, <1>4
  <2> QED
    BY <1>2, <2>1 DEF AtWorker
<1>7. n \in Int /\ -n \in Int /\ 0 + 0 + 0 + 0 + (-n) + n + 0 <= 0
  BY <1>3
<1>8. ASSUME NEW r \in QPs
      PROVE  Used(r)' <= Used(r)
  <2>1. /\ Frees(r)' <= Frees(r) + 0 /\ Posted(r)' <= Posted(r) + 0
        /\ Received(r)' <= Received(r) + 0 /\ Waits(r)' <= Waits(r) + 0
        /\ Busy(r)' <= Busy(r) + 0
    BY <1>1, Unmoved
  <2>2. CASE r = "prior"
    <3>1. Queued(r)' <= Queued(r) + n /\ AtWorker(r)' <= AtWorker(r) + (-n)
      BY <1>5, <1>6, <2>2
    <3> QED
      BY <1>7, <2>1, <3>1, CountParts
  <2>3. CASE r # "prior"
    <3>1. Queued(r)' <= Queued(r) + 0 /\ AtWorker(r)' <= AtWorker(r) + 0
      BY <1>5, <2>3, Unmoved
    <3> QED
      BY <2>1, <3>1, CountParts
  <2> QED
    BY <2>2, <2>3
<1> QED
  BY <1>5, <1>8, CountStep

\* __direct_tx_burst from what waits.
LEMMA CountDirect ==
  ASSUME TypeOK, TypeOK', CountInv, SideInv, DirectTxBurst
  PROVE  CountInv' /\ SideInv'
<1> DEFINE n == DirectSize
           s == SubSeq(Waiting("next"), 1, n)
<1>1. /\ tx_queue' = [tx_queue EXCEPT !["prior"] = @ \o s]
      /\ wait_for_disp' = [wait_for_disp EXCEPT !["next"] = @ - n]
      /\ UNCHANGED <<state, rq, recv_cq, worker_rx, worker_tx, sw_ring, free_send_wr_num>>
  BY DEF DirectTxBurst, PassOn, nic_vars, wk_vars
<1>2. /\ "prior" \in QPs /\ "next" \in QPs /\ Out("next") = "prior"
      /\ wait_for_disp \in [QPs -> Nat] /\ wait_for_disp["next"] \in Nat
  BY Sides DEF TypeOK
<1>3. n \in 0 .. wait_for_disp["next"]
  BY <1>2, TxRoomType DEF DirectSize, Least
<1> HIDE DEF n
<1>4. s \in Seq(Ring("next")) /\ Len(s) = n
  BY <1>2, <1>3, WaitingIn, PrefixAndRest
<1> HIDE DEF s
<1>5. /\ SideInv'
      /\ Queued("next")' <= Queued("next") + n
      /\ \A r \in QPs \ {"next"} : Queued(r)' <= Queued(r) + 0
  <2>1. worker_tx' \in Seq(Ring("prior"))
    BY <1>1 DEF SideInv
  <2> QED
    BY <1>1, <1>2, <1>4, <2>1, Filled
<1>6. /\ Waits("next")' <= Waits("next") + (-n)
      /\ \A r \in QPs \ {"next"} : Waits(r)' <= Waits(r) + 0
  <2>1. n \in Int /\ wait_for_disp'["next"] = wait_for_disp["next"] - n
    BY <1>1, <1>2, <1>3
  <2>2. Waits("next")' <= Waits("next") + (-n)
    BY <1>2, <2>1 DEF Waits
  <2>3. \A r \in QPs \ {"next"} : wait_for_disp'[r] = wait_for_disp[r]
    BY <1>1, <1>2
  <2> QED
    BY <2>2, <2>3, Unmoved
<1>7. n \in Int /\ -n \in Int /\ 0 + 0 + 0 + (-n) + 0 + n + 0 <= 0
  BY <1>3
<1>8. ASSUME NEW r \in QPs
      PROVE  Used(r)' <= Used(r)
  <2>1. /\ Frees(r)' <= Frees(r) + 0 /\ Posted(r)' <= Posted(r) + 0
        /\ Received(r)' <= Received(r) + 0 /\ AtWorker(r)' <= AtWorker(r) + 0
        /\ Busy(r)' <= Busy(r) + 0
    BY <1>1, Unmoved
  <2>2. CASE r = "next"
    <3>1. Queued(r)' <= Queued(r) + n /\ Waits(r)' <= Waits(r) + (-n)
      BY <1>5, <1>6, <2>2
    <3> QED
      BY <1>7, <2>1, <3>1, CountParts
  <2>3. CASE r # "next"
    <3>1. Queued(r)' <= Queued(r) + 0 /\ Waits(r)' <= Waits(r) + 0
      BY <1>5, <1>6, <2>3
    <3> QED
      BY <2>1, <3>1, CountParts
  <2> QED
    BY <2>2, <2>3
<1> QED
  BY <1>5, <1>8, CountStep

\* What a burst does to the work requests and queues of its side.
LEMMA BurstSide ==
  ASSUME TypeOK, SideInv, NEW q \in QPs, NEW o, o = Out(q), NEW at, TxBurst(o, at)
  PROVE  \E reaped \in Nat, nb_tx \in Nat :
           /\ reaped = Reaped(o)
           /\ nb_tx = Least(FreeWrs(o), Len(tx_queue[o]))
           /\ Len(tx_queue'[o]) = Len(tx_queue[o]) - nb_tx
           /\ free_send_wr_num'[o] = free_send_wr_num[o] + reaped - nb_tx
           /\ SubSeq(tx_queue[o], 1, nb_tx) \in Seq(Ring(q))
           /\ Len(SubSeq(tx_queue[o], 1, nb_tx)) = nb_tx
           /\ Drop(tx_queue[o], nb_tx) \in Seq(Ring(q))
<1>1. o \in QPs /\ tx_queue[o] \in Seq(Ring(q)) /\ Len(tx_queue[o]) \in Nat
  <2>1. o \in QPs /\ tx_queue[o] \in Seq(Ring(q))
    BY Sides DEF SideInv
  <2> QED
    BY <2>1
<1>2. Reaped(o) \in Nat
  <2>1. Len(send_cq[o]) \in Nat
    BY <1>1 DEF TypeOK
  <2> QED
    BY <2>1, RingAssumption DEF Reaped, Least
<1>3. free_send_wr_num[o] \in Nat /\ FreeWrs(o) \in Nat
  <2>1. free_send_wr_num \in [QPs -> Nat]
    BY DEF TypeOK
  <2>2. free_send_wr_num[o] \in Nat
    BY <1>1, <2>1
  <2> QED
    BY <1>2, <2>2 DEF FreeWrs
<1> DEFINE reaped == Reaped(o)
           nb_tx  == Least(FreeWrs(o), Len(tx_queue[o]))
<1>4. nb_tx \in 0 .. Len(tx_queue[o]) /\ nb_tx \in Nat
  BY <1>1, <1>3 DEF Least
<1>5. /\ tx_queue'[o] = Drop(tx_queue[o], nb_tx)
      /\ free_send_wr_num'[o] = free_send_wr_num[o] + reaped - nb_tx
  <2>1. tx_queue \in [QPs -> Seq(Buffers)] /\ free_send_wr_num \in [QPs -> Nat]
    BY DEF TypeOK
  <2>2. /\ tx_queue' = [tx_queue EXCEPT ![o] = Drop(@, nb_tx)]
        /\ free_send_wr_num' = [free_send_wr_num EXCEPT ![o] = FreeWrs(o) - nb_tx]
    BY DEF TxBurst
  <2> HIDE DEF nb_tx
  <2>3. FreeWrs(o) = free_send_wr_num[o] + reaped
    BY DEF FreeWrs
  <2>4. free_send_wr_num'[o] = FreeWrs(o) - nb_tx
    BY <1>1, <2>1, <2>2
  <2>5. tx_queue'[o] = Drop(tx_queue[o], nb_tx)
    BY <1>1, <2>1, <2>2
  <2>6. free_send_wr_num'[o] = free_send_wr_num[o] + reaped - nb_tx
    BY <1>2, <1>3, <1>4, <2>3, <2>4
  <2> QED
    BY <2>5, <2>6
<1> HIDE DEF nb_tx
<1>6. /\ SubSeq(tx_queue[o], 1, nb_tx) \in Seq(Ring(q))
      /\ Len(SubSeq(tx_queue[o], 1, nb_tx)) = nb_tx
      /\ Drop(tx_queue[o], nb_tx) \in Seq(Ring(q))
      /\ Len(Drop(tx_queue[o], nb_tx)) = Len(tx_queue[o]) - nb_tx
  <2> DEFINE s == tx_queue[o]
  <2>1. s \in Seq(Ring(q)) /\ nb_tx \in 0 .. Len(s)
    BY <1>1, <1>4
  <2> HIDE DEF s
  <2>2. /\ SubSeq(s, 1, nb_tx) \in Seq(Ring(q)) /\ Len(SubSeq(s, 1, nb_tx)) = nb_tx
        /\ Drop(s, nb_tx) \in Seq(Ring(q)) /\ Len(Drop(s, nb_tx)) = Len(s) - nb_tx
    BY <2>1, PrefixAndRest
  <2> QED
    BY <2>2 DEF s
<1> QED
  BY <1>2, <1>4, <1>5, <1>6 DEF nb_tx

\* The buffers reaped are of the ring, no more of them than completions.
LEMMA BurstFrees ==
  ASSUME TypeOK, SideInv, NEW q \in QPs, NEW o, o = Out(q), NEW at, TxBurst(o, at),
         NEW n \in Nat, n = Reaped(o)
  PROVE  /\ Cardinality(FreeIn(q, state')) <= Cardinality(FreeIn(q, state)) + n
         /\ \A r \in QPs \ {q} : Cardinality(FreeIn(r, state')) <= Cardinality(FreeIn(r, state))
<1> DEFINE f == [i \in 1 .. n |-> sw_ring[o][(send_head[o] + (i - 1)) % NumTxRingEntries]]
           freed == Completed(o, n)
<1>1. o \in QPs /\ send_head[o] \in Int
  <2>1. o \in QPs
    BY Sides
  <2> QED
    BY <2>1, RingAssumption DEF TypeOK
<1>2. f \in [1 .. n -> Ring(q)]
  <2>1. ASSUME NEW i \in 1 .. n
        PROVE  sw_ring[o][(send_head[o] + (i - 1)) % NumTxRingEntries] \in Ring(q)
    <3>1. send_head[o] + (i - 1) \in Int
      BY <1>1
    <3>2. (send_head[o] + (i - 1)) % NumTxRingEntries \in 0 .. NumTxRingEntries - 1
      BY <3>1, ModRange, RingAssumption
    <3> QED
      BY <3>2 DEF SideInv
  <2> QED
    BY <2>1
<1>3. \A b \in freed : \E i \in 1 .. n : b = f[i]
  <2> SUFFICES ASSUME NEW j \in 0 .. n - 1
               PROVE  \E i \in 1 .. n :
                        sw_ring[o][(send_head[o] + j) % NumTxRingEntries] = f[i]
    BY DEF Completed
  <2>1. j + 1 \in 1 .. n /\ (j + 1) - 1 = j
    OBVIOUS
  <2>2. f[j + 1] = sw_ring[o][(send_head[o] + j) % NumTxRingEntries]
    BY <2>1
  <2> QED
    BY <2>1, <2>2
<1>4. \A b \in Buffers : state'[b] = FREE => state[b] = FREE \/ b \in freed
  BY DEF TxBurst, POSTED, FREE
<1> HIDE DEF f, freed
<1>5. Cardinality(FreeIn(q, state')) <= Cardinality(FreeIn(q, state)) + n
  <2>1. \A b \in Ring(q) : state'[b] = FREE => state[b] = FREE \/ \E i \in 1 .. n : b = f[i]
    BY <1>3, <1>4, RingFinite
  <2> QED
    BY <1>2, <2>1, MoreFree
<1>6. ASSUME NEW r \in QPs \ {q}
      PROVE  Cardinality(FreeIn(r, state')) <= Cardinality(FreeIn(r, state))
  <2>1. \A b \in Ring(r) : b \notin Ring(q)
    BY DEF Ring
  <2>2. \A b \in Ring(r) : b \notin freed
    BY <1>2, <1>3, <2>1
  <2>3. \A b \in Ring(r) : state'[b] = FREE => state[b] = FREE
    BY <1>4, <2>2, RingFinite
  <2> QED
    BY <2>3, FewerFree
<1> QED
  BY <1>5, <1>6

\* A burst mounts what it takes off the transmit queue.
LEMMA BurstMounts ==
  ASSUME TypeOK, SideInv, NEW q \in QPs, NEW o, o = Out(q), NEW at, TxBurst(o, at)
  PROVE  SideInv'
<1>1. PICK nb_tx \in Nat :
        /\ nb_tx = Least(FreeWrs(o), Len(tx_queue[o]))
        /\ SubSeq(tx_queue[o], 1, nb_tx) \in Seq(Ring(q))
        /\ Len(SubSeq(tx_queue[o], 1, nb_tx)) = nb_tx
        /\ Drop(tx_queue[o], nb_tx) \in Seq(Ring(q))
  BY BurstSide
<1> DEFINE mounted == SubSeq(tx_queue[o], 1, nb_tx)
<1>2. /\ tx_queue' = [tx_queue EXCEPT ![o] = Drop(@, nb_tx)]
      /\ sw_ring' = [sw_ring EXCEPT ![o] =
            [k \in 0 .. NumTxRingEntries - 1 |->
               IF \E i \in 1 .. nb_tx : SendSlot(o, i) = k
               THEN mounted[CHOOSE i \in 1 .. nb_tx : SendSlot(o, i) = k]
               ELSE @[k]]]
      /\ UNCHANGED wk_vars
  BY <1>1 DEF TxBurst
<1>3. mounted \in Seq(Ring(q)) /\ Len(mounted) = nb_tx
  BY <1>1
<1> HIDE DEF mounted
<1>4. \A i \in 1 .. nb_tx : mounted[i] \in Ring(q)
  BY <1>3
<1>5. /\ o \in QPs /\ tx_queue \in [QPs -> Seq(Buffers)]
      /\ sw_ring \in [QPs -> [0 .. NumTxRingEntries - 1 -> Buffers]]
      /\ \A r \in QPs \ {q} : Out(r) \in QPs /\ Out(r) # o
  BY Sides DEF TypeOK
<1>6. \A r \in QPs : tx_queue'[Out(r)] \in Seq(Ring(r))
  BY <1>1, <1>2, <1>5 DEF SideInv
<1>7. ASSUME NEW r \in QPs, NEW k \in 0 .. NumTxRingEntries - 1
      PROVE  sw_ring'[Out(r)][k] \in Ring(r)
  <2>1. CASE r # q
    BY <1>2, <1>5, <2>1 DEF SideInv
  <2>2. CASE r = q /\ \E i \in 1 .. nb_tx : SendSlot(o, i) = k
    <3>1. (CHOOSE i \in 1 .. nb_tx : SendSlot(o, i) = k) \in 1 .. nb_tx
      BY <2>2
    <3>2. mounted[CHOOSE i \in 1 .. nb_tx : SendSlot(o, i) = k] \in Ring(q)
      BY <1>4, <3>1
    <3>3. sw_ring'[o][k] = mounted[CHOOSE i \in 1 .. nb_tx : SendSlot(o, i) = k]
      BY <1>2, <1>5, <2>2
    <3> QED
      BY <2>2, <3>2, <3>3
  <2>3. CASE r = q /\ ~\E i \in 1 .. nb_tx : SendSlot(o, i) = k
    <3>1. sw_ring'[o][k] = sw_ring[o][k]
      BY <1>2, <1>5, <2>3
    <3> QED
      BY <2>3, <3>1 DEF SideInv
  <2> QED
    BY <2>1, <2>2, <2>3
<1> QED
  BY <1>2, <1>6, <1>7 DEF SideInv, wk_vars

\* Work requests are reaped and mounted.
LEMMA CountTxBurst ==
  ASSUME TypeOK, TypeOK', CountInv, SideInv, NEW q \in QPs, NEW o, o = Out(q), NEW at,
         TxBurst(o, at)
  PROVE  CountInv' /\ SideInv'
<1>1. PICK n \in Nat, m \in Nat :
        /\ n = Reaped(o)
        /\ Len(tx_queue'[o]) = Len(tx_queue[o]) - m
        /\ free_send_wr_num'[o] = free_send_wr_num[o] + n - m
  BY BurstSide
<1>2. /\ Cardinality(FreeIn(q, state')) <= Cardinality(FreeIn(q, state)) + n
      /\ \A r \in QPs \ {q} : Cardinality(FreeIn(r, state')) <= Cardinality(FreeIn(r, state))
  BY <1>1, BurstFrees
<1>3. Frees(q)' <= Frees(q) + n /\ \A r \in QPs \ {q} : Frees(r)' <= Frees(r) + 0
  <2>1. \A r \in QPs : Frees(r) \in Int
    BY UsedTyped DEF UsedTypes
  <2>2. Frees(q)' <= Frees(q) + n /\ \A r \in QPs \ {q} : Frees(r)' <= Frees(r)
    BY <1>2 DEF Frees, FreeIn
  <2> QED
    BY <2>1, <2>2
<1>4. /\ Queued(q)' <= Queued(q) + (-m)
      /\ Busy(q)' <= Busy(q) + (m - n)
  <2>1. /\ o \in QPs /\ Len(tx_queue[o]) \in Nat
        /\ free_send_wr_num[o] \in Nat /\ NumTxRingEntries \in Nat
    <3>1. o \in QPs
      BY Sides
    <3>2. tx_queue[o] \in Seq(Buffers) /\ free_send_wr_num[o] \in Nat
      BY <3>1 DEF TypeOK
    <3>3. Len(tx_queue[o]) \in Nat
      BY <3>2
    <3> QED
      BY <3>1, <3>2, <3>3, RingAssumption
  <2>2. Queued(q)' <= Queued(q) + (-m)
    <3>1. Queued(q)' = Len(tx_queue'[o]) /\ Queued(q) = Len(tx_queue[o])
      BY DEF Queued
    <3>2. Queued(q)' = Queued(q) - m /\ Queued(q) \in Nat
      BY <1>1, <2>1, <3>1
    <3> QED
      BY <3>2
  <2>3. Busy(q)' <= Busy(q) + (m - n)
    BY <1>1, <2>1 DEF Busy
  <2> QED
    BY <2>2, <2>3
<1>5. n + 0 + 0 + 0 + 0 + (-m) + (m - n) <= 0 /\ -m \in Int /\ m - n \in Int /\ n \in Int
  OBVIOUS
<1>6. ASSUME NEW r \in QPs
      PROVE  Used(r)' <= Used(r)
  <2>1. /\ Posted(r)' <= Posted(r) + 0 /\ Received(r)' <= Received(r) + 0
        /\ Waits(r)' <= Waits(r) + 0 /\ AtWorker(r)' <= AtWorker(r) + 0
    BY Unmoved DEF TxBurst, rx_vars, wk_vars
  <2>2. CASE r = q
    <3>1. /\ Frees(r)' <= Frees(r) + n /\ Queued(r)' <= Queued(r) + (-m)
          /\ Busy(r)' <= Busy(r) + (m - n)
      BY <1>3, <1>4, <2>2
    <3> QED
      BY <1>5, <2>1, <3>1, CountParts
  <2>3. CASE r # q
    <3>1. Out(r) # o
      BY <2>3, Sides
    <3>2. /\ tx_queue'[Out(r)] = tx_queue[Out(r)]
          /\ free_send_wr_num'[Out(r)] = free_send_wr_num[Out(r)]
      BY <3>1, Sides DEF TxBurst, TypeOK
    <3>3. /\ Frees(r)' <= Frees(r) + 0 /\ Queued(r)' <= Queued(r) + 0
          /\ Busy(r)' <= Busy(r) + 0
      BY <1>3, <2>3, <3>2, Unmoved
    <3> QED
      BY <2>1, <3>3, CountParts
  <2> QED
    BY <2>2, <2>3
<1>7. SideInv'
  BY BurstMounts
<1> QED
  BY <1>6, <1>7, CountStep

\* No step counts an entry twice.
LEMMA CountNext ==
  TypeOK /\ WorkerInv /\ CountInv /\ SideInv /\ [Next]_vars => CountInv' /\ SideInv'
<1> SUFFICES ASSUME TypeOK, WorkerInv, CountInv, SideInv, [Next]_vars
             PROVE  CountInv' /\ SideInv'
  OBVIOUS
<1>1. TypeOK'
  BY NextType
<1>2. /\ "prior" \in QPs /\ "next" \in QPs
      /\ Out("prior") = "next" /\ Out("next") = "prior"
  BY Sides
<1>3. CASE Launch \/ CheckTimeout \/ Expire \/ Shutdown \/ UNCHANGED vars
  <2>1. UNCHANGED <<state, rx_vars, wk_vars, tx_vars, rq, recv_cq>>
    BY <1>3, ShutdownStep DEF Launch, CheckTimeout, Expire, vars, nic_vars
  <2> QED
    BY <1>1, <2>1, CountQuiet
<1>4. CASE Forward
  <2>1. CASE PostRecvs("prior", "post_prior", "poll_prior")
    BY <1>1, <1>2, <2>1, CountPost
  <2>2. CASE PollRecv("prior", "poll_prior", "dispatch")
    BY <1>1, <1>2, <2>2, CountPoll
  <2>3. CASE Dispatch
    BY <1>1, <2>3, CountDispatch
  <2>4. CASE Worker
    BY <1>1, <2>4, CountWorker
  <2>5. CASE Collect
    BY <1>1, <2>5, CountCollect
  <2>6. CASE TxBurst("next", "flush_next")
    BY <1>1, <1>2, <2>6, CountTxBurst
  <2>7. CASE FlushDone("next", "flush_next", "post_next")
    <3>1. UNCHANGED <<state, rx_vars, wk_vars, tx_vars, rq, recv_cq>>
      BY <2>7 DEF FlushDone, nic_vars
    <3> QED
      BY <1>1, <3>1, CountQuiet
  <2> QED
    BY <1>4, <2>1, <2>2, <2>3, <2>4, <2>5, <2>6, <2>7 DEF Forward
<1>5. CASE Backward
  <2>1. CASE PostRecvs("next", "post_next", "poll_next")
    BY <1>1, <1>2, <2>1, CountPost
  <2>2. CASE PollRecv("next", "poll_next", "direct_tx")
    BY <1>1, <1>2, <2>2, CountPoll
  <2>3. CASE DirectTxBurst
    BY <1>1, <2>3, CountDirect
  <2>4. CASE TxBurst("prior", "flush_prior")
    BY <1>1, <1>2, <2>4, CountTxBurst
  <2>5. CASE FlushDone("prior", "flush_prior", "check")
    <3>1. UNCHANGED <<state, rx_vars, wk_vars, tx_vars, rq, recv_cq>>
      BY <2>5 DEF FlushDone, nic_vars
    <3> QED
      BY <1>1, <3>1, CountQuiet
  <2> QED
    BY <1>5, <2>1, <2>2, <2>3, <2>4, <2>5 DEF Backward
<1>6. CASE Nic
  <2>1. PICK q \in QPs : NicRecv(q) \/ NicSendDone(q) \/ PeerFails(q)
    BY <1>6 DEF Nic
  <2>2. CASE NicRecv(q)
    BY <1>1, <2>2, CountNicRecv
  <2>3. CASE NicSendDone(q) \/ PeerFails(q)
    <3>1. UNCHANGED <<state, rx_vars, wk_vars, tx_vars, rq, recv_cq>>
      BY <2>3 DEF NicSendDone, PeerFails
    <3> QED
      BY <1>1, <3>1, CountQuiet
  <2> QED
    BY <2>1, <2>2, <2>3
<1> QED
  BY <1>3, <1>4, <1>5, <1>6 DEF Next, Wrapper, Stopped

\* What is queued and what is mounted of a ring fits into the other ring.
LEMMA RoomToFlush == TypeOK /\ CountInv => FlushNeverWaits
<1> SUFFICES ASSUME TypeOK, CountInv, NEW q \in QPs
             PROVE  Len(tx_queue[q]) <= free_send_wr_num[q] + Len(send_cq[q])
  BY DEF FlushNeverWaits
<1> DEFINE p == Out(q)
<1>1. p \in QPs /\ Out(p) = q
  BY Sides
<1>2. /\ Frees(p) \in Nat /\ Posted(p) \in Nat /\ Received(p) \in Nat /\ Waits(p) \in Nat
      /\ AtWorker(p) \in Nat /\ Queued(p) \in Nat /\ Busy(p) \in Int
  BY <1>1, UsedTyped DEF UsedTypes
<1>3. Used(p) <= NumRxRingEntries
  BY <1>1 DEF CountInv
<1>4. /\ NumRxRingEntries <= NumTxRingEntries
      /\ NumTxRingEntries \in Nat /\ NumRxRingEntries \in Nat
  BY RingAssumption, SizingAssumption
<1> HIDE DEF p
<1>5. Queued(p) + Busy(p) <= NumTxRingEntries
  BY <1>2, <1>3, <1>4 DEF Used
<1>6. Queued(p) = Len(tx_queue[q]) /\ Busy(p) = NumTxRingEntries - free_send_wr_num[q]
  BY <1>1 DEF Queued, Busy
<1>7. free_send_wr_num[q] \in Nat /\ Len(send_cq[q]) \in Nat
  <2>1. free_send_wr_num[q] \in Nat /\ send_cq[q] \in Seq(Buffers)
    BY DEF TypeOK
  <2> QED
    BY <2>1
<1>8. Len(tx_queue[q]) \in Nat
  BY <1>2, <1>6
<1> QED
  BY <1>4, <1>5, <1>6, <1>7, <1>8

\* __tx_flush never waits for the peer, whatever the sizes (as long as the
\* transmit ring is no smaller than the receive ring), whether or not the
\* posting of work requests fails and whether or not the neighbours live.
THEOREM FlushAlwaysHasRoom == Spec => []FlushNeverWaits
<1>1. Init => WorkerInv /\ CountInv /\ SideInv
  BY WorkerInvInit, CountInit
<1>2. TypeOK /\ WorkerInv /\ CountInv /\ SideInv /\ [Next]_vars
        => WorkerInv' /\ CountInv' /\ SideInv'
  BY WorkerInvNext, CountNext
<1>3. TypeOK /\ CountInv => FlushNeverWaits
  BY RoomToFlush
<1> QED
  BY <1>1, <1>2, <1>3, TypeCorrect, PTL DEF Spec

=============================================================================
