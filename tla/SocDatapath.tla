---------------------------- MODULE SocDatapath ----------------------------
(***************************************************************************)
(* The data path of a SoC component block: one SoCWrapper thread that      *)
(* relays RDMA buffers between the queue pair towards the prior component  *)
(* block and the one towards the next block, together with the NIC that    *)
(* fills and drains the queue pairs behind its back.                       *)
(*                                                                         *)
(* One iteration of SoCWrapper::__launch is a fixed sequence of calls; each*)
(* call is one action here, and NIC events may happen between any two.     *)
(* Buffers of the receive ring of `prior' leave through `next' (via the    *)
(* worker queues and the user's message handler), those of `next' leave    *)
(* directly through `prior'.                                               *)
(***************************************************************************)
EXTENDS Integers, Sequences, FiniteSets

CONSTANTS
  NumRxRingEntries,   \* RDMA_SoC_QP::kNumRxRingEntries  (2048)
  NumTxRingEntries,   \* RDMA_SoC_QP::kNumTxRingEntries  (2048)
  WsQueueSize,        \* kWsQueueSize                    (1024)
  AppRxMsgBatchSize,  \* SoCWrapper::kAppRxMsgBatchSize  (32)
  TxBatchSize,        \* SoCWrapper::kTxBatchSize        (32)
  RxBatchSize,        \* SoCWrapper::kRxBatchSize        (128)
  Senders,            \* the neighbours that send packets to this block
  Failing,            \* the neighbours that may fail, and their queue pair with them
  PostFaults,         \* which of ibv_post_send / ibv_post_recv may fail
  Throws              \* NICC_ERROR throws: NICC_PRINT_ERROR is set (the default)

QPs == {"prior", "next"}

ASSUME RingAssumption ==
  /\ NumRxRingEntries \in Nat \ {0}
  /\ NumTxRingEntries \in Nat \ {0}
  /\ WsQueueSize \in Nat \ {0}
  /\ AppRxMsgBatchSize \in Nat
  /\ TxBatchSize \in Nat \ {0}
  /\ RxBatchSize \in Nat \ {0}
\* True of 32 + 128 packets, queues of 1023 and a transmit queue of 2048 that
\* is flushed from 32 packets on. Nothing in the code checks it.
ASSUME SizingAssumption ==
  /\ AppRxMsgBatchSize + RxBatchSize <= WsQueueSize - 1
  /\ AppRxMsgBatchSize + RxBatchSize <= NumTxRingEntries - TxBatchSize + 1
  /\ NumRxRingEntries <= NumTxRingEntries
ASSUME EnvironmentAssumption ==
  /\ Senders \subseteq QPs
  /\ Failing \subseteq QPs
  /\ PostFaults \subseteq {"send", "recv"}
  /\ Throws \in BOOLEAN

\* The values of Buffer::state_ (buffer.h).
POSTED    == "POSTED"
APP_OWNED == "APP_OWNED_BUF"
FREE      == "FREE_BUF"

\* Buffer number i of the receive ring of a queue pair.
Buffers == QPs \X (0 .. NumRxRingEntries - 1)
RxBuf(q, i) == <<q, i % NumRxRingEntries>>

\* The queue pair through which the packets received on q leave, and back.
Out(q) == IF q = "prior" THEN "next" ELSE "prior"

VARIABLES
  pc,               \* the next call of the wrapper thread
  expired,          \* the running time given to __run is over
  state,            \* Buffer::state_
  content,          \* the memory of a buffer and its length_: "empty" since
                    \* it was posted, "raw" once the NIC wrote a packet,
                    \* "sized" once length_ is that packet's length
  recv_head,        \* _recv_head: next receive ring entry to post
  ring_head,        \* _ring_head: oldest received entry not yet passed on
  wait_for_disp,    \* _wait_for_disp: received entries not yet passed on
  worker_rx,        \* _tmp_worker_rx_queue, a FIFO of WsQueueSize - 1
  worker_tx,        \* _tmp_worker_tx_queue, a FIFO of WsQueueSize - 1
  tx_queue,         \* _tx_queue[tx .. _tx_queue_idx - 1], still to be posted
  sw_ring,          \* _sw_ring: the buffer mounted on each send WR
  send_head,        \* _send_head: oldest send WR not yet reaped
  send_tail,        \* _send_tail: next send WR to use
  free_send_wr_num, \* _free_send_wr_num
  failed,           \* NIC: the queue pair is in the error state
  rq, recv_cq,      \* NIC: posted RECVs, and RECV completions not yet polled
  sq, send_cq       \* NIC: posted SENDs, and SEND completions not yet polled

ctrl_vars == <<pc, expired>>
rx_vars   == <<recv_head, ring_head, wait_for_disp>>
wk_vars   == <<worker_rx, worker_tx>>
tx_vars   == <<tx_queue, sw_ring, send_head, send_tail, free_send_wr_num>>
nic_vars  == <<failed, rq, recv_cq, sq, send_cq>>
vars == <<ctrl_vars, state, content, rx_vars, wk_vars, tx_vars, nic_vars>>

PCs == {"idle", "check", "stopped", "aborted",
        "post_prior", "poll_prior", "dispatch", "worker", "collect",
        "flush_next", "post_next", "poll_next", "direct_tx", "flush_prior"}

Least(a, b) == IF a <= b THEN a ELSE b
Elems(s) == {s[i] : i \in 1 .. Len(s)}
Drop(s, n) == SubSeq(s, n + 1, Len(s))

\* How the ring indices move. (Bug_ marks a slip; see below.)
Bug_AdvanceNoWrap(h, n) == h + n
Advance(h, n) == (h + n) % NumRxRingEntries

\* What fits into a soc_shm_lock_free_queue: one slot always stays free.
Bug_WsCapacityTwoFree == WsQueueSize - 2
WsCapacity == WsQueueSize - 1

Mark(bs, st) == [b \in Buffers |-> IF b \in bs THEN st ELSE state[b]]

----------------------------------------------------------------------------
(* Plausible slips, each a variant of the operator it is named after. They *)
(* take no part in the specification: every property below fails when one  *)
(* of them takes the operator's place.                                     *)

Bug_FreeRunTakesAppOwned(q, n) ==
  /\ \A i \in 0 .. n - 1 : state[RxBuf(q, recv_head[q] + i)] # POSTED
  /\ n < NumRxRingEntries => state[RxBuf(q, recv_head[q] + n)] = POSTED
Bug_NextEntrySkipsOne(q, i) == RxBuf(q, ring_head[q] + wait_for_disp[q] + i)
Bug_PassOnKeepsCount(q, n) ==
  /\ ring_head' = [ring_head EXCEPT ![q] = Advance(@, n)]
  /\ UNCHANGED wait_for_disp
Bug_MessagesDueLate(n) == n > AppRxMsgBatchSize + 1
Bug_FlushDueWhenFull(size) == size >= NumTxRingEntries
Bug_DirectSizeWaitsForBatch ==
  IF wait_for_disp["next"] > AppRxMsgBatchSize THEN wait_for_disp["next"] ELSE 0
Bug_FreeWrsForgetsReaped(q) == free_send_wr_num[q]
Bug_CompletedMissesLast(q, n) ==
  {sw_ring[q][(send_head[q] + i) % NumTxRingEntries] : i \in 0 .. n - 2}
Bug_SendSlotSkipsOne(q, i) == (send_tail[q] + i) % NumTxRingEntries

----------------------------------------------------------------------------
\* __fill_recv_queue posts the whole ring, in ring order.
FilledQueue(q) == [i \in 1 .. NumRxRingEntries |-> RxBuf(q, i - 1)]

\* Channel_SoC has filled both receive queues and connected both queue pairs.
Init ==
  /\ pc = "idle"
  /\ expired = FALSE
  /\ state = [b \in Buffers |-> POSTED]
  /\ content = [b \in Buffers |-> "empty"]
  /\ recv_head = [q \in QPs |-> 0]
  /\ ring_head = [q \in QPs |-> 0]
  /\ wait_for_disp = [q \in QPs |-> 0]
  /\ worker_rx = << >>
  /\ worker_tx = << >>
  /\ tx_queue = [q \in QPs |-> << >>]
  /\ sw_ring = [q \in QPs |-> [i \in 0 .. NumTxRingEntries - 1 |-> <<Out(q), 0>>]]
  /\ send_head = [q \in QPs |-> 0]
  /\ send_tail = [q \in QPs |-> 0]
  /\ free_send_wr_num = [q \in QPs |-> NumTxRingEntries]
  /\ failed = [q \in QPs |-> FALSE]
  /\ rq = [q \in QPs |-> FilledQueue(q)]
  /\ recv_cq = [q \in QPs |-> << >>]
  /\ sq = [q \in QPs |-> << >>]
  /\ send_cq = [q \in QPs |-> << >>]

----------------------------------------------------------------------------
(* The loop of SoCWrapper::__run. *)

\* The interval is over: __launch starts.
Launch ==
  /\ pc = "idle"
  /\ pc' = "post_prior"
  /\ UNCHANGED <<expired, state, content, rx_vars, wk_vars, tx_vars, nic_vars>>

\* The comparison with timeout_tsc at the end of an iteration of the loop,
\* whether or not the iteration launched.
CheckTimeout ==
  /\ pc \in {"idle", "check"}
  /\ pc' = IF expired THEN "stopped" ELSE "idle"
  /\ UNCHANGED <<expired, state, content, rx_vars, wk_vars, tx_vars, nic_vars>>

\* The time stamp counter passes start_tsc + timeout_tsc.
Expire ==
  /\ ~expired
  /\ expired' = TRUE
  /\ UNCHANGED <<pc, state, content, rx_vars, wk_vars, tx_vars, nic_vars>>

----------------------------------------------------------------------------
(* A post the verbs library refuses. *)

\* NICC_ERROR throws out of the wrapper's thread, which catches nothing: the
\* process ends in the middle of the call and takes its queue pairs with it.
\* The other variables keep what they held before the call.
PostFails(kind, at) ==
  /\ Throws
  /\ kind \in PostFaults
  /\ pc = at
  /\ pc' = "aborted"
  /\ UNCHANGED <<expired, state, content, rx_vars, wk_vars, tx_vars, nic_vars>>

\* How many of n work requests a post takes. Without NICC_PRINT_ERROR the macro
\* is empty, and the caller goes on as if all of them had been posted.
PostsPartly(kind) == ~Throws /\ kind \in PostFaults
Taken(kind, n) == IF PostsPartly(kind) THEN 0 .. n ELSE {n}

\* Every post from which the wrapper goes on has taken all its work requests:
\* the default build, or a verbs library that never refuses.
AllPosted == Throws \/ PostFaults = {}

----------------------------------------------------------------------------
(* __rx_burst: repost the free entries at recv_head, then poll the CQ. *)

\* The n entries from recv_head are free, and the next one is not.
FreeRun(q, n) ==
  /\ \A i \in 0 .. n - 1 : state[RxBuf(q, recv_head[q] + i)] = FREE
  /\ n < NumRxRingEntries => state[RxBuf(q, recv_head[q] + n)] # FREE

\* n is the length of the run of free entries that starts at recv_head; the
\* call of ibv_post_recv takes the first `posted' of them.
PostRecvs(q, from, to) ==
  /\ pc = from
  /\ \E n \in 0 .. NumRxRingEntries :
       LET entry(i) == RxBuf(q, recv_head[q] + i)
           run == {entry(i) : i \in 0 .. n - 1}
       IN  /\ FreeRun(q, n)
           /\ \E posted \in Taken("recv", n) :
                /\ rq' = [rq EXCEPT ![q] = @ \o [i \in 1 .. posted |-> entry(i - 1)]]
                /\ content' = [b \in Buffers |->
                                IF b \in {entry(i) : i \in 0 .. posted - 1}
                                THEN "empty" ELSE content[b]]
           /\ state' = Mark(run, POSTED)
           /\ recv_head' = [recv_head EXCEPT ![q] = Advance(@, n)]
  /\ pc' = to
  /\ UNCHANGED <<expired, ring_head, wait_for_disp, wk_vars, tx_vars,
                 failed, recv_cq, sq, send_cq>>

\* There is an entry to post, and ibv_post_recv fails.
PostRecvsFails(q, at) ==
  /\ state[RxBuf(q, recv_head[q])] = FREE
  /\ PostFails("recv", at)

\* The ring entry that gets the length of the i-th completion of a poll.
NextEntry(q, i) == RxBuf(q, ring_head[q] + wait_for_disp[q] + i - 1)

\* ibv_poll_cq returns at most RxBatchSize completions. The wrapper ignores
\* the work request they name: it writes their lengths into the ring entries
\* that follow those already waiting.
PollRecv(q, from, to) ==
  /\ pc = from
  /\ LET ret == Least(Len(recv_cq[q]), RxBatchSize)
         sized(b) == \E i \in 1 .. ret : b = NextEntry(q, i) /\ b = recv_cq[q][i]
         wrong(b) == \E i \in 1 .. ret : b = NextEntry(q, i) /\ b # recv_cq[q][i]
     IN  /\ recv_cq' = [recv_cq EXCEPT ![q] = Drop(@, ret)]
         /\ wait_for_disp' = [wait_for_disp EXCEPT ![q] = @ + ret]
         /\ content' = [b \in Buffers |->
                          IF content[b] = "empty" THEN "empty"
                          ELSE IF sized(b) THEN "sized"
                          ELSE IF wrong(b) THEN "raw"
                          ELSE content[b]]
  /\ pc' = to
  /\ UNCHANGED <<expired, state, recv_head, ring_head, wk_vars, tx_vars,
                 failed, rq, sq, send_cq>>

----------------------------------------------------------------------------
(* From the prior block to the next block. *)

\* The ring entries received and not yet passed on, oldest first.
Waiting(q) == [i \in 1 .. wait_for_disp[q] |-> RxBuf(q, ring_head[q] + i - 1)]

\* The n oldest waiting entries have been passed on.
PassOn(q, n) ==
  /\ ring_head' = [ring_head EXCEPT ![q] = Advance(@, n)]
  /\ wait_for_disp' = [wait_for_disp EXCEPT ![q] = @ - n]

\* state_ after the entries `got' were offered to the worker and `kept' fitted.
Dispatched(kept, got) == [b \in Buffers |-> CASE b \in kept -> APP_OWNED
                                              [] b \in got \ kept -> FREE
                                              [] OTHER -> state[b]]

\* __dispatch_rx_pkts: hand the waiting entries to the worker; those that do
\* not fit into its queue are dropped and free at once.
Dispatch ==
  /\ pc = "dispatch"
  /\ LET got  == Waiting("prior")
         kept == SubSeq(got, 1, Least(Len(got), WsCapacity - Len(worker_rx)))
     IN  /\ worker_rx' = worker_rx \o kept
         /\ state' = Dispatched(Elems(kept), Elems(got))
         /\ PassOn("prior", Len(got))
  /\ pc' = "worker"
  /\ UNCHANGED <<expired, content, recv_head, worker_tx, tx_vars, nic_vars>>

MessagesDue(n) == n > AppRxMsgBatchSize

\* The worker part of __launch: once more than AppRxMsgBatchSize messages
\* wait, run the message handler on all of them and enqueue each for sending,
\* whatever the handler returned. The result of the enqueue is ignored: a
\* message that does not fit is lost.
Worker ==
  /\ pc = "worker"
  /\ IF MessagesDue(Len(worker_rx))
     THEN /\ worker_tx' = worker_tx \o
               SubSeq(worker_rx, 1, Least(Len(worker_rx), WsCapacity - Len(worker_tx)))
          /\ worker_rx' = << >>
     ELSE UNCHANGED wk_vars
  /\ pc' = "collect"
  /\ UNCHANGED <<expired, state, content, rx_vars, tx_vars, nic_vars>>

TxRoom(q) == NumTxRingEntries - Len(tx_queue[q])
FlushDue(size) == size >= TxBatchSize

\* __collect_tx_pkts(next), and the test whether to flush.
Collect ==
  /\ pc = "collect"
  /\ LET tx_size == Least(Len(worker_tx), TxRoom("next"))
     IN  /\ tx_queue' = [tx_queue EXCEPT !["next"] = @ \o SubSeq(worker_tx, 1, tx_size)]
         /\ worker_tx' = Drop(worker_tx, tx_size)
  /\ pc' = IF FlushDue(Len(tx_queue'["next"])) THEN "flush_next" ELSE "post_next"
  /\ UNCHANGED <<expired, state, content, rx_vars, worker_rx, sw_ring, send_head,
                 send_tail, free_send_wr_num, nic_vars>>

----------------------------------------------------------------------------
(* From the next block to the prior block. *)

DirectSize == Least(wait_for_disp["next"], TxRoom("prior"))

\* __direct_tx_burst(next, prior): the received entries go straight to the
\* transmit queue, as many as it has room for; their state_ stays POSTED.
DirectTxBurst ==
  /\ pc = "direct_tx"
  /\ tx_queue' = [tx_queue EXCEPT !["prior"] = @ \o SubSeq(Waiting("next"), 1, DirectSize)]
  /\ PassOn("next", DirectSize)
  /\ pc' = "flush_prior"
  /\ UNCHANGED <<expired, state, content, recv_head, wk_vars, sw_ring, send_head,
                 send_tail, free_send_wr_num, nic_vars>>

----------------------------------------------------------------------------
(* __tx_flush: call __tx_burst until the transmit queue is empty. *)

\* ibv_poll_cq on the send CQ asks for NumTxRingEntries completions.
Reaped(q) == Least(Len(send_cq[q]), NumTxRingEntries)

FreeWrs(q) == free_send_wr_num[q] + Reaped(q)

\* The buffers mounted on the n oldest work requests.
Completed(q, n) == {sw_ring[q][(send_head[q] + i) % NumTxRingEntries] : i \in 0 .. n - 1}

\* The work request that takes the i-th buffer of a burst.
SendSlot(q, i) == (send_tail[q] + i - 1) % NumTxRingEntries

\* __tx_burst: reap every SEND completion (a buffer is free again when the
\* work request it is mounted on completes), then mount and post as many
\* buffers as there are free work requests. Those that a failing ibv_post_send
\* did not take are never executed, but count as sent.
TxBurst(q, at) ==
  /\ pc = at
  /\ tx_queue[q] # << >>
  /\ LET reaped   == Reaped(q)
         freed    == Completed(q, reaped)
         free     == FreeWrs(q)
         nb_tx    == Least(free, Len(tx_queue[q]))
         mounted  == SubSeq(tx_queue[q], 1, nb_tx)
     IN  /\ send_cq' = [send_cq EXCEPT ![q] = Drop(@, reaped)]
         /\ send_head' = [send_head EXCEPT ![q] = (@ + reaped) % NumTxRingEntries]
         /\ sw_ring' = [sw_ring EXCEPT ![q] =
              [k \in 0 .. NumTxRingEntries - 1 |->
                 IF \E i \in 1 .. nb_tx : SendSlot(q, i) = k
                 THEN mounted[CHOOSE i \in 1 .. nb_tx : SendSlot(q, i) = k]
                 ELSE @[k]]]
         /\ send_tail' = [send_tail EXCEPT ![q] = (@ + nb_tx) % NumTxRingEntries]
         /\ free_send_wr_num' = [free_send_wr_num EXCEPT ![q] = free - nb_tx]
         /\ tx_queue' = [tx_queue EXCEPT ![q] = Drop(@, nb_tx)]
         /\ state' = [b \in Buffers |-> IF b \in Elems(mounted) THEN POSTED
                                        ELSE IF b \in freed THEN FREE
                                        ELSE state[b]]
         /\ \E posted \in Taken("send", nb_tx) :
              sq' = [sq EXCEPT ![q] = @ \o SubSeq(mounted, 1, posted)]
  /\ UNCHANGED <<pc, expired, content, rx_vars, wk_vars, failed, rq, recv_cq>>

\* There is a work request to post, and ibv_post_send fails.
TxBurstFails(q, at) ==
  /\ tx_queue[q] # << >>
  /\ FreeWrs(q) > 0
  /\ PostFails("send", at)

FlushDone(q, at, to) ==
  /\ pc = at
  /\ tx_queue[q] = << >>
  /\ pc' = to
  /\ UNCHANGED <<expired, state, content, rx_vars, wk_vars, tx_vars, nic_vars>>

----------------------------------------------------------------------------
(* The NIC, as the verbs the wrapper uses present it: a reliable connected *)
(* queue pair executes and completes each of its queues in order. Once the *)
(* peer is gone the pair is in the error state and completes what is and   *)
(* will be posted with a flush error, which the wrapper takes for success. *)
(* With the process its queue pairs are gone.                              *)

\* A packet of the neighbour arrives in the oldest posted buffer, or that
\* buffer is flushed.
NicRecv(q) ==
  /\ pc # "aborted"
  /\ failed[q] \/ q \in Senders
  /\ rq[q] # << >>
  /\ content' = IF failed[q] THEN content ELSE [content EXCEPT ![Head(rq[q])] = "raw"]
  /\ recv_cq' = [recv_cq EXCEPT ![q] = Append(@, Head(rq[q]))]
  /\ rq' = [rq EXCEPT ![q] = Tail(@)]
  /\ UNCHANGED <<ctrl_vars, state, rx_vars, wk_vars, tx_vars, failed, sq, send_cq>>

\* The neighbour acknowledges the oldest SEND, or that SEND is flushed.
NicSendDone(q) ==
  /\ pc # "aborted"
  /\ sq[q] # << >>
  /\ send_cq' = [send_cq EXCEPT ![q] = Append(@, Head(sq[q]))]
  /\ sq' = [sq EXCEPT ![q] = Tail(@)]
  /\ UNCHANGED <<ctrl_vars, state, content, rx_vars, wk_vars, tx_vars, failed, rq, recv_cq>>

PeerFails(q) ==
  /\ pc # "aborted"
  /\ q \in Failing
  /\ ~failed[q]
  /\ failed' = [failed EXCEPT ![q] = TRUE]
  /\ UNCHANGED <<ctrl_vars, state, content, rx_vars, wk_vars, tx_vars,
                 rq, recv_cq, sq, send_cq>>

----------------------------------------------------------------------------
\* The calls of __launch in the order of its body.
Forward ==
  \/ PostRecvs("prior", "post_prior", "poll_prior")
  \/ PollRecv("prior", "poll_prior", "dispatch")
  \/ Dispatch
  \/ Worker
  \/ Collect
  \/ TxBurst("next", "flush_next")
  \/ FlushDone("next", "flush_next", "post_next")

Backward ==
  \/ PostRecvs("next", "post_next", "poll_next")
  \/ PollRecv("next", "poll_next", "direct_tx")
  \/ DirectTxBurst
  \/ TxBurst("prior", "flush_prior")
  \/ FlushDone("prior", "flush_prior", "check")

\* The posts among them that fail.
Shutdown ==
  \/ PostRecvsFails("prior", "post_prior")
  \/ TxBurstFails("next", "flush_next")
  \/ PostRecvsFails("next", "post_next")
  \/ TxBurstFails("prior", "flush_prior")

Wrapper == Launch \/ Forward \/ Backward \/ Shutdown \/ CheckTimeout

Nic == \E q \in QPs : NicRecv(q) \/ NicSendDone(q) \/ PeerFails(q)

\* The thread has returned from __run, and only the NIC may still act; or the
\* process has ended, and nothing does.
Over == pc \in {"stopped", "aborted"}
Stopped == Over /\ UNCHANGED vars

Next == Wrapper \/ Nic \/ Expire \/ Stopped

Spec == Init /\ [][Next]_vars

\* The thread is pinned to a core of its own and keeps running, and a connected
\* peer eventually acknowledges what is sent to it. Nothing is assumed of the
\* arrival of packets, nor that the running time ever ends.
Fairness ==
  /\ WF_vars(Wrapper)
  /\ \A q \in QPs : WF_vars(NicSendDone(q))

FairSpec == Spec /\ Fairness
----------------------------------------------------------------------------
(* The buffers of one receive ring on their way through the block. *)

\* Received from q and not yet posted for sending, oldest first.
Inside(q) ==
  tx_queue[Out(q)] \o (IF q = "prior" THEN worker_tx \o worker_rx ELSE << >>)
    \o Waiting(q) \o recv_cq[q]

\* Posted SENDs that have not been reaped, oldest first.
Unreaped(q) == send_cq[q] \o sq[q]

\* Every buffer of the ring of q that somebody holds, in the order in which
\* it will come back to recv_head.
Path(q) == Unreaped(Out(q)) \o Inside(q) \o rq[q]

\* How far entry b lies after entry a on the ring.
Ahead(a, b) == (b[2] - a[2]) % NumRxRingEntries

----------------------------------------------------------------------------
\* The ranges of the wrapper's indices and counters; no transmit queue grows
\* beyond the array that holds it.
TypeOK ==
  /\ pc \in PCs
  /\ expired \in BOOLEAN
  /\ state \in [Buffers -> {POSTED, APP_OWNED, FREE}]
  /\ content \in [Buffers -> {"empty", "raw", "sized"}]
  /\ recv_head \in [QPs -> 0 .. NumRxRingEntries - 1]
  /\ ring_head \in [QPs -> 0 .. NumRxRingEntries - 1]
  /\ wait_for_disp \in [QPs -> Nat]
  /\ worker_rx \in Seq(Buffers)
  /\ worker_tx \in Seq(Buffers)
  /\ tx_queue \in [QPs -> Seq(Buffers)]
  /\ \A q \in QPs : Len(tx_queue[q]) <= NumTxRingEntries
  /\ sw_ring \in [QPs -> [0 .. NumTxRingEntries - 1 -> Buffers]]
  /\ send_head \in [QPs -> 0 .. NumTxRingEntries - 1]
  /\ send_tail \in [QPs -> 0 .. NumTxRingEntries - 1]
  /\ free_send_wr_num \in [QPs -> Nat]
  /\ failed \in [QPs -> BOOLEAN]
  /\ rq \in [QPs -> Seq(Buffers)]
  /\ recv_cq \in [QPs -> Seq(Buffers)]
  /\ sq \in [QPs -> Seq(Buffers)]
  /\ send_cq \in [QPs -> Seq(Buffers)]

\* The k-th completion still in the receive CQ is about the k-th ring entry
\* after those waiting: __rx_burst never looks at wr_id, it infers the buffer
\* from _ring_head and _wait_for_disp, and passes it on as the received one.
RecvAgreement ==
  \A q \in QPs : \A k \in 1 .. Len(recv_cq[q]) :
    recv_cq[q][k] = RxBuf(q, ring_head[q] + wait_for_disp[q] + k - 1)

\* The window of _sw_ring that starts at _send_head holds exactly the buffers
\* of the SENDs the NIC has, in order, so that __tx_burst frees the buffer
\* whose SEND completed; and the three send counters agree with the NIC.
SendAgreement ==
  \A q \in QPs :
    LET n == Len(Unreaped(q))
    IN  /\ \A k \in 1 .. n :
             Unreaped(q)[k] = sw_ring[q][(send_head[q] + k - 1) % NumTxRingEntries]
        /\ free_send_wr_num[q] = NumTxRingEntries - n
        /\ send_tail[q] = (send_head[q] + n) % NumTxRingEntries

\* A buffer is in one place at a time, and the buffers of a ring go round in
\* ring order: from the oldest unreaped SEND through every queue to the newest
\* posted RECV, which is the entry before _recv_head. __rx_burst relies on it
\* when it stops reposting at the first entry that is not free.
RingOrder ==
  \A q \in QPs :
    /\ \A i, j \in 1 .. Len(Path(q)) :
         i < j => Ahead(Path(q)[1], Path(q)[i]) < Ahead(Path(q)[1], Path(q)[j])
    /\ rq[q] # << >> => Advance(rq[q][Len(rq[q])][2], 1) = recv_head[q]

\* No buffer leaks and none is reposted while in use: state_ is FREE exactly
\* for the buffers nobody holds, and APP_OWNED exactly between the dispatch
\* to the worker and the SEND.
Ownership ==
  \A b \in Buffers :
    /\ (state[b] = FREE) <=> (b \notin Elems(Path(b[1])))
    /\ (state[b] = APP_OWNED) <=>
         (b \in Elems(worker_rx \o worker_tx \o tx_queue["next"]))

\* Every posted SEND reads a buffer the NIC has written and whose length_ is
\* the length of that packet, ...
SentIsReceived ==
  \A q \in QPs : \A b \in Elems(sq[q]) : content[b] = "sized"

\* ... as long as the neighbour the packets come from is alive.
SentIsReceivedFromLive ==
  \A q \in QPs : \A b \in Elems(sq[q]) : failed[Out(q)] \/ content[b] = "sized"

\* Neither the dispatch to the worker, which drops what does not fit, nor the
\* worker, which ignores the result of its enqueue, ever meets a full queue.
WorkerLosesNothing ==
  /\ pc = "dispatch" => Len(worker_rx) + wait_for_disp["prior"] <= WsCapacity
  /\ pc = "worker" => Len(worker_tx) + Len(worker_rx) <= WsCapacity

\* __tx_flush has no way out of its loop but progress. The free and the
\* completed work requests always cover what is left to send, so it never
\* waits for the peer.
FlushNeverWaits ==
  \A q \in QPs : Len(tx_queue[q]) <= free_send_wr_num[q] + Len(send_cq[q])

\* Whatever posts fail in a build that goes on, and however far the wrapper's
\* idea of the queues drifts from the NIC's: the NIC is never given a buffer to
\* receive into whose packet is still to be passed on or sent.
NeverOverwritten ==
  \A q \in QPs : Elems(rq[q]) \cap Elems(sq[Out(q)] \o Inside(q)) = {}

----------------------------------------------------------------------------
(* Progress, under FairSpec. *)

Sent(b) == \E q \in QPs : b \in Elems(Unreaped(q))

\* Once its time is over the thread leaves __run, or a failing post has ended
\* the process: the flush loop, which has no way out but progress, ends.
RunEnds == expired ~> Over

\* A packet from the next block is sent to the prior block, however few there
\* are: the direct path does not wait for a batch.
ReturnDelivery ==
  \A b \in Buffers :
    b \in Elems(recv_cq["next"]) ~> Sent(b) \/ Over

\* Messages in excess of the worker's batch size are sent to the next block.
BatchDelivery ==
  \A b \in Buffers :
    Len(worker_rx) > AppRxMsgBatchSize /\ b \in Elems(worker_rx)
      ~> Sent(b) \/ Over

\* A neighbour is not shut out for good: when every receive buffer of its queue
\* pair is in use, one is eventually posted again.
NeverStarves ==
  \A q \in QPs : rq[q] = << >> ~> rq[q] # << >> \/ Over

----------------------------------------------------------------------------
Relayed == INSTANCE Relay WITH
  Directions <- QPs, Packets <- Buffers, pending <- [q \in QPs |-> Inside(q)]

\* The data path implements Relay: in either direction packets leave in the
\* order of arrival, each exactly once, out of the buffer they arrived in; none
\* is dropped on the way through the worker.
RelaySpec == Relayed!Spec
=============================================================================
