--------------------------- MODULE SocRingProofs ---------------------------
(***************************************************************************)
(* The rings of the SoC data path, for any number of entries: the wrapper's*)
(* cursors agree with the queues of the NIC, every buffer is in exactly one*)
(* place, and the block relays packets as Relay demands. Where posting may *)
(* fail none of this holds, so the theorems assume that it does not.       *)
(***************************************************************************)
EXTENDS SocDatapathProofs, Arithmetic

----------------------------------------------------------------------------
(* Moving elements between two queues that follow each other.              *)

\* The head of one queue goes to the end of the queue before it.
LEMMA HandOver ==
  ASSUME NEW S, NEW a \in Seq(S), NEW b \in Seq(S), b # << >>
  PROVE  Append(a, Head(b)) \o Tail(b) = a \o b
<1>1. /\ Head(b) \in S /\ Head(b) = b[1]
      /\ Tail(b) \in Seq(S) /\ Len(Tail(b)) = Len(b) - 1 /\ Len(b) \in Nat \ {0}
      /\ \A i \in 1 .. Len(Tail(b)) : Tail(b)[i] = b[i + 1]
  BY HeadTailProperties
<1>2. /\ Append(a, Head(b)) \in Seq(S) /\ Len(Append(a, Head(b))) = Len(a) + 1
      /\ \A i \in 1 .. Len(a) : Append(a, Head(b))[i] = a[i]
      /\ Append(a, Head(b))[Len(a) + 1] = b[1]
  BY <1>1, AppendProperties
<1> DEFINE h == Append(a, Head(b))
           t == Tail(b)
<1>3. h \o t \in Seq(S) /\ a \o b \in Seq(S) /\ Len(h \o t) = Len(a \o b)
  BY <1>1, <1>2
<1>4. ASSUME NEW i \in 1 .. Len(h \o t)
      PROVE  (h \o t)[i] = (a \o b)[i]
  <2> HIDE DEF h, t
  <2> QED
    BY <1>1, <1>2, <1>3 DEF h, t
<1> QED
  BY <1>3, <1>4, SeqEqual

\* A queue is a batch taken from it and what the batch leaves.
LEMMA SplitAt ==
  ASSUME NEW S, NEW s \in Seq(S), NEW n \in 0 .. Len(s)
  PROVE  SubSeq(s, 1, n) \o Drop(s, n) = s
<1>1. SubSeq(s, 1, n) \o SubSeq(s, n + 1, Len(s)) = SubSeq(s, 1, Len(s))
  <2>1. 1 \in 1 .. Len(s) + 1 /\ n \in 1 - 1 .. Len(s) /\ Len(s) \in n .. Len(s)
    OBVIOUS
  <2> QED
    BY <2>1, ConcatAdjacentSubSeq
<1> QED
  BY <1>1, SubSeqFull DEF Drop

\* Removing the first elements of two queues in a row.
LEMMA DropConcat ==
  ASSUME NEW S, NEW s \in Seq(S), NEW t \in Seq(S), NEW n \in 0 .. Len(s)
  PROVE  Drop(s \o t, n) = Drop(s, n) \o t
<1>1. s \o t \in Seq(S) /\ Len(s \o t) = Len(s) + Len(t) /\ n \in 0 .. Len(s \o t)
  OBVIOUS
<1> DEFINE d == Drop(s, n)
           e == Drop(s \o t, n)
<1>2. /\ d \in Seq(S) /\ Len(d) = Len(s) - n
      /\ \A i \in 1 .. Len(s) - n : d[i] = s[n + i]
  BY DEF Drop
<1>3. /\ e \in Seq(S) /\ Len(e) = Len(s) + Len(t) - n
      /\ \A i \in 1 .. Len(s) + Len(t) - n : e[i] = (s \o t)[n + i]
  BY <1>1 DEF Drop
<1> HIDE DEF d, e
<1>4. /\ d \o t \in Seq(S) /\ Len(d \o t) = Len(d) + Len(t)
      /\ \A i \in 1 .. Len(d) + Len(t) :
           (d \o t)[i] = IF i <= Len(d) THEN d[i] ELSE t[i - Len(d)]
      /\ \A i \in 1 .. Len(s) + Len(t) :
           (s \o t)[i] = IF i <= Len(s) THEN s[i] ELSE t[i - Len(s)]
  BY <1>2, ConcatProperties
<1>5. Len(s) \in Nat /\ Len(t) \in Nat /\ n \in Nat
  OBVIOUS
<1>6. ASSUME NEW i \in 1 .. Len(e)
      PROVE  e[i] = (d \o t)[i]
  <2>1. i \in 1 .. Len(d) + Len(t) /\ n + i \in 1 .. Len(s) + Len(t)
    BY <1>2, <1>3, <1>5
  <2>2. (s \o t)[n + i] = IF n + i <= Len(s) THEN s[n + i] ELSE t[n + i - Len(s)]
    BY <1>4, <2>1
  <2>3. (d \o t)[i] = IF i <= Len(d) THEN d[i] ELSE t[i - Len(d)]
    BY <1>4, <2>1
  <2>4. n + i - Len(s) = i - Len(d)
    BY <1>2, <1>5
  <2> QED
    BY <1>2, <1>3, <1>5, <2>2, <2>3, <2>4
<1>7. Len(e) = Len(d \o t)
  BY <1>2, <1>3, <1>4, <1>5
<1> QED
  BY <1>3, <1>4, <1>6, <1>7, SeqEqual DEF d, e

\* Three queues in a row, grouped either way.
LEMMA RegroupThree ==
  \A a, b, c \in Seq(Buffers) : (a \o b) \o c = a \o (b \o c)
  BY ConcatAssociative

\* What two queues in a row hold.
LEMMA ElemsConcat ==
  ASSUME NEW S, NEW s \in Seq(S), NEW t \in Seq(S)
  PROVE  Elems(s \o t) = Elems(s) \cup Elems(t)
<1>1. /\ Len(s \o t) = Len(s) + Len(t) /\ Len(s) \in Nat /\ Len(t) \in Nat
      /\ \A i \in 1 .. Len(s) + Len(t) :
           (s \o t)[i] = IF i <= Len(s) THEN s[i] ELSE t[i - Len(s)]
  BY ConcatProperties
<1>2. ASSUME NEW b \in Elems(s \o t)
      PROVE  b \in Elems(s) \cup Elems(t)
  <2>1. PICK i \in 1 .. Len(s) + Len(t) : b = (s \o t)[i]
    BY <1>1 DEF Elems
  <2>2. CASE i <= Len(s)
    BY <1>1, <2>1, <2>2 DEF Elems
  <2>3. CASE i > Len(s)
    <3>1. i - Len(s) \in 1 .. Len(t) /\ b = t[i - Len(s)]
      BY <1>1, <2>1, <2>3
    <3> QED
      BY <3>1 DEF Elems
  <2> QED
    BY <1>1, <2>2, <2>3
<1>3. ASSUME NEW b \in Elems(s)
      PROVE  b \in Elems(s \o t)
  <2>1. PICK i \in 1 .. Len(s) : b = s[i]
    BY DEF Elems
  <2>2. i \in 1 .. Len(s \o t) /\ (s \o t)[i] = b
    BY <1>1, <2>1
  <2> QED
    BY <2>2 DEF Elems
<1>4. ASSUME NEW b \in Elems(t)
      PROVE  b \in Elems(s \o t)
  <2>1. PICK i \in 1 .. Len(t) : b = t[i]
    BY DEF Elems
  <2>2. Len(s) + i \in 1 .. Len(s \o t) /\ (s \o t)[Len(s) + i] = b
    BY <1>1, <2>1
  <2> QED
    BY <2>2 DEF Elems
<1> QED
  BY <1>2, <1>3, <1>4

\* The same of sequences of buffers.
LEMMA BufferElems ==
  ASSUME NEW s \in Seq(Buffers), NEW t \in Seq(Buffers)
  PROVE  Elems(s \o t) = Elems(s) \cup Elems(t)
  BY ElemsConcat, ZenonT(60)

----------------------------------------------------------------------------
(* The ring of send work requests.                                         *)

\* How many buffers __tx_burst mounts, and which.
NbTx(q) == Least(FreeWrs(q), Len(tx_queue[q]))
Mounted(q) == SubSeq(tx_queue[q], 1, NbTx(q))

\* The unreaped sends are the completed ones and then the others.
LEMMA UnreapedType ==
  ASSUME TypeOK, NEW q \in QPs
  PROVE  /\ send_cq[q] \in Seq(Buffers) /\ sq[q] \in Seq(Buffers)
         /\ Unreaped(q) \in Seq(Buffers)
         /\ Len(send_cq[q]) \in Nat /\ Len(sq[q]) \in Nat /\ Len(Unreaped(q)) \in Nat
         /\ Len(Unreaped(q)) = Len(send_cq[q]) + Len(sq[q])
<1>1. send_cq[q] \in Seq(Buffers) /\ sq[q] \in Seq(Buffers)
  BY DEF TypeOK
<1> DEFINE c == send_cq[q]
           s == sq[q]
<1> HIDE DEF c, s
<1>2. /\ Len(c) \in Nat /\ Len(s) \in Nat
      /\ c \o s \in Seq(Buffers) /\ Len(c \o s) = Len(c) + Len(s) /\ Len(c \o s) \in Nat
  <2>1. c \in Seq(Buffers) /\ s \in Seq(Buffers)
    BY <1>1 DEF c, s
  <2> QED
    BY <2>1, ConcatProperties
<1> QED
  BY <1>1, <1>2 DEF Unreaped, c, s

\* The sizes of a burst.
LEMMA BurstSizes ==
  ASSUME TypeOK, NEW q \in QPs
  PROVE  /\ Reaped(q) \in Nat /\ Reaped(q) <= Len(send_cq[q])
         /\ FreeWrs(q) \in Nat /\ FreeWrs(q) = free_send_wr_num[q] + Reaped(q)
         /\ NbTx(q) \in Nat /\ NbTx(q) <= Len(tx_queue[q]) /\ NbTx(q) <= FreeWrs(q)
         /\ Mounted(q) \in Seq(Buffers) /\ Len(Mounted(q)) = NbTx(q)
<1>1. Len(send_cq[q]) \in Nat /\ NumTxRingEntries \in Nat
  BY UnreapedType, RingAssumption
<1>2. Reaped(q) \in Nat /\ Reaped(q) <= Len(send_cq[q])
  BY <1>1 DEF Reaped, Least
<1>3. free_send_wr_num[q] \in Nat
  BY DEF TypeOK
<1>4. FreeWrs(q) \in Nat /\ FreeWrs(q) = free_send_wr_num[q] + Reaped(q)
  BY <1>2, <1>3 DEF FreeWrs
<1>5. tx_queue[q] \in Seq(Buffers) /\ Len(tx_queue[q]) \in Nat
  BY TxRoomType
<1>6. NbTx(q) \in Nat /\ NbTx(q) <= Len(tx_queue[q]) /\ NbTx(q) <= FreeWrs(q)
  BY <1>4, <1>5 DEF NbTx, Least
<1>7. Mounted(q) \in Seq(Buffers) /\ Len(Mounted(q)) = NbTx(q)
  BY <1>5, <1>6, PrefixAndRest DEF Mounted
<1> QED
  BY <1>2, <1>4, <1>6, <1>7

\* What a burst leaves in the queues of its queue pair.
LEMMA BurstMoves ==
  ASSUME TypeOK, NEW q \in QPs, NEW at, TxBurst(q, at), ~PostsPartly("send")
  PROVE  /\ send_cq'[q] = Drop(send_cq[q], Reaped(q))
         /\ sq'[q] = sq[q] \o Mounted(q)
         /\ Unreaped(q)' = Drop(Unreaped(q), Reaped(q)) \o Mounted(q)
         /\ tx_queue'[q] = Drop(tx_queue[q], NbTx(q))
         /\ \A r \in QPs \ {q} : /\ Unreaped(r)' = Unreaped(r)
                                /\ tx_queue'[r] = tx_queue[r]
                                /\ send_cq'[r] = send_cq[r]
                                /\ sq'[r] = sq[r]
<1>1. /\ send_cq' = [send_cq EXCEPT ![q] = Drop(@, Reaped(q))]
      /\ tx_queue' = [tx_queue EXCEPT ![q] = Drop(@, NbTx(q))]
  BY DEF TxBurst, NbTx
<1>2. sq' = [sq EXCEPT ![q] = @ \o Mounted(q)]
  <2>1. sq' = [sq EXCEPT ![q] = @ \o SubSeq(Mounted(q), 1, NbTx(q))]
    BY DEF TxBurst, Taken, NbTx, Mounted
  <2>2. SubSeq(Mounted(q), 1, NbTx(q)) = Mounted(q)
    BY BurstSizes, SubSeqFull
  <2> QED
    BY <2>1, <2>2
<1>3. /\ send_cq'[q] = Drop(send_cq[q], Reaped(q))
      /\ sq'[q] = sq[q] \o Mounted(q)
      /\ tx_queue'[q] = Drop(tx_queue[q], NbTx(q))
      /\ \A r \in QPs \ {q} : /\ tx_queue'[r] = tx_queue[r]
                             /\ send_cq'[r] = send_cq[r]
                             /\ sq'[r] = sq[r]
  BY <1>1, <1>2 DEF TypeOK
<1>4. Unreaped(q)' = Drop(Unreaped(q), Reaped(q)) \o Mounted(q)
  <2> DEFINE c == send_cq[q]
             d == Drop(c, Reaped(q))
             s == sq[q]
             m == Mounted(q)
  <2>1. c \in Seq(Buffers) /\ s \in Seq(Buffers) /\ m \in Seq(Buffers)
        /\ Reaped(q) \in 0 .. Len(c)
    <3>1. c \in Seq(Buffers) /\ s \in Seq(Buffers)
      BY UnreapedType
    <3>2. m \in Seq(Buffers) /\ Reaped(q) \in Nat /\ Reaped(q) <= Len(c)
      BY BurstSizes
    <3> QED
      BY <3>1, <3>2
  <2>2. d \in Seq(Buffers)
    BY <2>1, PrefixAndRest
  <2>3. Drop(c \o s, Reaped(q)) = d \o s
    BY <2>1, DropConcat
  <2>4. (d \o s) \o m = d \o (s \o m)
    <3> HIDE DEF d, s, m
    <3> QED
      BY <2>1, <2>2, RegroupThree
  <2>5. Unreaped(q)' = d \o (s \o m)
    BY <1>3 DEF Unreaped
  <2> QED
    BY <2>3, <2>4, <2>5 DEF Unreaped
<1>5. \A r \in QPs \ {q} : Unreaped(r)' = Unreaped(r)
  BY <1>3 DEF Unreaped
<1> QED
  BY <1>3, <1>4, <1>5

\* What the agreement says of one queue pair.
SendAgreementOf(q) ==
  /\ \A k \in 1 .. Len(Unreaped(q)) :
       Unreaped(q)[k] = sw_ring[q][(send_head[q] + k - 1) % NumTxRingEntries]
  /\ free_send_wr_num[q] = NumTxRingEntries - Len(Unreaped(q))
  /\ send_tail[q] = (send_head[q] + Len(Unreaped(q))) % NumTxRingEntries

\* SendAgreement, one queue pair at a time.
LEMMA SendAgreementParts == SendAgreement <=> \A q \in QPs : SendAgreementOf(q)
  BY DEF SendAgreement, SendAgreementOf

\* The work requests a burst uses are those after the unreaped ones.
LEMMA SendSlots ==
  ASSUME TypeOK, NEW q \in QPs, SendAgreementOf(q), NEW i \in 1 .. NbTx(q)
  PROVE  /\ SendSlot(q, i) = (send_head[q] + Len(Unreaped(q)) + i - 1) % NumTxRingEntries
         /\ SendSlot(q, i) \in 0 .. NumTxRingEntries - 1
<1> DEFINE n == Len(Unreaped(q))
           h == send_head[q]
<1>1. /\ NumTxRingEntries \in Nat \ {0} /\ n \in Nat /\ h \in Nat
      /\ h + n \in Int /\ i - 1 \in Int /\ i \in Int
  <2>1. n \in Nat /\ h \in Nat
    BY UnreapedType DEF TypeOK
  <2>2. NumTxRingEntries \in Nat \ {0} /\ i \in Int
    BY BurstSizes, RingAssumption
  <2> HIDE DEF n, h
  <2> QED
    BY <2>1, <2>2
<1>2. send_tail[q] = (h + n) % NumTxRingEntries /\ send_tail[q] \in Int
  BY DEF SendAgreementOf, TypeOK
<1> HIDE DEF n, h
<1>3. (((h + n) % NumTxRingEntries) + (i - 1)) % NumTxRingEntries
        = (h + n + (i - 1)) % NumTxRingEntries
  BY <1>1, ModAdd, Zenon
<1>4. send_tail[q] + i - 1 = ((h + n) % NumTxRingEntries) + (i - 1)
      /\ h + n + (i - 1) = h + n + i - 1 /\ h + n + i - 1 \in Int
  BY <1>1, <1>2
<1>5. SendSlot(q, i) = (h + n + i - 1) % NumTxRingEntries
  BY <1>3, <1>4 DEF SendSlot
<1>6. SendSlot(q, i) \in 0 .. NumTxRingEntries - 1
  BY <1>1, <1>4, <1>5, ModInRange
<1> QED
  BY <1>5, <1>6 DEF n, h

\* The heart of the agreement: reaping and mounting keep the window of _sw_ring
\* in step with the NIC, because the slots that are mounted are free.
LEMMA BurstKeepsAgreement ==
  ASSUME TypeOK, NEW q \in QPs, NEW at, TxBurst(q, at), ~PostsPartly("send"),
         SendAgreementOf(q)
  PROVE  SendAgreementOf(q)'
<1> DEFINE M  == NumTxRingEntries
           h  == send_head[q]
           n  == Len(Unreaped(q))
           r  == Reaped(q)
           nb == NbTx(q)
           m  == Mounted(q)
           u  == Unreaped(q)
           w  == sw_ring[q]
           slot(i) == SendSlot(q, i)
<1>1. /\ M \in Nat \ {0} /\ h \in 0 .. M - 1 /\ n \in Nat /\ r \in Nat /\ nb \in Nat
      /\ r <= n /\ n <= M /\ nb <= M - n + r
      /\ u \in Seq(Buffers) /\ m \in Seq(Buffers) /\ Len(m) = nb
      /\ free_send_wr_num[q] = M - n /\ FreeWrs(q) = M - n + r
  <2>1. M \in Nat \ {0} /\ h \in 0 .. M - 1 /\ free_send_wr_num[q] \in Nat
    BY RingAssumption DEF TypeOK
  <2>2. /\ n \in Nat /\ Len(send_cq[q]) \in Nat /\ Len(sq[q]) \in Nat
        /\ n = Len(send_cq[q]) + Len(sq[q]) /\ u \in Seq(Buffers)
    BY UnreapedType
  <2>3. free_send_wr_num[q] = M - n
    BY DEF SendAgreementOf
  <2>4. /\ r \in Nat /\ r <= Len(send_cq[q]) /\ nb \in Nat
        /\ nb <= FreeWrs(q) /\ FreeWrs(q) = free_send_wr_num[q] + r
        /\ m \in Seq(Buffers) /\ Len(m) = nb
    BY BurstSizes
  <2> DEFINE c == Len(send_cq[q])
             s == Len(sq[q])
             f == free_send_wr_num[q]
  <2> HIDE DEF M, h, n, r, nb, m, u, c, s, f
  <2>n. n \in Nat /\ c \in Nat /\ s \in Nat /\ n = c + s /\ f = M - n /\ f \in Nat
    BY <2>1, <2>2, <2>3 DEF c, s, f
  <2>f. r \in Nat /\ r <= c /\ nb \in Nat /\ nb <= FreeWrs(q) /\ FreeWrs(q) = f + r
    BY <2>4 DEF c, f
  <2>5. n <= M
    BY <2>1, <2>n
  <2>6. r <= n
    BY <2>n, <2>f
  <2>7. FreeWrs(q) = M - n + r /\ nb <= M - n + r
    BY <2>1, <2>n, <2>f
  <2> QED
    BY <2>1, <2>2, <2>3, <2>4, <2>5, <2>6, <2>7
<1>2. \A k \in 1 .. n : u[k] = w[(h + k - 1) % M]
  BY DEF SendAgreementOf
<1>3. \A i \in 1 .. nb : slot(i) = (h + n + i - 1) % M /\ slot(i) \in 0 .. M - 1
  BY SendSlots
<1>4. /\ Unreaped(q)' = Drop(u, r) \o m
      /\ Len(Unreaped(q)') = n - r + nb
      /\ \A k \in 1 .. n - r : Unreaped(q)'[k] = u[r + k]
      /\ \A k \in n - r + 1 .. n - r + nb : Unreaped(q)'[k] = m[k - (n - r)]
  <2>1. Unreaped(q)' = Drop(u, r) \o m
    BY BurstMoves
  <2> HIDE DEF n, r, nb, m, u
  <2>2. /\ Drop(u, r) \in Seq(Buffers) /\ Len(Drop(u, r)) = n - r
        /\ \A k \in 1 .. n - r : Drop(u, r)[k] = u[r + k]
    BY <1>1 DEF Drop, n, u
  <2> DEFINE d == Drop(u, r)
  <2> HIDE DEF d
  <2>3. /\ Len(d \o m) = n - r + nb
        /\ \A k \in 1 .. Len(d) + Len(m) :
             (d \o m)[k] = IF k <= Len(d) THEN d[k] ELSE m[k - Len(d)]
    BY <1>1, <2>2, ConcatProperties DEF d
  <2>4. Len(d) = n - r /\ \A k \in 1 .. n - r : d[k] = u[r + k]
    BY <2>2 DEF d
  <2>5. \A k \in 1 .. n - r : (d \o m)[k] = u[r + k]
    BY <1>1, <2>3, <2>4
  <2>6. ASSUME NEW k \in n - r + 1 .. n - r + nb
        PROVE  (d \o m)[k] = m[k - (n - r)]
    <3>1. Len(m) = nb /\ n \in Nat /\ r \in Nat /\ nb \in Nat /\ r <= n
      BY <1>1
    <3>2. k \in 1 .. Len(d) + Len(m) /\ ~(k <= Len(d))
      BY <2>4, <3>1
    <3> QED
      BY <2>3, <2>4, <3>2
  <2> QED
    BY <2>1, <2>3, <2>5, <2>6 DEF d
<1>5. /\ send_head'[q] = (h + r) % M
      /\ send_tail'[q] = (send_tail[q] + nb) % M
      /\ free_send_wr_num'[q] = FreeWrs(q) - nb
      /\ sw_ring'[q] = [k \in 0 .. M - 1 |->
                          IF \E i \in 1 .. nb : slot(i) = k
                          THEN m[CHOOSE i \in 1 .. nb : slot(i) = k]
                          ELSE w[k]]
  BY DEF TxBurst, NbTx, Mounted, TypeOK
<1>6. send_tail[q] = (h + n) % M /\ send_tail[q] \in Int
  BY DEF SendAgreementOf, TypeOK
<1> DEFINE v == sw_ring'[q]
<1> HIDE DEF M, h, n, r, nb, m, u, w, slot, v
<1>7. ASSUME NEW i \in 1 .. nb
      PROVE  v[slot(i)] = m[i]
  <2>1. ASSUME NEW j \in 1 .. nb, slot(j) = slot(i)
        PROVE  j = i
    <3>1. h + n + j - 1 \in Int /\ h + n + i - 1 \in Int
          /\ (h + n + j - 1) - (h + n + i - 1) < M
          /\ (h + n + i - 1) - (h + n + j - 1) < M
          /\ i \in Int /\ j \in Int
      BY <1>1
    <3>2. (h + n + j - 1) % M = (h + n + i - 1) % M
      BY <1>3, <2>1
    <3>3. h + n + j - 1 = h + n + i - 1
      BY <1>1, <3>1, <3>2, ModInjective, Zenon
    <3> QED
      BY <1>1, <3>1, <3>3
  <2>2. (CHOOSE j \in 1 .. nb : slot(j) = slot(i)) = i
    BY <2>1
  <2>3. slot(i) \in 0 .. M - 1
    BY <1>3
  <2>4. v[slot(i)] = IF \E j \in 1 .. nb : slot(j) = slot(i)
                     THEN m[CHOOSE j \in 1 .. nb : slot(j) = slot(i)]
                     ELSE w[slot(i)]
    BY <1>5, <2>3 DEF v
  <2> QED
    BY <2>2, <2>4
<1>8. ASSUME NEW k \in r + 1 .. n
      PROVE  v[(h + k - 1) % M] = w[(h + k - 1) % M]
  <2>1. h + k - 1 \in Int /\ k \in Int
    BY <1>1
  <2>2. (h + k - 1) % M \in 0 .. M - 1
    BY <1>1, <2>1, ModInRange
  <2>3. ASSUME NEW i \in 1 .. nb, slot(i) = (h + k - 1) % M
        PROVE  FALSE
    <3>1. h + n + i - 1 \in Int /\ i \in Int
          /\ (h + n + i - 1) - (h + k - 1) < M
          /\ (h + k - 1) - (h + n + i - 1) < M
      BY <1>1, <2>1
    <3>2. (h + n + i - 1) % M = (h + k - 1) % M
      BY <1>3, <2>3
    <3>3. h + n + i - 1 = h + k - 1
      BY <1>1, <2>1, <3>1, <3>2, ModInjective, Zenon
    <3> QED
      BY <1>1, <2>1, <3>1, <3>3
  <2> QED
    BY <1>5, <2>2, <2>3 DEF v
<1>9. ASSUME NEW k \in 1 .. n - r + nb
      PROVE  (((h + r) % M) + k - 1) % M = (h + (r + k) - 1) % M
  <2>1. h + r \in Int /\ k - 1 \in Int /\ k \in Int /\ (h + r) % M \in Int
    BY <1>1, ModInRange
  <2>2. (((h + r) % M) + (k - 1)) % M = (h + r + (k - 1)) % M
    BY <1>1, <2>1, ModAdd, Zenon
  <2>3. ((h + r) % M) + (k - 1) = ((h + r) % M) + k - 1 /\ h + r + (k - 1) = h + (r + k) - 1
    BY <1>1, <2>1
  <2> QED
    BY <2>2, <2>3
<1>10. ASSUME NEW k \in 1 .. n - r + nb
       PROVE  Unreaped(q)'[k] = v[(((h + r) % M) + k - 1) % M]
  <2>1. CASE k <= n - r
    <3>1. r + k \in r + 1 .. n /\ r + k \in 1 .. n /\ k \in 1 .. n - r
      BY <1>1, <2>1
    <3>2. Unreaped(q)'[k] = w[(h + (r + k) - 1) % M]
      BY <1>2, <1>4, <3>1
    <3> QED
      BY <1>8, <1>9, <3>1, <3>2
  <2>2. CASE k > n - r
    <3> DEFINE i == k - (n - r)
    <3>1. i \in 1 .. nb /\ k \in n - r + 1 .. n - r + nb /\ h + (r + k) - 1 = h + n + i - 1
      BY <1>1, <2>2
    <3>2. Unreaped(q)'[k] = m[i]
      BY <1>4, <3>1
    <3> HIDE DEF i
    <3>3. slot(i) = (h + (r + k) - 1) % M
      BY <1>3, <3>1
    <3> QED
      BY <1>7, <1>9, <3>1, <3>2, <3>3
  <2> QED
    BY <1>1, <2>1, <2>2
<1>11. free_send_wr_num'[q] = M - (n - r + nb)
  BY <1>1, <1>5
<1>12. send_tail'[q] = (((h + r) % M) + (n - r + nb)) % M
  <2>1. h + n \in Int /\ h + r \in Int /\ n - r + nb \in Int /\ nb \in Int
    BY <1>1
  <2>2. (((h + n) % M) + nb) % M = (h + n + nb) % M
    BY <1>1, <2>1, ModAdd, Zenon
  <2>3. (((h + r) % M) + (n - r + nb)) % M = (h + r + (n - r + nb)) % M
    BY <1>1, <2>1, ModAdd, Zenon
  <2>4. h + r + (n - r + nb) = h + n + nb
    BY <1>1
  <2> QED
    BY <1>5, <1>6, <2>2, <2>3, <2>4
<1> QED
  BY <1>4, <1>5, <1>10, <1>11, <1>12 DEF SendAgreementOf, M, v

\* A step that does not touch the send side of a queue pair.
LEMMA AgreementElsewhere ==
  ASSUME NEW q, SendAgreementOf(q), Unreaped(q)' = Unreaped(q),
         sw_ring'[q] = sw_ring[q], send_head'[q] = send_head[q],
         send_tail'[q] = send_tail[q], free_send_wr_num'[q] = free_send_wr_num[q]
  PROVE  SendAgreementOf(q)'
  BY DEF SendAgreementOf

\* A completed SEND stays unreaped until the wrapper polls for it.
LEMMA SendDoneMoves ==
  ASSUME TypeOK, NEW q \in QPs, NicSendDone(q)
  PROVE  \A r \in QPs : Unreaped(r)' = Unreaped(r)
<1>1. /\ sq[q] # << >>
      /\ send_cq'[q] = Append(send_cq[q], Head(sq[q]))
      /\ sq'[q] = Tail(sq[q])
      /\ \A r \in QPs \ {q} : send_cq'[r] = send_cq[r] /\ sq'[r] = sq[r]
  BY DEF NicSendDone, TypeOK
<1>2. Unreaped(q)' = Unreaped(q)
  <2>1. Append(send_cq[q], Head(sq[q])) \o Tail(sq[q]) = send_cq[q] \o sq[q]
    BY <1>1, UnreapedType, HandOver
  <2> QED
    BY <1>1, <2>1 DEF Unreaped
<1> QED
  BY <1>1, <1>2 DEF Unreaped

\* Every step preserves the agreement of the send side.
LEMMA SendAgreementNext ==
  ASSUME TypeOK, SendAgreement, ~PostsPartly("send"), [Next]_vars
  PROVE  SendAgreement'
<1> USE DEF tx_vars, nic_vars
<1> SUFFICES ASSUME NEW q \in QPs
             PROVE  SendAgreementOf(q)'
  BY DEF SendAgreement, SendAgreementOf
<1>0. SendAgreementOf(q)
  BY SendAgreementParts
<1>1. ASSUME NEW r \in QPs, NEW at, TxBurst(r, at)
      PROVE  SendAgreementOf(q)'
  <2>1. CASE q = r
    BY <1>0, <1>1, <2>1, BurstKeepsAgreement
  <2>2. CASE q # r
    <3>1. Unreaped(q)' = Unreaped(q)
      BY <1>1, <2>2, BurstMoves
    <3>2. /\ sw_ring'[q] = sw_ring[q] /\ send_head'[q] = send_head[q]
          /\ send_tail'[q] = send_tail[q] /\ free_send_wr_num'[q] = free_send_wr_num[q]
      BY <1>1, <2>2 DEF TxBurst, TypeOK
    <3> QED
      BY <1>0, <3>1, <3>2, AgreementElsewhere
  <2> QED
    BY <2>1, <2>2
<1>2. CASE UNCHANGED <<sw_ring, send_head, send_tail, free_send_wr_num, sq, send_cq>>
  <2>1. Unreaped(q)' = Unreaped(q)
    BY <1>2 DEF Unreaped
  <2> QED
    BY <1>0, <1>2, <2>1, AgreementElsewhere
<1>3. ASSUME NEW r \in QPs, NicSendDone(r)
      PROVE  SendAgreementOf(q)'
  <2>1. Unreaped(q)' = Unreaped(q)
    BY <1>3, SendDoneMoves
  <2> QED
    BY <1>0, <1>3, <2>1, AgreementElsewhere DEF NicSendDone
<1>4. CASE Forward
  <2>1. CASE TxBurst("next", "flush_next")
    BY <1>1, <2>1 DEF QPs
  <2>2. CASE ~TxBurst("next", "flush_next")
    BY <1>2, <1>4, <2>2 DEF Forward, PostRecvs, PollRecv, Dispatch, Worker, Collect, FlushDone
  <2> QED
    BY <2>1, <2>2
<1>5. CASE Backward
  <2>1. CASE TxBurst("prior", "flush_prior")
    BY <1>1, <2>1 DEF QPs
  <2>2. CASE ~TxBurst("prior", "flush_prior")
    BY <1>2, <1>5, <2>2 DEF Backward, PostRecvs, PollRecv, DirectTxBurst, FlushDone
  <2> QED
    BY <2>1, <2>2
<1>6. CASE Nic
  BY <1>2, <1>3, <1>6 DEF Nic, NicRecv, PeerFails
<1>7. CASE Launch \/ CheckTimeout \/ Expire \/ Shutdown \/ UNCHANGED vars
  BY <1>2, <1>7, ShutdownStep DEF Launch, CheckTimeout, Expire, vars
<1> QED
  BY <1>4, <1>5, <1>6, <1>7 DEF Next, Wrapper, Stopped

\* In the default build, or if ibv_post_send does not fail, __tx_burst frees
\* exactly the buffers whose SENDs completed, for rings of any size: the window
\* of _sw_ring from _send_head to _send_tail is what the NIC has, and the counter
\* of free work requests agrees with it. Queue pairs in the error state included.
THEOREM SendSideAgrees ==
  ASSUME Throws \/ "send" \notin PostFaults
  PROVE  Spec => []SendAgreement
<1>1. Init => SendAgreement
  <2> SUFFICES ASSUME Init, NEW q \in QPs
               PROVE  SendAgreementOf(q)
    BY SendAgreementParts
  <2>1. Unreaped(q) = << >> /\ Len(Unreaped(q)) = 0
    BY DEF Init, Unreaped
  <2>2. 0 % NumTxRingEntries = 0 /\ NumTxRingEntries \in Nat \ {0}
    BY RingAssumption
  <2>3. send_head[q] = 0 /\ send_tail[q] = 0 /\ free_send_wr_num[q] = NumTxRingEntries
    BY DEF Init
  <2> QED
    BY <2>1, <2>2, <2>3 DEF SendAgreementOf
<1>2. TypeOK /\ SendAgreement /\ [Next]_vars => SendAgreement'
  BY SendAgreementNext DEF PostsPartly
<1> QED
  BY <1>1, <1>2, TypeCorrect, PTL DEF Spec

----------------------------------------------------------------------------
(* The way of the buffers of one receive ring: three stretches, U (posted  *)
(* for sending), Inside and rq, and Inside again in three.                 *)

\* The sequence s is a, then b, then c.
InARow(s, a, b, c) ==
  /\ Len(a) \in Nat /\ Len(b) \in Nat /\ Len(c) \in Nat
  /\ Len(s) = Len(a) + Len(b) + Len(c)
  /\ \A k \in 1 .. Len(a) : s[k] = a[k]
  /\ \A k \in 1 .. Len(b) : s[Len(a) + k] = b[k]
  /\ \A k \in 1 .. Len(c) : s[Len(a) + Len(b) + k] = c[k]

\* Three sequences in a row, by position.
LEMMA ConcatThree ==
  ASSUME NEW S, NEW a \in Seq(S), NEW b \in Seq(S), NEW c \in Seq(S)
  PROVE  (a \o b) \o c \in Seq(S) /\ InARow((a \o b) \o c, a, b, c)
<1>1. Len(a) \in Nat /\ Len(b) \in Nat /\ Len(c) \in Nat
  BY LenProperties
<1>2. PICK d \in Seq(S) : d = a \o b
  BY ConcatProperties, Zenon
<1>3. /\ Len(d) = Len(a) + Len(b)
      /\ \A k \in 1 .. Len(a) : d[k] = a[k]
      /\ \A k \in 1 .. Len(b) : d[Len(a) + k] = b[k]
  BY <1>2
<1>4. PICK e \in Seq(S) : e = d \o c
  BY ConcatProperties, Zenon
<1>5. /\ Len(e) = Len(d) + Len(c)
      /\ \A k \in 1 .. Len(d) : e[k] = d[k]
      /\ \A k \in 1 .. Len(c) : e[Len(d) + k] = c[k]
  BY <1>4
<1>6. \A k \in 1 .. Len(a) : e[k] = a[k]
  BY <1>1, <1>3, <1>5
<1>7. \A k \in 1 .. Len(b) : e[Len(a) + k] = b[k]
  BY <1>1, <1>3, <1>5
<1>8. InARow(e, a, b, c)
  BY <1>1, <1>3, <1>5, <1>6, <1>7 DEF InARow
<1> QED
  BY <1>2, <1>4, <1>8

\* Received from q, passed on by __dispatch_rx_pkts or __direct_tx_burst and
\* not yet posted for sending.
Behind(q) == tx_queue[Out(q)] \o (IF q = "prior" THEN worker_tx \o worker_rx ELSE << >>)

\* The queues inside the block hold buffers.
LEMMA InsideTypes ==
  ASSUME TypeOK, NEW q \in QPs
  PROVE  /\ Behind(q) \in Seq(Buffers) /\ Waiting(q) \in Seq(Buffers)
         /\ recv_cq[q] \in Seq(Buffers) /\ Inside(q) \in Seq(Buffers)
         /\ Inside(q) = (Behind(q) \o Waiting(q)) \o recv_cq[q]
         /\ Len(Behind(q)) \in Nat /\ wait_for_disp[q] \in Nat
         /\ Len(recv_cq[q]) \in Nat /\ Len(Inside(q)) \in Nat
         /\ Len(Inside(q)) = Len(Behind(q)) + wait_for_disp[q] + Len(recv_cq[q])
         /\ \A k \in 1 .. Len(Behind(q)) : Inside(q)[k] = Behind(q)[k]
         /\ \A k \in 1 .. wait_for_disp[q] : Inside(q)[Len(Behind(q)) + k] = Waiting(q)[k]
         /\ \A k \in 1 .. Len(recv_cq[q]) :
              Inside(q)[Len(Behind(q)) + wait_for_disp[q] + k] = recv_cq[q][k]
<1> DEFINE t == tx_queue[Out(q)]
           w == IF q = "prior" THEN worker_tx \o worker_rx ELSE << >>
           b == t \o w
           g == Waiting(q)
           n == wait_for_disp[q]
           c == recv_cq[q]
<1>1. t \in Seq(Buffers) /\ c \in Seq(Buffers)
  BY OutType DEF TypeOK
<1>2. w \in Seq(Buffers)
  BY DEF TypeOK
<1>3. g \in Seq(Buffers) /\ Len(g) = n /\ n \in Nat
  BY WaitingType DEF TypeOK
<1>4. Inside(q) = (b \o g) \o c /\ Behind(q) = b
  BY DEF Inside, Behind
<1> HIDE DEF t, w, g, c, n
<1>5. b \in Seq(Buffers)
  BY <1>1, <1>2
<1> HIDE DEF b
<1> DEFINE i == (b \o g) \o c
<1>c. i \in Seq(Buffers) /\ InARow(i, b, g, c)
  BY <1>1, <1>3, <1>5, ConcatThree, Zenon
<1> HIDE DEF i
<1>6. /\ Len(b) \in Nat /\ Len(c) \in Nat
      /\ Len(i) = Len(b) + Len(g) + Len(c)
      /\ \A k \in 1 .. Len(b) : i[k] = b[k]
      /\ \A k \in 1 .. Len(g) : i[Len(b) + k] = g[k]
      /\ \A k \in 1 .. Len(c) : i[Len(b) + Len(g) + k] = c[k]
  BY <1>c DEF InARow
<1>7. Len(i) \in Nat /\ Len(i) = Len(b) + n + Len(c)
  BY <1>3, <1>6
<1>8. /\ \A k \in 1 .. n : i[Len(b) + k] = g[k]
      /\ \A k \in 1 .. Len(c) : i[Len(b) + n + k] = c[k]
  BY <1>3, <1>6
<1>9. Inside(q) = i /\ Behind(q) = b /\ Waiting(q) = g /\ recv_cq[q] = c /\ wait_for_disp[q] = n
  BY <1>4 DEF i, g, c, n
<1> QED
  BY <1>1, <1>3, <1>5, <1>c, <1>6, <1>7, <1>8, <1>9 DEF i

\* The path of a buffer, by position.
LEMMA PathTypes ==
  ASSUME TypeOK, NEW q \in QPs
  PROVE  /\ rq[q] \in Seq(Buffers) /\ Path(q) \in Seq(Buffers)
         /\ Unreaped(Out(q)) \in Seq(Buffers)
         /\ Len(Unreaped(Out(q))) \in Nat /\ Len(rq[q]) \in Nat /\ Len(Path(q)) \in Nat
         /\ Len(Path(q)) = Len(Unreaped(Out(q))) + Len(Inside(q)) + Len(rq[q])
         /\ \A k \in 1 .. Len(Unreaped(Out(q))) : Path(q)[k] = Unreaped(Out(q))[k]
         /\ \A k \in 1 .. Len(Inside(q)) : Path(q)[Len(Unreaped(Out(q))) + k] = Inside(q)[k]
         /\ \A k \in 1 .. Len(rq[q]) :
              Path(q)[Len(Unreaped(Out(q))) + Len(Inside(q)) + k] = rq[q][k]
<1> DEFINE u == Unreaped(Out(q))
           i == Inside(q)
           r == rq[q]
           p == (u \o i) \o r
<1>1. u \in Seq(Buffers) /\ r \in Seq(Buffers)
  BY OutType, UnreapedType DEF TypeOK
<1>2. i \in Seq(Buffers)
  BY InsideTypes
<1>3. Path(q) = p
  BY DEF Path
<1> HIDE DEF u, i, r
<1>p. p \in Seq(Buffers) /\ InARow(p, u, i, r)
  BY <1>1, <1>2, ConcatThree, Zenon
<1> HIDE DEF p
<1>4. /\ p \in Seq(Buffers) /\ Len(u) \in Nat /\ Len(i) \in Nat /\ Len(r) \in Nat
      /\ Len(p) = Len(u) + Len(i) + Len(r)
      /\ \A k \in 1 .. Len(u) : p[k] = u[k]
      /\ \A k \in 1 .. Len(i) : p[Len(u) + k] = i[k]
      /\ \A k \in 1 .. Len(r) : p[Len(u) + Len(i) + k] = r[k]
  BY <1>p DEF InARow
<1>5. Len(p) \in Nat
  BY <1>4
<1> QED
  BY <1>1, <1>3, <1>4, <1>5 DEF u, i, r

----------------------------------------------------------------------------
(* The ring invariant.                                                     *)

\* What waits to be passed on, is completed and is posted, counted back from
\* _recv_head, starts at _ring_head.
Anchored(q) ==
  ring_head[q] = (recv_head[q] - Len(rq[q]) - Len(recv_cq[q]) - wait_for_disp[q])
                   % NumRxRingEntries

\* The path of q is the stretch of the ring that ends before _recv_head.
OnRing(q) ==
  /\ Len(Path(q)) <= NumRxRingEntries
  /\ \A k \in 1 .. Len(Path(q)) :
       Path(q)[k] = RxBuf(q, recv_head[q] - Len(Path(q)) + k - 1)
  /\ Anchored(q)

RingInv == \A q \in QPs : OnRing(q)

\* An entry is the same, counted from a cursor before or after it is reduced.
LEMMA RxBufFrom ==
  ASSUME NEW q, NEW h \in Int, NEW x \in Int
  PROVE  RxBuf(q, (h % NumRxRingEntries) + x) = RxBuf(q, h + x)
<1>1. NumRxRingEntries \in Nat \ {0}
  BY RingAssumption
<1>2. ((h % NumRxRingEntries) + x) % NumRxRingEntries = (h + x) % NumRxRingEntries
  BY <1>1, ModAdd, Zenon
<1> QED
  BY <1>2 DEF RxBuf

\* Entries less than a turn apart are different buffers.
LEMMA RxBufDistinct ==
  ASSUME NEW q, NEW p, NEW i \in Int, NEW j \in Int, RxBuf(q, i) = RxBuf(p, j),
         i - j < NumRxRingEntries, j - i < NumRxRingEntries
  PROVE  i = j
<1>1. NumRxRingEntries \in Nat \ {0}
  BY RingAssumption
<1>2. i % NumRxRingEntries = j % NumRxRingEntries
  BY DEF RxBuf
<1> QED
  BY <1>1, <1>2, ModInjective, Zenon

\* No buffer is twice on a path.
LEMMA PathDistinct ==
  ASSUME TypeOK, NEW q \in QPs, OnRing(q),
         NEW i \in 1 .. Len(Path(q)), NEW j \in 1 .. Len(Path(q)), Path(q)[i] = Path(q)[j]
  PROVE  i = j
<1> DEFINE L == Len(Path(q))
           h == recv_head[q]
           x == h - L + i - 1
           y == h - L + j - 1
<1>1. /\ L \in Nat /\ L <= NumRxRingEntries /\ h \in Int /\ NumRxRingEntries \in Nat
      /\ i \in 1 .. L /\ j \in 1 .. L
  BY PathTypes, RingAssumption DEF OnRing, TypeOK
<1>2. RxBuf(q, x) = RxBuf(q, y)
  BY DEF OnRing
<1> HIDE DEF L, h
<1>3. x \in Int /\ y \in Int /\ x - y < NumRxRingEntries /\ y - x < NumRxRingEntries
  BY <1>1
<1>4. x = y
  <2> HIDE DEF x, y
  <2> QED
    BY <1>2, <1>3, RxBufDistinct
<1> QED
  BY <1>1, <1>4

\* The buffers on a path are those of its ring.
LEMMA PathOwn ==
  ASSUME TypeOK, NEW q \in QPs, OnRing(q), NEW i \in 1 .. Len(Path(q))
  PROVE  Path(q)[i][1] = q
  BY DEF OnRing, RxBuf

\* What the receive CQ holds is what the wrapper takes it for.
LEMMA RingInvAgreement == TypeOK /\ RingInv => RecvAgreement
<1> SUFFICES ASSUME TypeOK, RingInv, NEW q \in QPs, NEW k \in 1 .. Len(recv_cq[q])
             PROVE  recv_cq[q][k] = RxBuf(q, ring_head[q] + wait_for_disp[q] + k - 1)
  BY DEF RecvAgreement
<1> DEFINE U == Len(Unreaped(Out(q)))
           B == Len(Behind(q))
           w == wait_for_disp[q]
           c == Len(recv_cq[q])
           r == Len(rq[q])
           I == Len(Inside(q))
           L == Len(Path(q))
           h == recv_head[q]
<1>1. /\ U \in Nat /\ B \in Nat /\ w \in Nat /\ c \in Nat /\ r \in Nat /\ h \in Int
      /\ I \in Nat /\ L \in Nat /\ I = B + w + c /\ L = U + I + r
      /\ k \in 1 .. c
  <2>1. U \in Nat /\ r \in Nat /\ L \in Nat /\ L = U + I + r
    BY PathTypes, Zenon
  <2>2. B \in Nat /\ w \in Nat /\ c \in Nat /\ I \in Nat /\ I = B + w + c
    BY InsideTypes, Zenon
  <2>3. h \in Int
    BY DEF TypeOK
  <2> QED
    BY <2>1, <2>2, <2>3
<1>2. recv_cq[q][k] = Inside(q)[B + w + k]
  BY InsideTypes
<1>3. \A j \in 1 .. I : Path(q)[U + j] = Inside(q)[j]
  BY PathTypes
<1>4. /\ \A j \in 1 .. L : Path(q)[j] = RxBuf(q, h - L + j - 1)
      /\ ring_head[q] = (h - r - c - w) % NumRxRingEntries
  BY DEF RingInv, OnRing, Anchored
<1>5. ring_head[q] \in Int
  BY DEF TypeOK
<1> HIDE DEF U, B, w, c, r, I, L, h
<1>6. /\ B + w + k \in 1 .. I /\ U + (B + w + k) \in 1 .. L
      /\ h - L + (U + (B + w + k)) - 1 = h - r - c - w + (w + k - 1)
      /\ h - r - c - w \in Int /\ w + k - 1 \in Int
  BY <1>1
<1>7. recv_cq[q][k] = RxBuf(q, h - r - c - w + (w + k - 1))
  BY <1>2, <1>3, <1>4, <1>6
<1>8. RxBuf(q, ((h - r - c - w) % NumRxRingEntries) + (w + k - 1))
        = RxBuf(q, h - r - c - w + (w + k - 1))
  BY <1>6, RxBufFrom, Zenon
<1>9. ring_head[q] + w + k - 1 = ((h - r - c - w) % NumRxRingEntries) + (w + k - 1)
  BY <1>1, <1>4, <1>5
<1> QED
  BY <1>7, <1>8, <1>9 DEF w

\* The order of the buffers on their path, as they lie on the ring.
LEMMA RingInvOrder == TypeOK /\ RingInv => RingOrder
<1> SUFFICES ASSUME TypeOK, RingInv, NEW q \in QPs
             PROVE  /\ \A i, j \in 1 .. Len(Path(q)) :
                         i < j => Ahead(Path(q)[1], Path(q)[i]) < Ahead(Path(q)[1], Path(q)[j])
                    /\ rq[q] # << >> => Advance(rq[q][Len(rq[q])][2], 1) = recv_head[q]
  BY DEF RingOrder
<1> DEFINE N == NumRxRingEntries
           L == Len(Path(q))
           h == recv_head[q]
           s == h - L
<1>1. N \in Nat \ {0} /\ L \in Nat /\ L <= N /\ h \in 0 .. N - 1 /\ s \in Int
  <2>1. N \in Nat \ {0} /\ h \in 0 .. N - 1
    BY RingAssumption DEF TypeOK
  <2>2. L \in Nat /\ L <= N
    BY PathTypes DEF RingInv, OnRing
  <2> HIDE DEF N, L, h
  <2> QED
    BY <2>1, <2>2
<1>2. \A k \in 1 .. L : Path(q)[k][2] = (s + k - 1) % N
  BY DEF RingInv, OnRing, RxBuf
<1> HIDE DEF N, L, h, s
<1>3. ASSUME NEW k \in 1 .. L
      PROVE  Ahead(Path(q)[1], Path(q)[k]) = k - 1
  <2>1. 1 \in 1 .. L /\ s + 1 - 1 = s
    BY <1>1
  <2>2. Path(q)[1][2] = s % N /\ Path(q)[k][2] = (s + k - 1) % N
    BY <1>2, <2>1
  <2> DEFINE a == s % N
             b == s + k - 1
  <2>3. b \in Int /\ a \in Int /\ -a \in Int /\ k - 1 \in 0 .. N - 1
    BY <1>1, ModInRange
  <2>4. ((b % N) + (-a)) % N = (b + (-a)) % N
    <3> HIDE DEF a, b
    <3> QED
      BY <1>1, <2>3, ModAdd, Zenon
  <2>5. b + (-a) = (k - 1) + (s - a) /\ s - a \in Int
    BY <1>1, <2>3
  <2>6. (b + (-a)) % N = k - 1
    <3>1. s = N * (s \div N) + a /\ s \div N \in Int
      BY <1>1, DivMod
    <3>2. b + (-a) = N * (s \div N) + (k - 1)
      BY <1>1, <2>3, <2>5, <3>1
    <3>3. b + (-a) \in Int
      BY <2>3
    <3> QED
      BY <1>1, <2>3, <3>1, <3>2, <3>3, ModUnique
  <2>7. Path(q)[k][2] - Path(q)[1][2] = (b % N) + (-a)
    <3>1. b % N \in Int
      BY <1>1, <2>3, ModInRange
    <3> QED
      BY <2>2, <2>3, <3>1
  <2> QED
    BY <2>4, <2>6, <2>7 DEF Ahead, N
<1>4. ASSUME rq[q] # << >>
      PROVE  Advance(rq[q][Len(rq[q])][2], 1) = h
  <2> DEFINE r == Len(rq[q])
             U == Len(Unreaped(Out(q)))
             I == Len(Inside(q))
  <2>1. /\ r \in Nat /\ U \in Nat /\ I \in Nat /\ L = U + I + r
        /\ \A k \in 1 .. r : Path(q)[U + I + k] = rq[q][k]
    BY PathTypes, InsideTypes DEF L
  <2>2. r \in 1 .. r
    BY <1>4, PathTypes
  <2> HIDE DEF r, U, I
  <2>3. Path(q)[L] = rq[q][r] /\ L \in 1 .. L /\ s + L - 1 = h - 1
    <3>1. U + I + r = L /\ L \in 1 .. L
      BY <2>1, <2>2
    <3>2. s + L - 1 = h - 1
      BY <1>1 DEF s
    <3> QED
      BY <2>1, <2>2, <3>1, <3>2
  <2>4. rq[q][r][2] = (h - 1) % N
    BY <1>2, <2>3
  <2>5. h - 1 \in Int /\ 1 \in Int
    BY <1>1
  <2>6. (((h - 1) % N) + 1) % N = (h - 1 + 1) % N
    BY <1>1, <2>5, ModAdd, Zenon
  <2>7. h - 1 + 1 = h /\ h % N = h
    BY <1>1, ModSmall
  <2> QED
    BY <2>4, <2>6, <2>7 DEF Advance, r, N
<1> QED
  BY <1>1, <1>3, <1>4 DEF L, h

----------------------------------------------------------------------------
(* How the steps move buffers along the path.                              *)

\* There are two queue pairs, and each leads out by the other.
LEMMA OutOut ==
  ASSUME NEW q \in QPs
  PROVE  /\ Out(q) \in QPs /\ Out(Out(q)) = q /\ Out(q) # q
         /\ \A r \in QPs : r = q \/ r = Out(q)
  BY DEF Out, QPs

\* The ring of q is as it was: the same buffers on the same path.
Still(q) ==
  /\ Inside(q)' = Inside(q)
  /\ Unreaped(Out(q))' = Unreaped(Out(q))
  /\ rq'[q] = rq[q]
  /\ recv_head'[q] = recv_head[q]
  /\ Anchored(q)'

\* Then it is still on the ring.
LEMMA StillOnRing ==
  ASSUME NEW q \in QPs, OnRing(q), Still(q)
  PROVE  OnRing(q)'
<1>1. Path(q)' = Path(q)
  BY DEF Still, Path
<1> QED
  BY <1>1 DEF Still, OnRing

\* Nothing about the ring of q is assigned.
LEMMA UntouchedStill ==
  ASSUME NEW q \in QPs, Anchored(q), Behind(q)' = Behind(q),
         Unreaped(Out(q))' = Unreaped(Out(q)), rq'[q] = rq[q], recv_cq'[q] = recv_cq[q],
         recv_head'[q] = recv_head[q], ring_head'[q] = ring_head[q],
         wait_for_disp'[q] = wait_for_disp[q]
  PROVE  Still(q)
<1>1. Waiting(q)' = Waiting(q)
  BY DEF Waiting
<1>2. Inside(q)' = Inside(q)
  BY <1>1 DEF Inside, Behind
<1>3. Anchored(q)'
  BY DEF Anchored
<1> QED
  BY <1>2, <1>3 DEF Still

\* The waiting entries that are left after n of them were passed on.
LEMMA PassOnMoves ==
  ASSUME TypeOK, NEW q \in QPs, NEW n \in 0 .. wait_for_disp[q], PassOn(q, n)
  PROVE  /\ Waiting(q)' = Drop(Waiting(q), n)
         /\ ring_head'[q] = (ring_head[q] + n) % NumRxRingEntries
         /\ wait_for_disp'[q] = wait_for_disp[q] - n
         /\ \A r \in QPs \ {q} : /\ ring_head'[r] = ring_head[r]
                                /\ wait_for_disp'[r] = wait_for_disp[r]
<1> DEFINE h == ring_head[q]
           w == wait_for_disp[q]
           g == Waiting(q)
<1>1. h \in Int /\ w \in Nat /\ n \in 0 .. w
  BY DEF TypeOK
<1>2. /\ ring_head'[q] = (h + n) % NumRxRingEntries
      /\ wait_for_disp'[q] = w - n
      /\ \A r \in QPs \ {q} : /\ ring_head'[r] = ring_head[r]
                             /\ wait_for_disp'[r] = wait_for_disp[r]
  BY DEF PassOn, TypeOK, Advance
<1>3. g \in Seq(Buffers) /\ Len(g) = w /\ \A i \in 1 .. w : g[i] = RxBuf(q, h + i - 1)
  BY WaitingType DEF Waiting
<1>4. Waiting(q)' = [i \in 1 .. w - n |-> RxBuf(q, ((h + n) % NumRxRingEntries) + i - 1)]
  BY <1>2 DEF Waiting
<1> HIDE DEF h, w, g
<1>5. ASSUME NEW i \in 1 .. w - n
      PROVE  /\ RxBuf(q, ((h + n) % NumRxRingEntries) + i - 1) = g[n + i]
             /\ g[n + i] \in Buffers
  <2>1. h + n \in Int /\ i - 1 \in Int /\ n + i \in 1 .. w /\ i \in Int
        /\ (h + n) % NumRxRingEntries \in Int
    BY <1>1, RingAssumption, ModInRange
  <2>2. RxBuf(q, ((h + n) % NumRxRingEntries) + (i - 1)) = RxBuf(q, h + n + (i - 1))
    BY <2>1, RxBufFrom, Zenon
  <2>3. /\ ((h + n) % NumRxRingEntries) + (i - 1) = ((h + n) % NumRxRingEntries) + i - 1
        /\ h + n + (i - 1) = h + (n + i) - 1
    BY <1>1, <2>1
  <2>4. g[n + i] = RxBuf(q, h + (n + i) - 1)
    BY <1>3, <2>1
  <2>5. g[n + i] \in Buffers
    BY <1>3, <2>1
  <2> QED
    BY <2>2, <2>3, <2>4, <2>5
<1>6. Waiting(q)' = [i \in 1 .. w - n |-> g[n + i]]
  BY <1>4, <1>5
<1>7. Drop(g, n) = [i \in 1 .. w - n |-> g[n + i]]
  BY <1>1, <1>3, <1>5 DEF Drop
<1> QED
  BY <1>2, <1>6, <1>7 DEF h, w, g

\* Passing on keeps the anchor.
LEMMA PassOnAnchored ==
  ASSUME TypeOK, NEW q \in QPs, NEW n \in 0 .. wait_for_disp[q], PassOn(q, n),
         Anchored(q), rq'[q] = rq[q], recv_cq'[q] = recv_cq[q],
         recv_head'[q] = recv_head[q]
  PROVE  Anchored(q)'
<1> DEFINE N == NumRxRingEntries
           w == wait_for_disp[q]
           x == recv_head[q] - Len(rq[q]) - Len(recv_cq[q])
<1>1. N \in Nat \ {0} /\ w \in Int /\ n \in Int
  BY RingAssumption DEF TypeOK
<1>2. x \in Int
  <2> DEFINE h == recv_head[q]
             r == Len(rq[q])
             c == Len(recv_cq[q])
  <2>1. h \in Int /\ r \in Int /\ c \in Int
    BY PathTypes, InsideTypes DEF TypeOK
  <2> HIDE DEF h, r, c
  <2>2. h - r - c \in Int
    BY <2>1
  <2> QED
    BY <2>2 DEF h, r, c
<1>3. ring_head[q] = (x - w) % N
  BY DEF Anchored
<1>4. ring_head'[q] = (ring_head[q] + n) % N /\ wait_for_disp'[q] = w - n
  BY PassOnMoves
<1>5. Anchored(q)' <=> ring_head'[q] = (x - wait_for_disp'[q]) % N
  BY DEF Anchored
<1> HIDE DEF N, w, x
<1>6. x - w \in Int
  BY <1>1, <1>2
<1>7. (((x - w) % N) + n) % N = (x - w + n) % N
  BY <1>1, <1>6, ModAdd, Zenon
<1>8. x - w + n = x - (w - n)
  BY <1>1, <1>2
<1> QED
  BY <1>3, <1>4, <1>5, <1>7, <1>8

\* Passing on moves buffers within the block only.
LEMMA PassOnStill ==
  ASSUME TypeOK, NEW q \in QPs, NEW n \in 0 .. wait_for_disp[q], PassOn(q, n),
         Anchored(q), Unreaped(Out(q))' = Unreaped(Out(q)),
         rq'[q] = rq[q], recv_cq'[q] = recv_cq[q], recv_head'[q] = recv_head[q],
         Behind(q)' = Behind(q) \o SubSeq(Waiting(q), 1, n)
  PROVE  Still(q)
<1> DEFINE b == Behind(q)
           g == Waiting(q)
           p == SubSeq(g, 1, n)
           d == Drop(g, n)
           c == recv_cq[q]
<1>1. b \in Seq(Buffers) /\ g \in Seq(Buffers) /\ Len(g) = wait_for_disp[q]
  BY InsideTypes, WaitingType
<1>2. p \in Seq(Buffers) /\ d \in Seq(Buffers) /\ p \o d = g
  BY <1>1, PrefixAndRest, SplitAt
<1>3. Waiting(q)' = d
  BY PassOnMoves
<1>4. Inside(q)' = ((b \o p) \o d) \o c /\ Inside(q) = (b \o g) \o c
  BY <1>3 DEF Inside, Behind
<1>5. (b \o p) \o d = b \o g
  <2> HIDE DEF b, g, p, d
  <2>1. (b \o p) \o d = b \o (p \o d)
    <3>1. b \in Seq(Buffers) /\ p \in Seq(Buffers) /\ d \in Seq(Buffers)
      BY <1>1, <1>2
    <3> QED
      BY <3>1, RegroupThree
  <2> QED
    BY <1>2, <2>1
<1>6. Anchored(q)'
  BY PassOnAnchored
<1> QED
  BY <1>4, <1>5, <1>6 DEF Still

\* The steps that touch no queue the path consists of.
LEMMA QuietStill ==
  ASSUME RingInv, \A r \in QPs : Unreaped(r)' = Unreaped(r),
         UNCHANGED <<recv_head, ring_head, wait_for_disp, worker_rx, worker_tx, tx_queue,
                     rq, recv_cq>>
  PROVE  \A q \in QPs : Still(q)
<1> SUFFICES ASSUME NEW q \in QPs
             PROVE  Still(q)
  OBVIOUS
<1>1. Anchored(q) /\ Out(q) \in QPs
  BY OutOut DEF RingInv, OnRing
<1>2. Behind(q)' = Behind(q)
  BY DEF Behind
<1> QED
  BY <1>1, <1>2, UntouchedStill

\* A poll takes completions for the entries they are about.
LEMMA PollMoves ==
  ASSUME TypeOK, RingInv, NEW q \in QPs, NEW from, NEW to, PollRecv(q, from, to)
  PROVE  \A r \in QPs : Still(r)
<1> USE DEF wk_vars, tx_vars
<1> DEFINE n == Least(Len(recv_cq[q]), RxBatchSize)
           c == recv_cq[q]
           w == wait_for_disp[q]
           h == ring_head[q]
           b == Behind(q)
           g == Waiting(q)
           p == SubSeq(c, 1, n)
           d == Drop(c, n)
<1>1. /\ recv_cq' = [recv_cq EXCEPT ![q] = Drop(@, n)]
      /\ wait_for_disp' = [wait_for_disp EXCEPT ![q] = @ + n]
      /\ UNCHANGED <<recv_head, ring_head, worker_rx, worker_tx, tx_queue, rq, sq, send_cq>>
  BY DEF PollRecv
<1>2. \A r \in QPs : Unreaped(r)' = Unreaped(r) /\ Behind(r)' = Behind(r)
  BY <1>1 DEF Unreaped, Behind
<1>3. ASSUME NEW r \in QPs, r # q
      PROVE  Still(r)
  <2>1. /\ recv_cq'[r] = recv_cq[r] /\ wait_for_disp'[r] = wait_for_disp[r]
        /\ ring_head'[r] = ring_head[r] /\ recv_head'[r] = recv_head[r] /\ rq'[r] = rq[r]
    BY <1>1, <1>3 DEF TypeOK
  <2>2. Anchored(r) /\ Out(r) \in QPs
    BY OutOut DEF RingInv, OnRing
  <2> QED
    BY <1>2, <2>1, <2>2, UntouchedStill
<1>4. /\ c \in Seq(Buffers) /\ Len(c) \in Nat /\ w \in Nat /\ h \in Int
      /\ b \in Seq(Buffers) /\ g \in Seq(Buffers)
  <2>1. h \in Int
    BY DEF TypeOK
  <2> QED
    BY <2>1, InsideTypes
<1>5. n \in 0 .. Len(c) /\ n \in Nat
  <2>1. Len(c) \in Int /\ RxBatchSize \in Nat
    BY <1>4, RingAssumption
  <2> QED
    BY <1>4, <2>1 DEF Least
<1>6. recv_cq'[q] = d /\ wait_for_disp'[q] = w + n
  BY <1>1 DEF TypeOK
<1>7. \A k \in 1 .. Len(c) : c[k] = RxBuf(q, h + w + k - 1)
  BY RingInvAgreement DEF RecvAgreement
<1>8. /\ p \in Seq(Buffers) /\ Len(p) = n /\ \A k \in 1 .. n : p[k] = c[k]
      /\ d \in Seq(Buffers) /\ Len(d) = Len(c) - n /\ p \o d = c
  <2> HIDE DEF c, n
  <2>1. p \in Seq(Buffers) /\ Len(p) = n /\ d \in Seq(Buffers) /\ Len(d) = Len(c) - n
    BY <1>4, <1>5, PrefixAndRest
  <2>2. p \o d = c
    BY <1>4, <1>5, SplitAt
  <2>3. \A k \in 1 .. n : p[k] = c[k]
    BY <1>4, <1>5
  <2> QED
    BY <2>1, <2>2, <2>3
<1>9. Waiting(q)' = g \o p
  <2>1. Waiting(q)' = [i \in 1 .. w + n |-> RxBuf(q, h + i - 1)]
    BY <1>1, <1>6 DEF Waiting
  <2>2. g = [i \in 1 .. w |-> RxBuf(q, h + i - 1)]
    BY DEF Waiting
  <2> DEFINE e(i) == RxBuf(q, h + i - 1)
  <2> HIDE DEF n, c, w, h, g, p
  <2>3. \A i \in 1 .. w + n : e(i) \in Buffers
    BY <1>4, <1>5, RxBufType
  <2>4. \A k \in 1 .. n : p[k] = e(w + k)
    <3> SUFFICES ASSUME NEW k \in 1 .. n
                 PROVE  p[k] = e(w + k)
      OBVIOUS
    <3>1. k \in 1 .. Len(c) /\ h + w + k - 1 = h + (w + k) - 1
      BY <1>4, <1>5
    <3> QED
      BY <1>7, <1>8, <3>1
  <2> HIDE DEF e
  <2>5. Waiting(q)' = [i \in 1 .. w + n |-> e(i)] /\ g = [i \in 1 .. w |-> e(i)]
    BY <2>1, <2>2 DEF e
  <2>6. PICK v : v = [i \in 1 .. w + n |-> e(i)]
    OBVIOUS
  <2>7. v \in Seq(Buffers) /\ Len(v) = w + n /\ \A i \in 1 .. w + n : v[i] = e(i)
    BY <1>4, <1>5, <2>3, <2>6
  <2>8. Len(g) = w /\ \A i \in 1 .. w : g[i] = e(i)
    BY <1>4, <2>5
  <2>9. /\ g \o p \in Seq(Buffers) /\ Len(g \o p) = Len(g) + Len(p)
        /\ \A i \in 1 .. Len(g) + Len(p) :
             (g \o p)[i] = IF i <= Len(g) THEN g[i] ELSE p[i - Len(g)]
    BY <1>4, <1>8, ConcatProperties
  <2>10. ASSUME NEW i \in 1 .. Len(v)
         PROVE  v[i] = (g \o p)[i]
    <3>1. i \in 1 .. w + n
      BY <2>7
    <3>2. (g \o p)[i] = IF i <= w THEN g[i] ELSE p[i - w]
      BY <1>8, <2>8, <2>9, <3>1
    <3>3. CASE i <= w
      BY <1>4, <2>7, <2>8, <3>1, <3>2, <3>3
    <3>4. CASE i > w
      <4>1. i - w \in 1 .. n /\ w + (i - w) = i
        BY <1>4, <1>5, <3>1, <3>4
      <4>2. p[i - w] = e(i)
        BY <2>4, <4>1
      <4> QED
        BY <1>4, <2>7, <3>1, <3>2, <3>4, <4>2
    <3>5. i <= w \/ i > w
      BY <1>4, <3>1
    <3> QED
      BY <3>3, <3>4, <3>5
  <2>11. Len(v) = Len(g \o p)
    BY <1>8, <2>7, <2>8, <2>9
  <2>12. v = g \o p
    BY <2>7, <2>9, <2>10, <2>11, SeqEqual
  <2> QED
    BY <2>5, <2>6, <2>12
<1>10. Inside(q)' = (b \o (g \o p)) \o d /\ Inside(q) = (b \o g) \o c
  BY <1>2, <1>6, <1>9 DEF Inside, Behind
<1>11. (b \o (g \o p)) \o d = (b \o g) \o c
  <2> HIDE DEF b, g, p, d, c
  <2>1. b \in Seq(Buffers) /\ g \in Seq(Buffers) /\ p \in Seq(Buffers) /\ d \in Seq(Buffers)
    BY <1>4, <1>8
  <2>2. (b \o g) \o p = b \o (g \o p)
    BY <2>1, RegroupThree
  <2>3. b \o g \in Seq(Buffers)
    BY <2>1, ConcatProperties
  <2>4. ((b \o g) \o p) \o d = (b \o g) \o (p \o d)
    BY <2>1, <2>3, RegroupThree
  <2>5. p \o d = c
    BY <1>8
  <2> QED
    BY <2>2, <2>4, <2>5
<1>12. Anchored(q)'
  <2> DEFINE r == Len(rq[q])
             l == Len(c)
             x == recv_head[q]
  <2>1. r \in Nat /\ l \in Nat /\ x \in Int /\ w \in Nat /\ n \in Nat
    BY <1>4, <1>5, PathTypes DEF TypeOK
  <2>2. h = (x - r - l - w) % NumRxRingEntries
    BY DEF RingInv, OnRing, Anchored
  <2>3. Len(recv_cq'[q]) = l - n /\ wait_for_disp'[q] = w + n
    BY <1>6, <1>8
  <2>4. Anchored(q)' <=>
          h = (x - r - Len(recv_cq'[q]) - wait_for_disp'[q]) % NumRxRingEntries
    BY <1>1 DEF Anchored
  <2> HIDE DEF r, l, x, w, n, h
  <2>5. x - r - (l - n) - (w + n) = x - r - l - w
    BY <2>1
  <2> QED
    BY <2>2, <2>3, <2>4, <2>5
<1>13. Still(q)
  <2>1. Out(q) \in QPs
    BY OutOut
  <2>2. Inside(q)' = Inside(q)
    BY <1>10, <1>11
  <2> QED
    BY <1>1, <1>2, <1>12, <2>1, <2>2 DEF Still
<1> QED
  BY <1>3, <1>13

\* The dispatch passes on all that waits, and the worker's queue takes it.
LEMMA DispatchMoves ==
  ASSUME TypeOK, WorkerInv, RingInv, Dispatch
  PROVE  /\ \A q \in QPs : Still(q)
         /\ worker_rx' = worker_rx \o Waiting("prior")
         /\ state' = Dispatched(Elems(Waiting("prior")), Elems(Waiting("prior")))
<1> USE DEF tx_vars, nic_vars
<1> DEFINE g == Waiting("prior")
           n == Least(Len(g), WsCapacity - Len(worker_rx))
<1>1. "prior" \in QPs /\ "next" \in QPs /\ QPs = {"prior", "next"}
      /\ Out("prior") = "next" /\ Out("next") = "prior"
  BY DEF QPs, Out
<1>2. /\ pc = "dispatch" /\ worker_rx' = worker_rx \o SubSeq(g, 1, n)
      /\ state' = Dispatched(Elems(SubSeq(g, 1, n)), Elems(g))
      /\ PassOn("prior", Len(g))
      /\ UNCHANGED <<recv_head, worker_tx, tx_queue, rq, recv_cq, sq, send_cq>>
  BY DEF Dispatch
<1>3. g \in Seq(Buffers) /\ Len(g) = wait_for_disp["prior"] /\ wait_for_disp["prior"] \in Nat
  BY <1>1, WaitingType DEF TypeOK
<1>4. worker_rx \in Seq(Buffers) /\ worker_tx \in Seq(Buffers) /\ Len(worker_rx) \in Nat
      /\ tx_queue["next"] \in Seq(Buffers)
  BY <1>1 DEF TypeOK
<1>5. n = Len(g) /\ Len(g) \in Nat
  <2>1. Len(g) <= RxBatchSize /\ Len(worker_rx) <= AppRxMsgBatchSize /\ Len(g) \in Nat
    BY <1>2, <1>3, <1>4, RingAssumption DEF WorkerInv
  <2> QED
    BY <1>4, <2>1, RingAssumption, SizingAssumption DEF Least, WsCapacity
<1>6. SubSeq(g, 1, n) = g
  BY <1>3, <1>5, SubSeqFull
<1>7. worker_rx' = worker_rx \o g /\ state' = Dispatched(Elems(g), Elems(g))
  BY <1>2, <1>6
<1>8. \A q \in QPs : Unreaped(q)' = Unreaped(q) /\ Anchored(q)
  BY <1>2 DEF Unreaped, RingInv, OnRing
<1>9. Still("prior")
  <2>1. Behind("prior")' = Behind("prior") \o SubSeq(g, 1, Len(g))
    <3> DEFINE t == tx_queue["next"]
    <3>1. Behind("prior")' = t \o (worker_tx \o (worker_rx \o g))
      BY <1>1, <1>2, <1>7 DEF Behind
    <3>2. Behind("prior") = t \o (worker_tx \o worker_rx)
      BY <1>1 DEF Behind
    <3>3. SubSeq(g, 1, Len(g)) = g
      BY <1>3, SubSeqFull
    <3> HIDE DEF t, g
    <3>4. t \in Seq(Buffers) /\ g \in Seq(Buffers)
          /\ worker_tx \in Seq(Buffers) /\ worker_rx \in Seq(Buffers)
      BY <1>3, <1>4 DEF t
    <3>5. (worker_tx \o worker_rx) \o g = worker_tx \o (worker_rx \o g)
      BY <3>4, RegroupThree
    <3>6. PICK w \in Seq(Buffers) : w = worker_tx \o worker_rx
      BY <3>4, ConcatProperties, Zenon
    <3>7. (t \o w) \o g = t \o (w \o g)
      BY <3>4, RegroupThree
    <3> QED
      BY <3>1, <3>2, <3>3, <3>5, <3>6, <3>7
  <2>2. Len(g) \in 0 .. wait_for_disp["prior"]
    BY <1>3
  <2>3. Unreaped(Out("prior"))' = Unreaped(Out("prior"))
    BY <1>1, <1>8
  <2>4. /\ rq'["prior"] = rq["prior"] /\ recv_cq'["prior"] = recv_cq["prior"]
        /\ recv_head'["prior"] = recv_head["prior"] /\ Anchored("prior")
        /\ PassOn("prior", Len(g))
    BY <1>1, <1>2, <1>8
  <2> QED
    BY <1>1, <2>1, <2>2, <2>3, <2>4, PassOnStill
<1>10. Still("next")
  <2>1. Behind("next")' = Behind("next")
    BY <1>1, <1>2 DEF Behind
  <2>2. /\ ring_head'["next"] = ring_head["next"]
        /\ wait_for_disp'["next"] = wait_for_disp["next"]
    BY <1>1, <1>2 DEF PassOn, TypeOK
  <2>3. Unreaped(Out("next"))' = Unreaped(Out("next"))
    BY <1>1, <1>8
  <2> QED
    BY <1>1, <1>2, <1>8, <2>1, <2>2, <2>3, UntouchedStill
<1> QED
  BY <1>1, <1>7, <1>9, <1>10

\* The worker passes on all its messages or none.
LEMMA WorkerMoves ==
  ASSUME TypeOK, WorkerInv, RingInv, Worker
  PROVE  /\ \A q \in QPs : Still(q)
         /\ \/ worker_tx' = worker_tx \o worker_rx /\ worker_rx' = << >>
            \/ UNCHANGED <<worker_rx, worker_tx>>
<1> USE DEF rx_vars, tx_vars, nic_vars
<1>1. "prior" \in QPs /\ "next" \in QPs /\ QPs = {"prior", "next"}
      /\ Out("prior") = "next" /\ Out("next") = "prior"
  BY DEF QPs, Out
<1>2. /\ pc = "worker"
      /\ UNCHANGED <<recv_head, ring_head, wait_for_disp, tx_queue, rq, recv_cq, sq, send_cq>>
  BY DEF Worker
<1>3. worker_rx \in Seq(Buffers) /\ worker_tx \in Seq(Buffers) /\ Len(worker_rx) \in Nat
      /\ Len(worker_tx) \in Nat
  BY DEF TypeOK
<1>4. \/ worker_tx' = worker_tx \o worker_rx /\ worker_rx' = << >>
      \/ UNCHANGED <<worker_rx, worker_tx>>
  <2>1. CASE MessagesDue(Len(worker_rx))
    <3> DEFINE n == Least(Len(worker_rx), WsCapacity - Len(worker_tx))
    <3>1. worker_tx' = worker_tx \o SubSeq(worker_rx, 1, n) /\ worker_rx' = << >>
      BY <2>1 DEF Worker
    <3>2. Len(worker_tx) = 0 /\ Len(worker_rx) <= AppRxMsgBatchSize + RxBatchSize
      BY <1>2, <1>3 DEF WorkerInv
    <3>3. n = Len(worker_rx)
      BY <1>3, <3>2, RingAssumption, SizingAssumption DEF Least, WsCapacity
    <3>4. SubSeq(worker_rx, 1, n) = worker_rx
      BY <1>3, <3>3, SubSeqFull
    <3> QED
      BY <3>1, <3>4
  <2>2. CASE ~MessagesDue(Len(worker_rx))
    BY <2>2 DEF Worker, wk_vars
  <2> QED
    BY <2>1, <2>2
<1>5. \A q \in QPs : Behind(q)' = Behind(q)
  <2>1. worker_tx' \o worker_rx' = worker_tx \o worker_rx
    <3>1. worker_tx \o worker_rx \in Seq(Buffers)
      BY <1>3, ConcatProperties
    <3>2. (worker_tx \o worker_rx) \o << >> = worker_tx \o worker_rx
      BY <3>1, ConcatEmptySeq, Zenon
    <3> QED
      BY <1>4, <3>2
  <2> QED
    BY <1>2, <2>1 DEF Behind
<1>6. \A q \in QPs : Unreaped(Out(q))' = Unreaped(Out(q)) /\ Anchored(q)
  BY <1>2 DEF Unreaped, RingInv, OnRing
<1>7. \A q \in QPs : Still(q)
  BY <1>2, <1>5, <1>6, UntouchedStill
<1> QED
  BY <1>4, <1>7

\* The transmit queue takes all the worker has passed on.
LEMMA CollectMoves ==
  ASSUME TypeOK, RingInv, Collect
  PROVE  /\ \A q \in QPs : Still(q)
         /\ tx_queue'["next"] \o worker_tx' = tx_queue["next"] \o worker_tx
         /\ tx_queue'["prior"] = tx_queue["prior"]
         /\ UNCHANGED <<worker_rx, state>>
<1> USE DEF rx_vars, nic_vars
<1> DEFINE n == Least(Len(worker_tx), TxRoom("next"))
           t == tx_queue["next"]
           p == SubSeq(worker_tx, 1, n)
           d == Drop(worker_tx, n)
<1>1. "prior" \in QPs /\ "next" \in QPs /\ QPs = {"prior", "next"}
      /\ Out("prior") = "next" /\ Out("next") = "prior"
  BY DEF QPs, Out
<1>2. /\ tx_queue' = [tx_queue EXCEPT !["next"] = @ \o p]
      /\ worker_tx' = d
      /\ UNCHANGED <<recv_head, ring_head, wait_for_disp, worker_rx, state, rq, recv_cq, sq,
                     send_cq>>
  BY DEF Collect
<1>3. tx_queue'["next"] = t \o p /\ tx_queue'["prior"] = tx_queue["prior"]
  BY <1>1, <1>2 DEF TypeOK
<1>4. t \in Seq(Buffers) /\ worker_tx \in Seq(Buffers) /\ worker_rx \in Seq(Buffers)
  BY <1>1 DEF TypeOK
<1>5. n \in 0 .. Len(worker_tx)
  BY <1>1, <1>4, TxRoomType DEF Least
<1>6. p \in Seq(Buffers) /\ d \in Seq(Buffers) /\ p \o d = worker_tx
  <2> HIDE DEF n
  <2> QED
    BY <1>4, <1>5, PrefixAndRest, SplitAt
<1> HIDE DEF n, t, p, d
<1>7. (t \o p) \o d = t \o worker_tx
  <2>1. t \in Seq(Buffers) /\ p \in Seq(Buffers) /\ d \in Seq(Buffers)
    BY <1>4, <1>6
  <2>2. (t \o p) \o d = t \o (p \o d)
    BY <2>1, RegroupThree
  <2> QED
    BY <1>6, <2>2
<1>8. Behind("prior")' = Behind("prior")
  <2>1. Behind("prior")' = (t \o p) \o (d \o worker_rx)
    BY <1>1, <1>2, <1>3 DEF Behind
  <2>2. Behind("prior") = t \o (worker_tx \o worker_rx)
    BY <1>1 DEF Behind, t
  <2>3. p \in Seq(Buffers) /\ d \in Seq(Buffers) /\ worker_rx \in Seq(Buffers)
        /\ t \in Seq(Buffers) /\ worker_tx \in Seq(Buffers)
    BY <1>4, <1>6
  <2>4. ((t \o p) \o d) \o worker_rx = (t \o p) \o (d \o worker_rx)
    <3>1. PICK x \in Seq(Buffers) : x = t \o p
      BY <2>3, ConcatProperties, Zenon
    <3>2. (x \o d) \o worker_rx = x \o (d \o worker_rx)
      BY <2>3, RegroupThree
    <3> QED
      BY <3>1, <3>2
  <2>5. (t \o worker_tx) \o worker_rx = t \o (worker_tx \o worker_rx)
    BY <2>3, RegroupThree
  <2> QED
    BY <1>7, <2>1, <2>2, <2>4, <2>5
<1>9. Behind("next")' = Behind("next")
  BY <1>1, <1>3 DEF Behind
<1>10. \A q \in QPs : Unreaped(Out(q))' = Unreaped(Out(q)) /\ Anchored(q)
  BY <1>2 DEF Unreaped, RingInv, OnRing
<1>11. \A q \in QPs : Still(q)
  BY <1>1, <1>2, <1>8, <1>9, <1>10, UntouchedStill
<1> QED
  BY <1>2, <1>3, <1>7, <1>11 DEF t

\* The direct path moves waiting entries to the transmit queue.
LEMMA DirectMoves ==
  ASSUME TypeOK, RingInv, DirectTxBurst
  PROVE  /\ \A q \in QPs : Still(q)
         /\ UNCHANGED <<worker_rx, worker_tx, state>>
         /\ tx_queue'["next"] = tx_queue["next"]
         /\ Behind("next")' = Behind("next") \o SubSeq(Waiting("next"), 1, DirectSize)
         /\ DirectSize \in 0 .. wait_for_disp["next"]
<1> USE DEF wk_vars, nic_vars
<1> DEFINE g == Waiting("next")
           n == DirectSize
           t == tx_queue["prior"]
           p == SubSeq(g, 1, n)
<1>1. "prior" \in QPs /\ "next" \in QPs /\ QPs = {"prior", "next"}
      /\ Out("prior") = "next" /\ Out("next") = "prior"
  BY DEF QPs, Out
<1>2. /\ tx_queue' = [tx_queue EXCEPT !["prior"] = @ \o p]
      /\ PassOn("next", n)
      /\ UNCHANGED <<recv_head, worker_rx, worker_tx, state, rq, recv_cq, sq, send_cq>>
  BY DEF DirectTxBurst
<1>3. tx_queue'["prior"] = t \o p /\ tx_queue'["next"] = tx_queue["next"]
  BY <1>1, <1>2 DEF TypeOK
<1>4. t \in Seq(Buffers) /\ g \in Seq(Buffers) /\ Len(g) = wait_for_disp["next"]
  BY <1>1, WaitingType DEF TypeOK
<1>5. n \in 0 .. wait_for_disp["next"]
  <2>1. wait_for_disp["next"] \in Nat /\ TxRoom("prior") \in Nat
    BY <1>1, TxRoomType DEF TypeOK
  <2> QED
    BY <2>1 DEF DirectSize, Least
<1>6. p \in Seq(Buffers)
  <2> HIDE DEF g, n
  <2> QED
    BY <1>4, <1>5, PrefixAndRest
<1>7. Behind("next")' = Behind("next") \o p
  <2>1. Behind("next")' = (t \o p) \o << >> /\ Behind("next") = t \o << >>
    BY <1>1, <1>3 DEF Behind
  <2> HIDE DEF t, p
  <2>2. t \o p \in Seq(Buffers) /\ t \in Seq(Buffers)
    BY <1>4, <1>6, ConcatProperties
  <2>3. (t \o p) \o << >> = t \o p /\ t \o << >> = t
    BY <2>2, ConcatEmptySeq, Zenon
  <2> QED
    BY <2>1, <2>3
<1>8. \A q \in QPs : Unreaped(q)' = Unreaped(q) /\ Anchored(q)
  BY <1>2 DEF Unreaped, RingInv, OnRing
<1>9. Still("next")
  <2>1. Unreaped(Out("next"))' = Unreaped(Out("next"))
    BY <1>1, <1>8
  <2>2. /\ rq'["next"] = rq["next"] /\ recv_cq'["next"] = recv_cq["next"]
        /\ recv_head'["next"] = recv_head["next"] /\ Anchored("next")
    BY <1>1, <1>2, <1>8
  <2> QED
    BY <1>1, <1>2, <1>5, <1>7, <2>1, <2>2, PassOnStill
<1>10. Still("prior")
  <2>1. Behind("prior")' = Behind("prior")
    BY <1>1, <1>2, <1>3 DEF Behind
  <2>2. /\ ring_head'["prior"] = ring_head["prior"]
        /\ wait_for_disp'["prior"] = wait_for_disp["prior"]
    BY <1>1, <1>2 DEF PassOn, TypeOK
  <2>3. Unreaped(Out("prior"))' = Unreaped(Out("prior"))
    BY <1>1, <1>8
  <2> QED
    BY <1>1, <1>2, <1>8, <2>1, <2>2, <2>3, UntouchedStill
<1> QED
  BY <1>1, <1>2, <1>3, <1>5, <1>7, <1>9, <1>10

\* A completion moves the oldest posted buffer into the block; the path stays.
LEMMA RecvMoves ==
  ASSUME TypeOK, RingInv, NEW q \in QPs, NicRecv(q)
  PROVE  /\ rq[q] # << >> /\ Head(rq[q]) \in Buffers
         /\ Inside(q)' = Append(Inside(q), Head(rq[q]))
         /\ Path(q)' = Path(q)
         /\ OnRing(q)'
         /\ \A r \in QPs \ {q} : Still(r)
         /\ \A r \in QPs : Behind(r)' = Behind(r) /\ Waiting(r)' = Waiting(r)
<1> USE DEF rx_vars, wk_vars, tx_vars
<1> DEFINE b == Behind(q)
           g == Waiting(q)
           c == recv_cq[q]
           k == rq[q]
           e == Head(k)
           u == Unreaped(Out(q))
           i == Inside(q)
<1>1. /\ rq[q] # << >>
      /\ recv_cq' = [recv_cq EXCEPT ![q] = Append(@, e)]
      /\ rq' = [rq EXCEPT ![q] = Tail(@)]
      /\ UNCHANGED <<recv_head, ring_head, wait_for_disp, worker_rx, worker_tx, tx_queue, sq,
                     send_cq>>
  BY DEF NicRecv
<1>2. /\ recv_cq'[q] = Append(c, e) /\ rq'[q] = Tail(k)
      /\ \A r \in QPs \ {q} : recv_cq'[r] = recv_cq[r] /\ rq'[r] = rq[r]
  BY <1>1 DEF TypeOK
<1>3. /\ b \in Seq(Buffers) /\ g \in Seq(Buffers) /\ c \in Seq(Buffers)
      /\ u \in Seq(Buffers) /\ i \in Seq(Buffers) /\ k \in Seq(Buffers) /\ k # << >>
      /\ i = (b \o g) \o c
  BY <1>1, InsideTypes, PathTypes
<1>4. \A r \in QPs : Behind(r)' = Behind(r) /\ Waiting(r)' = Waiting(r)
  BY <1>1 DEF Behind, Waiting
<1>5. \A r \in QPs : Unreaped(Out(r))' = Unreaped(Out(r))
  BY <1>1 DEF Unreaped
<1>6. ASSUME NEW r \in QPs \ {q}
      PROVE  Still(r)
  <2>1. Anchored(r) /\ r \in QPs
    BY DEF RingInv, OnRing
  <2> QED
    BY <1>1, <1>2, <1>4, <1>5, <2>1, UntouchedStill
<1>7. e \in Buffers /\ Tail(k) \in Seq(Buffers) /\ Len(Tail(k)) = Len(k) - 1
  <2> HIDE DEF k
  <2> QED
    BY <1>3, HeadTailProperties
<1>8. Inside(q)' = (b \o g) \o Append(c, e)
  BY <1>2, <1>4 DEF Inside, Behind
<1>9. Path(q)' = (u \o Inside(q)') \o Tail(k) /\ Path(q) = (u \o i) \o k
  BY <1>2, <1>5 DEF Path
<1> HIDE DEF b, g, c, u, i
<1>10. (b \o g) \o Append(c, e) = Append(i, e)
  <2> HIDE DEF e, k
  <2>1. PICK x \in Seq(Buffers) : x = b \o g
    BY <1>3, ConcatProperties, Zenon
  <2>2. PICK o \in Seq(Buffers) : o = <<e>>
    <3>1. e \in Buffers
      BY <1>7
    <3>2. <<e>> \in Seq(Buffers)
      BY <3>1
    <3> QED
      BY <3>2, Zenon
  <2>3. Append(c, e) = c \o o /\ Append(i, e) = i \o o
    BY <1>3, <1>7, <2>2, AppendIsConcat
  <2>4. (x \o c) \o o = x \o (c \o o)
    BY <1>3, RegroupThree, ZenonT(40)
  <2> QED
    BY <1>3, <2>1, <2>3, <2>4
<1>11. (u \o Append(i, e)) \o Tail(k) = (u \o i) \o k
  <2>1. Append(i, e) \o Tail(k) = i \o k
    BY <1>3, HandOver
  <2>2. Append(i, e) \in Seq(Buffers)
    <3> HIDE DEF e, k
    <3> QED
      BY <1>3, <1>7, AppendProperties
  <2>3. PICK x \in Seq(Buffers) : x = Append(i, e)
    BY <2>2
  <2>4. PICK t \in Seq(Buffers) : t = Tail(k)
    BY <1>7
  <2> HIDE DEF e, k
  <2>s. u \in Seq(Buffers) /\ i \in Seq(Buffers) /\ k \in Seq(Buffers)
    BY <1>3
  <2>5. (u \o x) \o t = u \o (x \o t)
    BY <2>s, RegroupThree
  <2>6. (u \o i) \o k = u \o (i \o k)
    BY <2>s, RegroupThree
  <2> QED
    BY <2>1, <2>3, <2>4, <2>5, <2>6
<1>12. Inside(q)' = Append(Inside(q), Head(rq[q])) /\ Path(q)' = Path(q)
  BY <1>8, <1>9, <1>10, <1>11 DEF i
<1>13. Anchored(q)'
  <2> DEFINE x == recv_head[q]
             l == Len(c)
             r == Len(k)
             w == wait_for_disp[q]
             n == NumRxRingEntries
  <2>1. /\ Anchored(q)' <=> ring_head[q] = (x - Len(Tail(k)) - Len(Append(c, e)) - w) % n
        /\ ring_head[q] = (x - r - l - w) % n
    BY <1>1, <1>2 DEF RingInv, OnRing, Anchored, c
  <2>2. l \in Nat /\ r \in Nat /\ x \in Int /\ w \in Nat
    <3>1. x \in Int /\ w \in Nat
      BY DEF TypeOK
    <3>2. l \in Nat
      BY InsideTypes, Zenon DEF c
    <3>3. r \in Nat
      BY PathTypes, Zenon
    <3> QED
      BY <3>1, <3>2, <3>3
  <2>3. Len(Append(c, e)) = l + 1 /\ Len(Tail(k)) = r - 1
    <3> HIDE DEF e, k
    <3>1. Len(Append(c, e)) = Len(c) + 1
      BY <1>3, <1>7, AppendProperties
    <3> QED
      BY <1>7, <3>1
  <2> HIDE DEF x, l, r, w, n, e, k
  <2>4. x - (r - 1) - (l + 1) - w = x - r - l - w
    BY <2>2
  <2> QED
    BY <2>1, <2>3, <2>4
<1>14. OnRing(q)'
  BY <1>1, <1>12, <1>13 DEF RingInv, OnRing
<1> QED
  BY <1>1, <1>4, <1>6, <1>7, <1>12, <1>14

\* A burst moves buffers from the transmit queue to the NIC, and takes those
\* that were sent off the path.
LEMMA BurstPath ==
  ASSUME TypeOK, RingInv, NEW q \in QPs, NEW at, TxBurst(q, at), ~PostsPartly("send")
  PROVE  /\ Behind(Out(q))' = Drop(Behind(Out(q)), NbTx(q))
         /\ NbTx(q) \in 0 .. Len(Behind(Out(q)))
         /\ Inside(Out(q))' = Drop(Inside(Out(q)), NbTx(q))
         /\ NbTx(q) \in 0 .. Len(Inside(Out(q)))
         /\ Mounted(q) = SubSeq(Inside(Out(q)), 1, NbTx(q))
         /\ Reaped(q) \in 0 .. Len(Unreaped(q))
         /\ Path(Out(q))' = Drop(Path(Out(q)), Reaped(q))
         /\ Waiting(Out(q))' = Waiting(Out(q))
         /\ OnRing(Out(q))'
         /\ Still(q)
<1> USE DEF rx_vars, wk_vars
<1> DEFINE o == Out(q)
           t == tx_queue[q]
           x == IF o = "prior" THEN worker_tx \o worker_rx ELSE << >>
           b == Behind(o)
           g == Waiting(o)
           c == recv_cq[o]
           i == Inside(o)
           u == Unreaped(q)
           k == rq[o]
           m == Mounted(q)
           n == NbTx(q)
           r == Reaped(q)
<1>1. o \in QPs /\ Out(o) = q /\ o # q
  BY OutOut
<1>2. UNCHANGED <<recv_head, ring_head, wait_for_disp, worker_rx, worker_tx, rq, recv_cq>>
  BY DEF TxBurst
<1>3. /\ Unreaped(q)' = Drop(u, r) \o m /\ tx_queue'[q] = Drop(t, n)
      /\ Unreaped(o)' = Unreaped(o) /\ tx_queue'[o] = tx_queue[o]
  BY <1>1, BurstMoves
<1>4. /\ t \in Seq(Buffers) /\ x \in Seq(Buffers) /\ b \in Seq(Buffers)
      /\ g \in Seq(Buffers) /\ c \in Seq(Buffers) /\ i \in Seq(Buffers)
      /\ u \in Seq(Buffers) /\ k \in Seq(Buffers) /\ m \in Seq(Buffers)
  <2>1. b \in Seq(Buffers) /\ g \in Seq(Buffers) /\ c \in Seq(Buffers) /\ i \in Seq(Buffers)
    BY <1>1, InsideTypes
  <2>2. t \in Seq(Buffers) /\ k \in Seq(Buffers)
    BY <1>1 DEF TypeOK
  <2>3. u \in Seq(Buffers) /\ m \in Seq(Buffers)
    BY UnreapedType, BurstSizes
  <2>4. x \in Seq(Buffers)
    BY DEF TypeOK
  <2> QED
    BY <2>1, <2>2, <2>3, <2>4
<1>5. n \in 0 .. Len(t) /\ r \in 0 .. Len(u) /\ m = SubSeq(t, 1, n)
  <2>1. /\ r \in Nat /\ r <= Len(send_cq[q]) /\ n \in Nat /\ n <= Len(t)
    BY BurstSizes, Zenon
  <2>2. Len(send_cq[q]) \in Nat /\ Len(sq[q]) \in Nat /\ Len(u) = Len(send_cq[q]) + Len(sq[q])
    BY UnreapedType, Zenon
  <2> DEFINE y == Len(send_cq[q])
             z == Len(sq[q])
             l == Len(u)
             lt == Len(t)
  <2>3. lt \in Nat /\ l \in Nat
    BY <1>4, LenProperties, Zenon
  <2> HIDE DEF r, n, y, z, l, lt
  <2>4. r \in Nat /\ r <= y /\ y \in Nat /\ z \in Nat /\ l = y + z
    BY <2>1, <2>2 DEF y, z, l
  <2>5. r \in 0 .. l
    BY <2>3, <2>4
  <2>6. n \in 0 .. lt
    BY <2>1, <2>3 DEF lt
  <2> QED
    BY <2>5, <2>6 DEF l, lt, n, Mounted
<1>6. b = t \o x /\ b' = Drop(t, n) \o x
  BY <1>1, <1>2, <1>3 DEF Behind
<1>7. i = (b \o g) \o c /\ i' = (b' \o g) \o c /\ g' = g
  <2>1. g' = g
    BY <1>2 DEF Waiting
  <2> QED
    BY <1>2, <2>1 DEF Inside, Behind
<1>8. Path(o) = (u \o i) \o k /\ Path(o)' = ((Drop(u, r) \o m) \o i') \o k
  BY <1>1, <1>2, <1>3 DEF Path
<1>9. Path(o)' = Drop(Path(o), r) /\ b' = Drop(b, n) /\ i' = Drop(i, n)
      /\ m = SubSeq(i, 1, n) /\ n \in 0 .. Len(b) /\ n \in 0 .. Len(i)
  <2> DEFINE b2 == b'
             i2 == i'
             P2 == Path(o)'
             P  == Path(o)
  <2> HIDE DEF o, t, x, b, g, c, i, u, k, m, n, r, b2, i2, P, P2
  <2>0. /\ b = t \o x /\ b2 = Drop(t, n) \o x /\ i = (b \o g) \o c /\ i2 = (b2 \o g) \o c
        /\ P = (u \o i) \o k /\ P2 = ((Drop(u, r) \o m) \o i2) \o k
    BY <1>6, <1>7, <1>8 DEF b2, i2, P, P2
  <2>1. b2 = Drop(b, n)
    BY <1>4, <1>5, <2>0, DropConcat
  <2>2. n \in 0 .. Len(b) /\ n \in Nat
    <3>1. Len(b) = Len(t) + Len(x) /\ Len(t) \in Nat /\ Len(x) \in Nat
      BY <1>4, <2>0, ConcatProperties, LenProperties
    <3> QED
      BY <1>5, <3>1
  <2>3. PICK y \in Seq(Buffers) : y = b \o g
    BY <1>4, ConcatProperties, Zenon
  <2>4. Drop(y, n) = Drop(b, n) \o g /\ n \in 0 .. Len(y)
    <3>1. Drop(b \o g, n) = Drop(b, n) \o g
      BY <1>4, <2>2, DropConcat
    <3>2. Len(y) = Len(b) + Len(g) /\ Len(b) \in Nat /\ Len(g) \in Nat
      BY <1>4, <2>3, ConcatProperties, LenProperties
    <3> QED
      BY <2>2, <2>3, <3>1, <3>2
  <2>5. i2 = Drop(i, n) /\ n \in 0 .. Len(i)
    <3>1. Drop(y \o c, n) = Drop(y, n) \o c
      BY <1>4, <2>4, DropConcat
    <3>2. Len(i) = Len(y) + Len(c) /\ Len(y) \in Nat /\ Len(c) \in Nat
      BY <1>4, <2>0, <2>3, ConcatProperties, LenProperties
    <3>3. n \in 0 .. Len(i)
      BY <2>2, <2>4, <3>2
    <3> QED
      BY <2>0, <2>1, <2>3, <2>4, <3>1, <3>3
  <2>6. m = SubSeq(i, 1, n)
    <3>1. \A j \in 1 .. n : i[j] = t[j]
      <4>1. InARow(i, b, g, c)
        BY <1>4, <2>0, ConcatThree
      <4>2. \A j \in 1 .. Len(b) : i[j] = b[j]
        BY <4>1 DEF InARow
      <4>3. \A j \in 1 .. Len(t) : b[j] = t[j]
        BY <1>4, <2>0
      <4>4. Len(t) \in Nat /\ Len(b) \in Nat
        BY <1>4, LenProperties
      <4> QED
        BY <1>5, <2>2, <4>2, <4>3, <4>4
    <3>2. /\ SubSeq(i, 1, n) \in Seq(Buffers) /\ Len(SubSeq(i, 1, n)) = n
          /\ \A j \in 1 .. n : SubSeq(i, 1, n)[j] = i[j]
      BY <1>4, <2>2, <2>5
    <3>3. /\ m \in Seq(Buffers) /\ Len(m) = n /\ \A j \in 1 .. n : m[j] = t[j]
      BY <1>4, <1>5
    <3>4. \A j \in 1 .. Len(m) : m[j] = SubSeq(i, 1, n)[j]
      BY <3>1, <3>2, <3>3
    <3>5. Len(m) = Len(SubSeq(i, 1, n))
      BY <3>2, <3>3
    <3> QED
      BY <3>2, <3>3, <3>4, <3>5, SeqEqual
  <2>7. m \o i2 = i
    BY <1>4, <2>5, <2>6, SplitAt
  <2>8. P2 = Drop(P, r)
    <3>1. PICK v \in Seq(Buffers) : v = Drop(u, r)
      BY <1>4, <1>5, PrefixAndRest, Zenon
    <3>2. i2 \in Seq(Buffers)
      BY <1>4, <2>5, PrefixAndRest
    <3>3. (v \o m) \o i2 = v \o (m \o i2)
      <4>1. m \in Seq(Buffers) /\ i2 \in Seq(Buffers)
        BY <1>4, <3>2
      <4> QED
        BY <4>1, RegroupThree
    <3>4. P2 = (v \o i) \o k
      BY <2>0, <2>7, <3>1, <3>3
    <3>5. Drop(u \o i, r) = v \o i
      BY <1>4, <1>5, <3>1, DropConcat
    <3>6. PICK z \in Seq(Buffers) : z = u \o i
      BY <1>4, ConcatProperties, Zenon
    <3>7. r \in 0 .. Len(z)
      <4>1. Len(z) = Len(u) + Len(i) /\ Len(u) \in Nat /\ Len(i) \in Nat
        BY <1>4, <3>6, ConcatProperties, LenProperties
      <4> QED
        BY <1>5, <4>1
    <3>8. Drop(z \o k, r) = Drop(z, r) \o k
      BY <1>4, <3>7, DropConcat
    <3> QED
      BY <2>0, <3>4, <3>5, <3>6, <3>8
  <2> QED
    BY <2>1, <2>2, <2>5, <2>6, <2>8 DEF b2, i2, P, P2
<1>10. OnRing(o)'
  <2> DEFINE P == Path(o)
             L == Len(Path(o))
             h == recv_head[o]
  <2>1. /\ P \in Seq(Buffers) /\ L \in Nat /\ h \in Int /\ r \in Nat
        /\ L <= NumRxRingEntries /\ NumRxRingEntries \in Nat
        /\ \A j \in 1 .. L : P[j] = RxBuf(o, h - L + j - 1)
    <3>1. P \in Seq(Buffers) /\ L \in Nat
      BY <1>1, PathTypes
    <3>2. h \in Int /\ NumRxRingEntries \in Nat
      BY <1>1, RingAssumption DEF TypeOK
    <3>3. L <= NumRxRingEntries /\ \A j \in 1 .. L : P[j] = RxBuf(o, h - L + j - 1)
      BY <1>1 DEF RingInv, OnRing
    <3>4. r \in Nat
      BY BurstSizes
    <3> QED
      BY <3>1, <3>2, <3>3, <3>4
  <2>2. L = Len(u) + Len(i) + Len(k) /\ Len(u) \in Nat /\ Len(i) \in Nat /\ Len(k) \in Nat
    <3>1. /\ L = Len(Unreaped(Out(o))) + Len(i) + Len(k)
          /\ Len(Unreaped(Out(o))) \in Nat /\ Len(k) \in Nat
      BY <1>1, PathTypes, Zenon
    <3>2. Len(i) \in Nat
      BY <1>1, InsideTypes, Zenon
    <3> QED
      BY <1>1, <3>1, <3>2
  <2>3. r \in 0 .. L
    <3> HIDE DEF L, u, i, k, r
    <3> QED
      BY <1>5, <2>2
  <2>4. /\ Len(Path(o)') = L - r
        /\ \A j \in 1 .. L - r : Path(o)'[j] = P[r + j]
    <3>1. Path(o)' = Drop(P, r)
      BY <1>9
    <3> HIDE DEF P, r
    <3>2. Len(P) = L
      BY DEF P
    <3> HIDE DEF L
    <3>3. Len(Drop(P, r)) = L - r /\ \A j \in 1 .. L - r : Drop(P, r)[j] = P[r + j]
      BY <2>1, <2>3, <3>2 DEF Drop
    <3> QED
      BY <3>1, <3>3
  <2>5. Anchored(o)' /\ recv_head'[o] = h
    BY <1>1, <1>2 DEF RingInv, OnRing, Anchored
  <2> HIDE DEF P, L, h, r
  <2>6. ASSUME NEW j \in 1 .. L - r
        PROVE  Path(o)'[j] = RxBuf(o, h - (L - r) + j - 1)
    <3>1. r + j \in 1 .. L /\ h - L + (r + j) - 1 = h - (L - r) + j - 1
      BY <2>1, <2>3
    <3> QED
      BY <2>1, <2>4, <3>1
  <2>7. L - r <= NumRxRingEntries
    BY <2>1, <2>3
  <2> QED
    BY <2>4, <2>5, <2>6, <2>7 DEF OnRing
<1>11. Still(q)
  <2>1. Behind(q)' = Behind(q)
    BY <1>2, <1>3 DEF Behind
  <2>2. Anchored(q)
    BY DEF RingInv, OnRing
  <2> QED
    BY <1>2, <1>3, <2>1, <2>2, UntouchedStill
<1> QED
  BY <1>5, <1>7, <1>9, <1>10, <1>11

----------------------------------------------------------------------------
(* Posting the free run. Its length is what Ownership is for: a free entry *)
(* is on no path, so the run ends where the path begins.                   *)

\* The entries __rx_burst posts, oldest first.
Entries(q, n) == [i \in 1 .. n |-> RxBuf(q, recv_head[q] + i - 1)]

\* Reposted entries join the end of the path.
LEMMA PostPath ==
  ASSUME TypeOK, RingInv, Ownership, NEW q \in QPs, NEW from, NEW to,
         PostRecvs(q, from, to), ~PostsPartly("recv")
  PROVE  \E n \in 0 .. NumRxRingEntries :
           /\ Path(q)' = Path(q) \o Entries(q, n)
           /\ Entries(q, n) \in Seq(Buffers) /\ Len(Entries(q, n)) = n
           /\ \A b \in Elems(Entries(q, n)) : state[b] = FREE
           /\ state' = Mark(Elems(Entries(q, n)), POSTED)
           /\ content' = [b \in Buffers |->
                            IF b \in Elems(Entries(q, n)) THEN "empty" ELSE content[b]]
           /\ OnRing(q)'
           /\ Inside(q)' = Inside(q)
           /\ \A r \in QPs \ {q} : Still(r)
           /\ \A r \in QPs : Behind(r)' = Behind(r) /\ Waiting(r)' = Waiting(r)
<1> USE DEF wk_vars, tx_vars
<1> DEFINE N == NumRxRingEntries
           h == recv_head[q]
           e(i) == RxBuf(q, h + i)
<1>1. PICK n \in 0 .. N :
        /\ FreeRun(q, n)
        /\ rq' = [rq EXCEPT ![q] = @ \o [i \in 1 .. n |-> e(i - 1)]]
        /\ content' = [b \in Buffers |->
                         IF b \in {e(i) : i \in 0 .. n - 1} THEN "empty" ELSE content[b]]
        /\ state' = Mark({e(i) : i \in 0 .. n - 1}, POSTED)
        /\ recv_head' = [recv_head EXCEPT ![q] = Advance(@, n)]
  BY DEF PostRecvs, Taken
<1>2. UNCHANGED <<ring_head, wait_for_disp, worker_rx, worker_tx, tx_queue, recv_cq, sq, send_cq>>
  BY DEF PostRecvs
<1>3. N \in Nat \ {0} /\ h \in 0 .. N - 1 /\ n \in Nat
  BY RingAssumption DEF TypeOK
<1> DEFINE E == Entries(q, n)
<1>4. E = [i \in 1 .. n |-> e(i - 1)]
  <2>1. \A i \in 1 .. n : h + i - 1 = h + (i - 1)
    BY <1>3
  <2> QED
    BY <2>1 DEF Entries
<1>5. E \in Seq(Buffers) /\ Len(E) = n /\ \A i \in 1 .. n : E[i] = RxBuf(q, h + i - 1)
  <2> DEFINE f(i) == RxBuf(q, h + i - 1)
  <2>1. \A i \in 1 .. n : f(i) \in Buffers
    BY <1>3, RxBufType
  <2>2. E = [i \in 1 .. n |-> f(i)]
    BY DEF Entries
  <2> HIDE DEF f, E
  <2>3. E \in Seq(Buffers) /\ Len(E) = n /\ \A i \in 1 .. n : E[i] = f(i)
    BY <1>3, <2>1, <2>2
  <2> QED
    BY <2>3 DEF f
<1>6. Elems(E) = {e(i) : i \in 0 .. n - 1}
  <2>1. ASSUME NEW b \in Elems(E)
        PROVE  b \in {e(i) : i \in 0 .. n - 1}
    <3>1. PICK i \in 1 .. n : b = E[i]
      BY <1>5 DEF Elems
    <3>2. i - 1 \in 0 .. n - 1 /\ b = e(i - 1)
      BY <1>3, <1>4, <3>1
    <3> QED
      BY <3>2
  <2>2. ASSUME NEW i \in 0 .. n - 1
        PROVE  e(i) \in Elems(E)
    <3>1. i + 1 \in 1 .. n /\ i + 1 - 1 = i
      BY <1>3
    <3>2. E[i + 1] = e(i)
      BY <1>4, <3>1
    <3> QED
      BY <1>5, <3>1, <3>2 DEF Elems
  <2> QED
    BY <2>1, <2>2
<1>7. \A b \in Elems(E) : state[b] = FREE
  BY <1>1, <1>6 DEF FreeRun
<1> HIDE DEF E
<1>8. \A r \in QPs : /\ Behind(r)' = Behind(r) /\ Waiting(r)' = Waiting(r)
                     /\ Unreaped(r)' = Unreaped(r)
  BY <1>2 DEF Behind, Waiting, Unreaped
<1>9. Inside(q)' = Inside(q)
  BY <1>2, <1>8 DEF Inside, Behind
<1>10. /\ rq'[q] = rq[q] \o E
       /\ recv_head'[q] = (h + n) % N
       /\ \A r \in QPs \ {q} : rq'[r] = rq[r] /\ recv_head'[r] = recv_head[r]
  BY <1>1, <1>4 DEF TypeOK, Advance
<1>11. Path(q)' = Path(q) \o E
  <2> DEFINE x == Unreaped(Out(q)) \o Inside(q)
  <2>1. x \in Seq(Buffers) /\ rq[q] \in Seq(Buffers)
    <3>1. Unreaped(Out(q)) \in Seq(Buffers) /\ Inside(q) \in Seq(Buffers)
          /\ rq[q] \in Seq(Buffers)
      BY PathTypes, InsideTypes
    <3> QED
      BY <3>1, ConcatProperties, Zenon
  <2>2. Path(q) = x \o rq[q] /\ Path(q)' = x \o (rq[q] \o E)
    BY <1>8, <1>9, <1>10, OutOut DEF Path
  <2> DEFINE k == rq[q]
  <2> HIDE DEF x, k
  <2>3. (x \o k) \o E = x \o (k \o E)
    <3>1. x \in Seq(Buffers) /\ k \in Seq(Buffers) /\ E \in Seq(Buffers)
      BY <1>5, <2>1 DEF k
    <3> QED
      BY <3>1, RegroupThree
  <2> QED
    BY <2>2, <2>3 DEF k
<1> DEFINE P == Path(q)
           L == Len(P)
<1>12. /\ P \in Seq(Buffers) /\ L \in Nat /\ L <= N
       /\ \A k \in 1 .. L : P[k] = RxBuf(q, h - L + k - 1)
  BY PathTypes DEF RingInv, OnRing
<1>13. L + n <= N
  <2> SUFFICES ASSUME L + n > N
               PROVE  FALSE
    <3> HIDE DEF L, N
    <3> QED
      BY <1>3, <1>12
  <2>1. L \in Nat /\ N \in Nat \ {0} /\ L >= 1 /\ N - L + 1 \in 1 .. n /\ 1 \in 1 .. L
    <3> HIDE DEF L, N
    <3> QED
      BY <1>1, <1>3, <1>12
  <2>2. P[1] = E[N - L + 1]
    <3>1. P[1] = RxBuf(q, h - L + 1 - 1) /\ E[N - L + 1] = RxBuf(q, h + (N - L + 1) - 1)
      BY <1>5, <1>12, <2>1
    <3> HIDE DEF h, L, N
    <3>2. h - L + 1 - 1 = h - L /\ h + (N - L + 1) - 1 = (h - L) + N /\ h - L \in Int
      BY <1>3, <1>12
    <3>3. ((h - L) + N) % N = (h - L) % N
      BY <1>3, <3>2, ModTurn, Zenon
    <3> QED
      BY <3>1, <3>2, <3>3 DEF RxBuf, N
  <2>3. state[P[1]] = FREE
    BY <1>5, <1>7, <2>1, <2>2 DEF Elems
  <2>4. P[1] \in Buffers /\ P[1] \in Elems(Path(q)) /\ P[1][1] = q
    <3>1. P[1] \in Buffers
      BY <1>12, <2>1
    <3>2. P[1] \in Elems(Path(q))
      BY <2>1 DEF Elems
    <3>3. P[1][1] = q
      BY <2>1, PathOwn DEF RingInv
    <3> QED
      BY <3>1, <3>2, <3>3
  <2> QED
    BY <2>3, <2>4 DEF Ownership
<1>14. OnRing(q)'
  <2>1. Len(Path(q)') = L + n
    <3> HIDE DEF P
    <3>1. Path(q)' = P \o E
      BY <1>11 DEF P
    <3> QED
      BY <1>5, <1>12, <3>1, ConcatProperties
  <2>2. ASSUME NEW k \in 1 .. L + n
        PROVE  Path(q)'[k] = RxBuf(q, h - L + k - 1)
    <3>1. Path(q)' = P \o E
      BY <1>11
    <3> HIDE DEF P
    <3>2. /\ \A j \in 1 .. Len(P) : (P \o E)[j] = P[j]
          /\ \A j \in 1 .. Len(E) : (P \o E)[Len(P) + j] = E[j]
      BY <1>5, <1>12
    <3>3. CASE k <= L
      BY <1>12, <3>1, <3>2, <3>3
    <3>4. CASE k > L
      <4>1. k - L \in 1 .. n /\ L + (k - L) = k /\ h + (k - L) - 1 = h - L + k - 1
        <5> HIDE DEF L, h
        <5> QED
          BY <1>3, <1>12, <3>4
      <4>2. (P \o E)[k] = E[k - L]
        BY <1>5, <3>2, <4>1
      <4> QED
        BY <1>5, <3>1, <4>1, <4>2
    <3>5. k <= L \/ k > L
      BY <1>3, <1>12
    <3> QED
      BY <3>3, <3>4, <3>5
  <2>3. ASSUME NEW k \in 1 .. L + n
        PROVE  RxBuf(q, recv_head'[q] - (L + n) + k - 1) = RxBuf(q, h - L + k - 1)
    <3> DEFINE y == -(L + n) + k - 1
               v == (h + n) % N
    <3> HIDE DEF L, h
    <3>1. h + n \in Int /\ y \in Int /\ h + n + y = h - L + k - 1 /\ v \in Int
      BY <1>3, <1>12, ModInRange
    <3>2. RxBuf(q, v + y) = RxBuf(q, h + n + y)
      <4> HIDE DEF y
      <4> QED
        BY <3>1, RxBufFrom, Zenon
    <3>3. v - (L + n) + k - 1 = v + y
      <4> HIDE DEF v
      <4> QED
        BY <1>3, <1>12, <3>1
    <3> QED
      BY <1>10, <3>1, <3>2, <3>3
  <2>4. Anchored(q)'
    <3> DEFINE r == Len(rq[q])
               c == Len(recv_cq[q])
               w == wait_for_disp[q]
               y == -(r + n) - c - w
               v == (h + n) % N
    <3>1. ring_head[q] = (h - r - c - w) % N
      BY DEF RingInv, OnRing, Anchored
    <3>2. r \in Nat /\ c \in Nat /\ w \in Nat
      <4>1. r \in Nat
        BY PathTypes, Zenon
      <4>2. c \in Nat /\ w \in Nat
        BY InsideTypes, Zenon
      <4> QED
        BY <4>1, <4>2
    <3>3. Len(rq'[q]) = r + n
      <4> DEFINE k == rq[q]
      <4>1. k \in Seq(Buffers) /\ rq'[q] = k \o E
        BY <1>10, PathTypes
      <4> HIDE DEF k
      <4>2. Len(k \o E) = Len(k) + n
        BY <1>5, <4>1, ConcatProperties
      <4> QED
        BY <4>1, <4>2 DEF k
    <3>4. Anchored(q)' <=> ring_head[q] = (v - (r + n) - c - w) % N
      BY <1>2, <1>10, <3>3 DEF Anchored
    <3> HIDE DEF r, c, w, h
    <3>5. h + n \in Int /\ y \in Int /\ h + n + y = h - r - c - w /\ v \in Int
      BY <1>3, <3>2, ModInRange
    <3>6. (v + y) % N = (h + n + y) % N
      <4> HIDE DEF y
      <4> QED
        BY <1>3, <3>5, ModAdd, Zenon
    <3>7. v - (r + n) - c - w = v + y
      <4> HIDE DEF v
      <4> QED
        BY <1>3, <3>2, <3>5
    <3> QED
      BY <3>1, <3>4, <3>5, <3>6, <3>7
  <2> QED
    BY <1>13, <2>1, <2>2, <2>3, <2>4 DEF OnRing
<1>15. ASSUME NEW r \in QPs \ {q}
       PROVE  Still(r)
  <2>1. Anchored(r) /\ r \in QPs /\ Out(r) \in QPs
    BY OutOut DEF RingInv, OnRing
  <2> QED
    BY <1>2, <1>8, <1>10, <2>1, UntouchedStill
<1>16. state' = Mark(Elems(E), POSTED)
       /\ content' = [b \in Buffers |-> IF b \in Elems(E) THEN "empty" ELSE content[b]]
  BY <1>1, <1>6
<1> QED
  BY <1>1, <1>5, <1>7, <1>8, <1>9, <1>11, <1>14, <1>15, <1>16 DEF E

=============================================================================
