--------------------------- MODULE SocRelayProofs ---------------------------
(***************************************************************************)
(* Who owns which buffer, and what that is good for: with the rings in     *)
(* order (SocRingProofs) state_ tells free, posted and application-owned   *)
(* buffers apart, no SEND reads a buffer that was not received, and the    *)
(* data path implements Relay.                                             *)
(***************************************************************************)
EXTENDS SocRingProofs

\* No element twice.
Distinct(s) == \A i, j \in 1 .. Len(s) : s[i] = s[j] => i = j

\* Two queues in a row without a repetition have nothing in common.
LEMMA DistinctParts ==
  ASSUME NEW S, NEW s \in Seq(S), NEW t \in Seq(S), Distinct(s \o t)
  PROVE  /\ Distinct(s) /\ Distinct(t)
         /\ Elems(s) \cap Elems(t) = {}
<1>1. /\ Len(s) \in Nat /\ Len(t) \in Nat /\ Len(s \o t) = Len(s) + Len(t)
      /\ \A i \in 1 .. Len(s) : (s \o t)[i] = s[i]
      /\ \A i \in 1 .. Len(t) : (s \o t)[Len(s) + i] = t[i]
  <2> DEFINE d == s \o t
  <2>1. /\ Len(s) \in Nat /\ Len(t) \in Nat /\ Len(d) = Len(s) + Len(t)
        /\ \A i \in 1 .. Len(s) + Len(t) : d[i] = IF i <= Len(s) THEN s[i] ELSE t[i - Len(s)]
    BY ConcatProperties, LenProperties
  <2> HIDE DEF d
  <2>2. \A i \in 1 .. Len(s) : d[i] = s[i]
    BY <2>1
  <2>3. ASSUME NEW i \in 1 .. Len(t)
        PROVE  d[Len(s) + i] = t[i]
    <3>1. Len(s) + i \in 1 .. Len(s) + Len(t) /\ ~(Len(s) + i <= Len(s))
          /\ (Len(s) + i) - Len(s) = i
      BY <2>1
    <3> QED
      BY <2>1, <3>1
  <2> QED
    BY <2>1, <2>2, <2>3 DEF d
<1> DEFINE d == s \o t
           m == Len(s)
           n == Len(t)
<1>2. /\ m \in Nat /\ n \in Nat /\ Len(d) = m + n
      /\ \A i \in 1 .. m : d[i] = s[i]
      /\ \A i \in 1 .. n : d[m + i] = t[i]
      /\ \A i, j \in 1 .. m + n : d[i] = d[j] => i = j
  BY <1>1 DEF Distinct
<1> HIDE DEF d
<1>3. ASSUME NEW i \in 1 .. m, NEW j \in 1 .. m, s[i] = s[j]
      PROVE  i = j
  <2> HIDE DEF m, n
  <2> QED
    BY <1>2, <1>3
<1>4. ASSUME NEW i \in 1 .. n, NEW j \in 1 .. n, t[i] = t[j]
      PROVE  i = j
  <2> HIDE DEF m, n
  <2>1. m + i \in 1 .. m + n /\ m + j \in 1 .. m + n /\ d[m + i] = d[m + j]
    BY <1>2, <1>4
  <2>2. m + i = m + j
    BY <1>2, <2>1, Zenon
  <2> QED
    BY <1>2, <2>2
<1>5. ASSUME NEW i \in 1 .. m, NEW j \in 1 .. n, s[i] = t[j]
      PROVE  FALSE
  <2> HIDE DEF m, n
  <2>1. i \in 1 .. m + n /\ m + j \in 1 .. m + n /\ d[i] = d[m + j] /\ i # m + j
    BY <1>2, <1>5
  <2> QED
    BY <1>2, <2>1, Zenon
<1> QED
  BY <1>3, <1>4, <1>5 DEF Distinct, Elems

\* What is left of a queue without a repetition after its head is removed.
LEMMA DistinctDrop ==
  ASSUME NEW S, NEW s \in Seq(S), NEW n \in 0 .. Len(s), Distinct(s)
  PROVE  /\ Elems(Drop(s, n)) = Elems(s) \ Elems(SubSeq(s, 1, n))
         /\ Elems(SubSeq(s, 1, n)) \subseteq Elems(s)
<1> DEFINE p == SubSeq(s, 1, n)
           d == Drop(s, n)
<1>1. p \in Seq(S) /\ d \in Seq(S) /\ s = p \o d
  BY PrefixAndRest, SplitAt
<1> HIDE DEF p, d
<1>2. Elems(s) = Elems(p) \cup Elems(d)
  BY <1>1, ElemsConcat, ZenonT(60)
<1>3. Elems(p) \cap Elems(d) = {}
  BY <1>1, DistinctParts, Zenon
<1>4. Elems(d) = Elems(s) \ Elems(p) /\ Elems(p) \subseteq Elems(s)
  BY <1>2, <1>3
<1> QED
  BY <1>4 DEF p, d

\* The path of a ring has no buffer twice, and only buffers of that ring.
LEMMA PathSets ==
  ASSUME TypeOK, NEW q \in QPs, OnRing(q)
  PROVE  /\ Distinct(Path(q)) /\ Path(q) \in Seq(Buffers)
         /\ Path(q) = (Unreaped(Out(q)) \o Inside(q)) \o rq[q]
         /\ Unreaped(Out(q)) \in Seq(Buffers) /\ Inside(q) \in Seq(Buffers)
         /\ rq[q] \in Seq(Buffers)
         /\ Elems(Path(q)) = Elems(Unreaped(Out(q))) \cup Elems(Inside(q)) \cup Elems(rq[q])
         /\ Elems(Unreaped(Out(q))) \cap Elems(Inside(q)) = {}
         /\ Elems(Unreaped(Out(q))) \cap Elems(rq[q]) = {}
         /\ Elems(Inside(q)) \cap Elems(rq[q]) = {}
         /\ Distinct(Inside(q))
         /\ \A b \in Elems(Path(q)) : b[1] = q /\ b \in Buffers
<1> DEFINE u == Unreaped(Out(q))
           i == Inside(q)
           r == rq[q]
           p == Path(q)
<1>1. /\ u \in Seq(Buffers) /\ i \in Seq(Buffers) /\ r \in Seq(Buffers)
      /\ p \in Seq(Buffers) /\ p = (u \o i) \o r
  BY PathTypes, InsideTypes DEF Path
<1>2. Distinct(p)
  BY PathDistinct DEF Distinct
<1>3. \A b \in Elems(p) : b[1] = q
  BY PathOwn DEF Elems
<1>4. \A b \in Elems(p) : b \in Buffers
  BY <1>1, ElementOfSeq DEF Elems
<1> HIDE DEF u, i, r, p
<1>5. PICK ui \in Seq(Buffers) : ui = u \o i
  BY <1>1, ConcatProperties, Zenon
<1>6. Distinct(ui) /\ Elems(ui) \cap Elems(r) = {} /\ Elems(p) = Elems(ui) \cup Elems(r)
  <2>1. p = ui \o r /\ Distinct(ui \o r)
    BY <1>1, <1>2, <1>5
  <2>2. Distinct(ui) /\ Elems(ui) \cap Elems(r) = {}
    BY <1>1, <2>1, DistinctParts, Zenon
  <2>3. Elems(ui \o r) = Elems(ui) \cup Elems(r)
    BY <1>1, BufferElems
  <2> QED
    BY <2>1, <2>2, <2>3
<1>7. Distinct(i) /\ Elems(u) \cap Elems(i) = {} /\ Elems(ui) = Elems(u) \cup Elems(i)
  <2>1. Distinct(u \o i)
    BY <1>5, <1>6
  <2>2. Distinct(i) /\ Elems(u) \cap Elems(i) = {}
    BY <1>1, <2>1, DistinctParts, Zenon
  <2>3. Elems(u \o i) = Elems(u) \cup Elems(i)
    BY <1>1, BufferElems
  <2> QED
    BY <1>5, <2>2, <2>3
<1>8. /\ Elems(p) = Elems(u) \cup Elems(i) \cup Elems(r)
      /\ Elems(u) \cap Elems(i) = {} /\ Elems(u) \cap Elems(r) = {} /\ Elems(i) \cap Elems(r) = {}
  BY <1>6, <1>7
<1> QED
  BY <1>1, <1>2, <1>3, <1>4, <1>7, <1>8 DEF u, i, r, p

\* What lies inside lies in one of three places.
LEMMA InsideSets ==
  ASSUME TypeOK, NEW q \in QPs
  PROVE  Elems(Inside(q)) = Elems(Behind(q)) \cup Elems(Waiting(q)) \cup Elems(recv_cq[q])
<1> DEFINE b == Behind(q)
           w == Waiting(q)
           c == recv_cq[q]
<1>1. b \in Seq(Buffers) /\ w \in Seq(Buffers) /\ c \in Seq(Buffers)
      /\ Inside(q) = (b \o w) \o c
  BY InsideTypes
<1> HIDE DEF b, w, c
<1>2. PICK bw \in Seq(Buffers) : bw = b \o w
  BY <1>1, ConcatProperties, Zenon
<1>3. Elems(Inside(q)) = Elems(bw) \cup Elems(c) /\ Elems(bw) = Elems(b) \cup Elems(w)
  BY <1>1, <1>2, BufferElems
<1> QED
  BY <1>3 DEF b, w, c

----------------------------------------------------------------------------
(* Ownership. The buffers owned by the application are those behind the    *)
(* dispatch to the worker.                                                 *)

OwnershipForm ==
  \A b \in Buffers :
    /\ (state[b] = FREE) <=> (b \notin Elems(Path(b[1])))
    /\ (state[b] = APP_OWNED) <=> (b \in Elems(Behind("prior")))

\* The order of three queues does not matter for what they hold.
LEMMA ElemsThree ==
  ASSUME NEW a \in Seq(Buffers), NEW b \in Seq(Buffers), NEW c \in Seq(Buffers)
  PROVE  Elems((a \o b) \o c) = Elems(c \o (b \o a))
<1>1. PICK ab \in Seq(Buffers) : ab = a \o b
  BY ConcatProperties, Zenon
<1>2. PICK ba \in Seq(Buffers) : ba = b \o a
  BY ConcatProperties, Zenon
<1>3. Elems(ab) = Elems(a) \cup Elems(b) /\ Elems(ba) = Elems(b) \cup Elems(a)
  BY <1>1, <1>2, BufferElems
<1>4. Elems(ab \o c) = Elems(ab) \cup Elems(c) /\ Elems(c \o ba) = Elems(c) \cup Elems(ba)
  BY BufferElems
<1>5. Elems(ab \o c) = Elems(c \o ba)
  BY <1>3, <1>4
<1> QED
  BY <1>1, <1>2, <1>5

\* Ownership, stated of the places a buffer can be in.
LEMMA OwnershipFormed == TypeOK => (Ownership <=> OwnershipForm)
<1> SUFFICES ASSUME TypeOK
             PROVE  Ownership <=> OwnershipForm
  OBVIOUS
<1>1. /\ worker_rx \in Seq(Buffers) /\ worker_tx \in Seq(Buffers)
      /\ tx_queue["next"] \in Seq(Buffers)
  BY DEF TypeOK, QPs
<1>2. Behind("prior") = tx_queue["next"] \o (worker_tx \o worker_rx)
  BY DEF Behind, Out
<1>3. Elems((worker_rx \o worker_tx) \o tx_queue["next"]) = Elems(Behind("prior"))
  <2>1. Elems((worker_rx \o worker_tx) \o tx_queue["next"]) =
          Elems(tx_queue["next"] \o (worker_tx \o worker_rx))
    BY <1>1, ElemsThree, ZenonT(40)
  <2> QED
    BY <1>2, <2>1
<1> QED
  BY <1>3 DEF Ownership, OwnershipForm

\* The same in the next state.
LEMMA OwnershipFormedNext == TypeOK' => (Ownership' <=> OwnershipForm')
  BY OwnershipFormed, PTL

\* A step that moves no buffer from one owner to another.
LEMMA OwnershipKept ==
  ASSUME OwnershipForm, state' = state, \A q \in QPs : Path(q)' = Path(q),
         Elems(Behind("prior"))' = Elems(Behind("prior"))
  PROVE  OwnershipForm'
<1>1. ASSUME NEW b \in Buffers
      PROVE  b[1] \in QPs
  BY <1>1 DEF Buffers
<1>2. ASSUME NEW b \in Buffers
      PROVE  Elems(Path(b[1]))' = Elems(Path(b[1]))
  BY <1>1 DEF Elems
<1> QED
  BY <1>2 DEF OwnershipForm

\* Where the ring is as it was, so is the path.
LEMMA StillPath ==
  ASSUME NEW q \in QPs, Still(q)
  PROVE  Path(q)' = Path(q)
  BY DEF Still, Path

\* The entries handed to the worker become the application's.
LEMMA OwnershipDispatch ==
  ASSUME TypeOK, TypeOK', WorkerInv, RingInv, OwnershipForm, Dispatch
  PROVE  OwnershipForm'
<1> DEFINE W == Waiting("prior")
           B == Behind("prior")
<1>1. /\ \A q \in QPs : Still(q)
      /\ worker_rx' = worker_rx \o W
      /\ state' = Dispatched(Elems(W), Elems(W))
      /\ "prior" \in QPs /\ OnRing("prior")
  BY DispatchMoves DEF QPs, RingInv
<1>2. \A q \in QPs : Path(q)' = Path(q)
  BY <1>1, StillPath
<1>3. UNCHANGED <<tx_queue, worker_tx>>
  BY DEF Dispatch, tx_vars
<1>4. /\ B = tx_queue["next"] \o (worker_tx \o worker_rx)
      /\ B' = tx_queue["next"] \o (worker_tx \o (worker_rx \o W))
  BY <1>1, <1>3 DEF Behind, Out
<1>5. /\ W \in Seq(Buffers) /\ B \in Seq(Buffers) /\ worker_rx \in Seq(Buffers)
      /\ worker_tx \in Seq(Buffers) /\ tx_queue["next"] \in Seq(Buffers)
  BY InsideTypes, <1>1 DEF TypeOK, QPs
<1>6. Elems(B') = Elems(B) \cup Elems(W)
  <2> DEFINE t == tx_queue["next"]
  <2> HIDE DEF B, W, t
  <2>1. PICK rw \in Seq(Buffers) : rw = worker_rx \o W
    BY <1>5, ConcatProperties, Zenon
  <2>2. PICK x \in Seq(Buffers) : x = worker_tx \o worker_rx
    BY <1>5, ConcatProperties, Zenon
  <2>3. PICK y \in Seq(Buffers) : y = worker_tx \o rw
    BY <1>5, ConcatProperties, Zenon
  <2>4. /\ Elems(rw) = Elems(worker_rx) \cup Elems(W)
        /\ Elems(x) = Elems(worker_tx) \cup Elems(worker_rx)
        /\ Elems(y) = Elems(worker_tx) \cup Elems(rw)
    <3>1. Elems(worker_rx \o W) = Elems(worker_rx) \cup Elems(W)
      BY <1>5, BufferElems
    <3>2. Elems(worker_tx \o worker_rx) = Elems(worker_tx) \cup Elems(worker_rx)
      BY <1>5, BufferElems
    <3>3. Elems(worker_tx \o rw) = Elems(worker_tx) \cup Elems(rw)
      BY <1>5, BufferElems
    <3> QED
      BY <2>1, <2>2, <2>3, <3>1, <3>2, <3>3
  <2>5. t \in Seq(Buffers)
    BY <1>5 DEF t
  <2>6. Elems(t \o x) = Elems(t) \cup Elems(x) /\ Elems(t \o y) = Elems(t) \cup Elems(y)
    BY <2>5, BufferElems
  <2>7. B = t \o x /\ B' = t \o y
    BY <1>4, <2>1, <2>2, <2>3 DEF t
  <2> QED
    BY <2>4, <2>6, <2>7
<1>7. Elems(W) \subseteq Elems(Path("prior"))
  <2>1. Elems(Path("prior")) = Elems(Unreaped(Out("prior"))) \cup Elems(Inside("prior"))
                                 \cup Elems(rq["prior"])
    BY <1>1, PathSets, ZenonT(40)
  <2>2. Elems(Inside("prior")) = Elems(B) \cup Elems(W) \cup Elems(recv_cq["prior"])
    BY <1>1, InsideSets, ZenonT(40)
  <2> HIDE DEF W, B
  <2> QED
    BY <2>1, <2>2
<1>8. \A b \in Buffers : Elems(Path(b[1]))' = Elems(Path(b[1]))
  BY <1>2 DEF Elems, Buffers
<1>9. \A b \in Elems(W) : b[1] = "prior" /\ b \in Buffers
  BY <1>1, <1>7, PathSets
<1>10. Elems(Behind("prior"))' = Elems(B) \cup Elems(W)
  BY <1>6 DEF Elems
<1> HIDE DEF W, B
<1>11. ASSUME NEW b \in Buffers
       PROVE  /\ (state'[b] = FREE) <=> (b \notin Elems(Path(b[1])))
              /\ (state'[b] = APP_OWNED) <=> (b \in Elems(B) \cup Elems(W))
  <2>1. state'[b] = IF b \in Elems(W) THEN APP_OWNED ELSE state[b]
    BY <1>1 DEF Dispatched
  <2>2. /\ (state[b] = FREE) <=> (b \notin Elems(Path(b[1])))
        /\ (state[b] = APP_OWNED) <=> (b \in Elems(B))
    BY DEF OwnershipForm, B
  <2>3. b \in Elems(W) => b \in Elems(Path(b[1]))
    BY <1>7, <1>9
  <2>4. APP_OWNED # FREE
    BY DEF APP_OWNED, FREE
  <2> QED
    BY <2>1, <2>2, <2>3, <2>4
<1> QED
  BY <1>8, <1>10, <1>11 DEF OwnershipForm

\* Reposted entries were free, and are on the path again.
LEMMA OwnershipPost ==
  ASSUME TypeOK, RingInv, Ownership, OwnershipForm, NEW q \in QPs, NEW from, NEW to,
         PostRecvs(q, from, to), ~PostsPartly("recv")
  PROVE  OwnershipForm'
<1>1. PICK n \in 0 .. NumRxRingEntries :
        /\ Path(q)' = Path(q) \o Entries(q, n)
        /\ Entries(q, n) \in Seq(Buffers) /\ Len(Entries(q, n)) = n
        /\ \A b \in Elems(Entries(q, n)) : state[b] = FREE
        /\ state' = Mark(Elems(Entries(q, n)), POSTED)
        /\ \A r \in QPs \ {q} : Still(r)
        /\ \A r \in QPs : Behind(r)' = Behind(r)
  BY PostPath
<1> DEFINE E == Entries(q, n)
           P == Path(q)
<1>2. P \in Seq(Buffers) /\ E \in Seq(Buffers) /\ P' = P \o E
  BY <1>1, PathTypes
<1>3. Elems(P \o E) = Elems(P) \cup Elems(E)
  <2> HIDE DEF P, E
  <2> QED
    BY <1>2, BufferElems
<1>4. Elems(Path(q))' = Elems(P) \cup Elems(E)
  <2>1. Elems(Path(q))' = Elems(P')
    BY DEF Elems
  <2> QED
    BY <1>2, <1>3, <2>1
<1>5. \A b \in Elems(E) : b[1] = q
  BY <1>1 DEF Elems, Entries, RxBuf
<1>6. \A r \in QPs \ {q} : Elems(Path(r))' = Elems(Path(r))
  BY <1>1, StillPath DEF Elems
<1>7. Elems(Behind("prior"))' = Elems(Behind("prior"))
  BY <1>1 DEF Elems, QPs
<1>8. ASSUME NEW b \in Buffers
      PROVE  /\ (state'[b] = FREE) <=> (b \notin Elems(Path(b[1]))')
             /\ (state'[b] = APP_OWNED) <=> (b \in Elems(Behind("prior")))
  <2>1. /\ (state[b] = FREE) <=> (b \notin Elems(Path(b[1])))
        /\ (state[b] = APP_OWNED) <=> (b \in Elems(Behind("prior")))
    BY DEF OwnershipForm
  <2>2. state'[b] = IF b \in Elems(E) THEN POSTED ELSE state[b]
    BY <1>1 DEF Mark
  <2>3. b[1] \in QPs
    BY DEF Buffers
  <2>4. POSTED # FREE /\ POSTED # APP_OWNED /\ FREE # APP_OWNED
    BY DEF POSTED, FREE, APP_OWNED
  <2>5. b \in Elems(E) => state[b] = FREE
    BY <1>1
  <2> HIDE DEF E, P
  <2>6. (b \in Elems(Path(b[1]))') <=> (b \in Elems(Path(b[1])) \/ b \in Elems(E))
    <3>1. CASE b[1] = q
      <4>1. Elems(Path(b[1]))' = Elems(Path(q))' /\ Elems(Path(b[1])) = Elems(P)
        BY <3>1 DEF P
      <4> QED
        BY <1>4, <4>1
    <3>2. CASE b[1] # q
      BY <1>5, <1>6, <2>3, <3>2
    <3> QED
      BY <3>1, <3>2
  <2> QED
    BY <2>1, <2>2, <2>4, <2>5, <2>6
<1> QED
  BY <1>7, <1>8 DEF OwnershipForm

\* A burst frees the buffers at the head of the path and posts buffers that
\* were the application's or waiting.
LEMMA OwnershipBurst ==
  ASSUME TypeOK, RingInv, SendAgreement, OwnershipForm, NEW q \in QPs, NEW at,
         TxBurst(q, at), ~PostsPartly("send")
  PROVE  OwnershipForm'
<1> DEFINE r == Out(q)
           P == Path(r)
           U == Unreaped(q)
           n == Reaped(q)
           F == SubSeq(P, 1, n)
           M == Mounted(q)
           I == Inside(r)
           k == NbTx(q)
<1>1. r \in QPs /\ Out(r) = q /\ r # q /\ OnRing(r) /\ OnRing(q) /\ Behind(r) \in Seq(Buffers)
      /\ \A s \in QPs : s = q \/ s = r
  BY OutOut, InsideTypes DEF RingInv
<1>2. /\ k \in 0 .. Len(Behind(r)) /\ Behind(r)' = Drop(Behind(r), k)
      /\ k \in 0 .. Len(I) /\ M = SubSeq(I, 1, k)
      /\ n \in 0 .. Len(U) /\ P' = Drop(P, n) /\ Still(q)
  BY BurstPath
<1>3. /\ Distinct(P) /\ P \in Seq(Buffers) /\ P = (U \o I) \o rq[r]
      /\ U \in Seq(Buffers) /\ I \in Seq(Buffers) /\ rq[r] \in Seq(Buffers)
      /\ Elems(P) = Elems(U) \cup Elems(I) \cup Elems(rq[r])
      /\ Elems(U) \cap Elems(I) = {}
      /\ Distinct(I)
      /\ \A b \in Elems(P) : b[1] = r /\ b \in Buffers
  BY <1>1, PathSets
<1>4. /\ Len(U) \in Nat /\ n \in 0 .. Len(P)
      /\ \A i \in 1 .. Len(U) : P[i] = U[i]
  <2> DEFINE u == Len(U)
             l == Len(P)
  <2>1. u \in Nat /\ l \in Nat /\ u <= l /\ n \in 0 .. u
    <3>1. u \in Nat /\ Len(I) \in Nat /\ Len(rq[r]) \in Nat /\ l = u + Len(I) + Len(rq[r])
      BY <1>1, PathTypes, InsideTypes
    <3>2. n \in 0 .. u
      BY <1>2
    <3> DEFINE x == Len(I)
               y == Len(rq[r])
    <3>3. u \in Nat /\ x \in Nat /\ y \in Nat /\ l = u + x + y
      BY <3>1
    <3> HIDE DEF u, l, x, y
    <3> QED
      BY <3>2, <3>3
  <2>2. \A i \in 1 .. Len(U) : P[i] = U[i]
    <3>1. \A i \in 1 .. Len(Unreaped(Out(r))) : Path(r)[i] = Unreaped(Out(r))[i]
      BY <1>1, PathTypes, Zenon
    <3> QED
      BY <1>1, <3>1
  <2> HIDE DEF u, l
  <2>3. n \in 0 .. l
    BY <2>1
  <2> QED
    BY <2>1, <2>2, <2>3 DEF u, l
<1>5. Elems(P)' = Elems(P) \ Elems(F) /\ Elems(F) \subseteq Elems(P)
  <2>1. Elems(Drop(P, n)) = Elems(P) \ Elems(F) /\ Elems(F) \subseteq Elems(P)
    <3> HIDE DEF P
    <3> QED
      BY <1>3, <1>4, DistinctDrop, ZenonT(60)
  <2>2. Elems(P)' = Elems(P')
    BY DEF Elems
  <2> QED
    BY <1>2, <2>1, <2>2
<1>6. Elems(F) = {U[i] : i \in 1 .. n}
  <2> HIDE DEF U, P, n
  <2>1. n \in Nat /\ n <= Len(P) /\ \A i \in 1 .. n : P[i] = U[i]
    BY <1>2, <1>4
  <2>2. Len(F) = n /\ \A i \in 1 .. n : F[i] = U[i]
    <3>1. P \in Seq(Buffers) /\ Len(P) \in Nat
      BY <1>3, LenProperties
    <3>2. SubSeq(P, 1, n) = [i \in 1 .. n |-> P[i]]
      BY <2>1, <3>1
    <3>3. F = [i \in 1 .. n |-> P[i]]
      BY <3>2
    <3>4. F \in Seq(Buffers) /\ Len(F) = n
      <4>1. P \in Seq(Buffers) /\ n \in 0 .. Len(P)
        BY <1>3, <1>4
      <4>2. SubSeq(P, 1, n) \in Seq(Buffers)
        BY <4>1, PrefixAndRest, Zenon
      <4>3. Len(SubSeq(P, 1, n)) = n
        BY <4>1, PrefixAndRest
      <4> QED
        BY <4>2, <4>3
    <3> QED
      BY <2>1, <3>3, <3>4
  <2> HIDE DEF F
  <2> QED
    BY <2>2 DEF Elems
<1>7. Completed(q, n) = Elems(F)
  <2>1. \A i \in 1 .. Len(U) : U[i] = sw_ring[q][(send_head[q] + i - 1) % NumTxRingEntries]
    BY SendAgreementParts DEF SendAgreementOf
  <2>2. n \in Nat /\ n <= Len(U) /\ Len(U) \in Nat /\ send_head[q] \in Int
    BY <1>2, <1>4, RingAssumption DEF TypeOK
  <2> DEFINE w == sw_ring[q]
             h == send_head[q]
  <2>3. Completed(q, n) = {w[(h + i) % NumTxRingEntries] : i \in 0 .. n - 1}
    BY DEF Completed
  <2> HIDE DEF U, n, F, w, h
  <2>4. ASSUME NEW i \in 0 .. n - 1
        PROVE  i + 1 \in 1 .. n /\ U[i + 1] = w[(h + i) % NumTxRingEntries]
    <3>1. i + 1 \in 1 .. Len(U) /\ i + 1 \in 1 .. n /\ h + (i + 1) - 1 = h + i
      BY <2>2 DEF h
    <3> QED
      BY <2>1, <3>1 DEF w, h
  <2>5. ASSUME NEW i \in 1 .. n
        PROVE  i - 1 \in 0 .. n - 1 /\ U[i] = w[(h + (i - 1)) % NumTxRingEntries]
    <3>1. i \in 1 .. Len(U) /\ i - 1 \in 0 .. n - 1 /\ h + i - 1 = h + (i - 1)
      BY <2>2 DEF h
    <3> QED
      BY <2>1, <3>1 DEF w, h
  <2>6. {w[(h + i) % NumTxRingEntries] : i \in 0 .. n - 1} = {U[i] : i \in 1 .. n}
    <3>1. ASSUME NEW i \in 0 .. n - 1
          PROVE  w[(h + i) % NumTxRingEntries] \in {U[j] : j \in 1 .. n}
      BY <2>4
    <3>2. ASSUME NEW i \in 1 .. n
          PROVE  U[i] \in {w[(h + j) % NumTxRingEntries] : j \in 0 .. n - 1}
      BY <2>5
    <3> QED
      BY <3>1, <3>2, Zenon
  <2> QED
    BY <1>6, <2>3, <2>6
<1>8. Elems(M) \subseteq Elems(I) /\ Elems(F) \subseteq Elems(U)
  <2>1. Elems(M) \subseteq Elems(I)
    <3> HIDE DEF I, k
    <3> QED
      BY <1>2, <1>3, DistinctDrop, Zenon
  <2>2. Elems(F) \subseteq Elems(U)
    <3>1. n \in Nat /\ n <= Len(U) /\ Len(U) \in Nat
      BY <1>2, <1>4
    <3> HIDE DEF U, n, F
    <3> QED
      BY <1>6, <3>1 DEF Elems
  <2> QED
    BY <2>1, <2>2
<1>9. state' = [b \in Buffers |-> IF b \in Elems(M) THEN POSTED
                                  ELSE IF b \in Elems(F) THEN FREE ELSE state[b]]
  <2>1. state' = [b \in Buffers |-> IF b \in Elems(M) THEN POSTED
                                  ELSE IF b \in Completed(q, n) THEN FREE ELSE state[b]]
    BY DEF TxBurst, Mounted, NbTx
  <2> QED
    BY <1>7, <2>1
<1>10. Elems(Path(q))' = Elems(Path(q))
  BY <1>2, StillPath DEF Elems
<1>11. Elems(Behind("prior"))' = Elems(Behind("prior")) \ Elems(M)
  <2>1. CASE r = "prior"
    <3> DEFINE B == Behind(r)
               C == Waiting(r) \o recv_cq[r]
    <3>1. B \in Seq(Buffers) /\ C \in Seq(Buffers) /\ I = B \o C
      <4>1. /\ B \in Seq(Buffers) /\ Waiting(r) \in Seq(Buffers) /\ recv_cq[r] \in Seq(Buffers)
            /\ I = (B \o Waiting(r)) \o recv_cq[r]
        BY <1>1, InsideTypes
      <4>2. C \in Seq(Buffers)
        BY <4>1, ConcatProperties, Zenon
      <4>3. I = B \o C
        <5> HIDE DEF B, I
        <5> QED
          BY <4>1, RegroupThree
      <4> QED
        BY <4>1, <4>2, <4>3
    <3>2. Distinct(B)
      <4> HIDE DEF B, C, I
      <4>1. Distinct(B \o C)
        BY <1>3, <3>1
      <4> QED
        BY <3>1, <4>1, DistinctParts, Zenon
    <3>3. M = SubSeq(B, 1, k)
      <4>1. M = SubSeq(tx_queue[q], 1, k) /\ k \in Nat /\ k <= Len(tx_queue[q])
        BY BurstSizes DEF Mounted
      <4>2. /\ Len(I) \in Nat /\ Len(B) \in Nat /\ Len(B) <= Len(I)
            /\ \A i \in 1 .. Len(B) : I[i] = B[i]
        <5> DEFINE x == Len(I)
                   y == Len(B)
        <5>1. /\ x \in Nat /\ y \in Nat /\ x = y + wait_for_disp[r] + Len(recv_cq[r])
              /\ wait_for_disp[r] \in Nat /\ Len(recv_cq[r]) \in Nat
              /\ \A i \in 1 .. Len(B) : I[i] = B[i]
          BY <1>1, InsideTypes
        <5>2. y <= x
          <6> DEFINE w == wait_for_disp[r]
                     c == Len(recv_cq[r])
          <6>1. x \in Nat /\ y \in Nat /\ x = y + w + c /\ w \in Nat /\ c \in Nat
            BY <5>1
          <6> HIDE DEF x, y, w, c
          <6> QED
            BY <6>1
        <5> QED
          BY <5>1, <5>2
      <4> HIDE DEF B, I, k
      <4>3. k \in Nat /\ k <= Len(B) /\ k <= Len(I) /\ \A i \in 1 .. k : I[i] = B[i]
        BY <1>1, <1>2, <4>1, <4>2 DEF B
      <4>4. SubSeq(I, 1, k) = [i \in 1 .. k |-> I[i]] /\ SubSeq(B, 1, k) = [i \in 1 .. k |-> B[i]]
        BY <1>3, <3>1, <4>2, <4>3
      <4> QED
        BY <1>2, <4>3, <4>4
    <3>4. Elems(Drop(B, k)) = Elems(B) \ Elems(M)
      <4> HIDE DEF B, k, M
      <4>1. k \in 0 .. Len(B)
        BY <1>2 DEF B
      <4> QED
        BY <3>1, <3>2, <3>3, <4>1, DistinctDrop, Zenon
    <3>5. Elems(Behind(r))' = Elems(Behind(r)')
      BY DEF Elems
    <3> QED
      BY <1>2, <2>1, <3>4, <3>5 DEF Elems
  <2>2. CASE r # "prior"
    <3>1. q = "prior" /\ r = "next"
      BY <1>1, <2>2 DEF Out, QPs
    <3>2. Behind("prior")' = Behind("prior")
      <4>1. tx_queue'["next"] = tx_queue["next"] /\ UNCHANGED <<worker_rx, worker_tx>>
        BY <3>1 DEF TxBurst, TypeOK, QPs, wk_vars
      <4> QED
        BY <4>1 DEF Behind, Out
    <3>3. Elems(Behind("prior")) \cap Elems(M) = {}
      <4>1. \A b \in Elems(Behind("prior")) : b[1] = "prior"
        BY <1>1, <3>1, PathSets, InsideSets
      <4>2. \A b \in Elems(M) : b[1] = "next"
        BY <1>3, <1>8, <3>1
      <4> QED
        BY <4>1, <4>2
    <3> QED
      BY <3>2, <3>3 DEF Elems
  <2> QED
    BY <2>1, <2>2
<1>12. Elems(Behind("prior")) \cap Elems(F) = {}
  <2>1. Elems(Behind("prior")) \subseteq Elems(Inside("prior"))
    BY InsideSets DEF QPs
  <2>2. CASE r = "prior"
    BY <1>3, <1>8, <2>1, <2>2
  <2>3. CASE r # "prior"
    <3>1. q = "prior"
      BY <1>1, <2>3 DEF Out, QPs
    <3>2. \A b \in Elems(Behind("prior")) : b[1] = "prior"
      BY <1>1, <2>1, <3>1, PathSets
    <3>3. \A b \in Elems(F) : b[1] = r
      BY <1>3, <1>5
    <3> QED
      BY <2>3, <3>2, <3>3
  <2> QED
    BY <2>2, <2>3
<1> HIDE DEF P, U, n, F, M, I, k
<1>13. ASSUME NEW b \in Buffers
       PROVE  /\ (state'[b] = FREE) <=> (b \notin Elems(Path(b[1]))')
              /\ (state'[b] = APP_OWNED) <=> (b \in Elems(Behind("prior"))')
  <2>1. /\ (state[b] = FREE) <=> (b \notin Elems(Path(b[1])))
        /\ (state[b] = APP_OWNED) <=> (b \in Elems(Behind("prior")))
    BY DEF OwnershipForm
  <2>2. state'[b] = IF b \in Elems(M) THEN POSTED ELSE IF b \in Elems(F) THEN FREE ELSE state[b]
    BY <1>9
  <2>3. POSTED # FREE /\ POSTED # APP_OWNED /\ FREE # APP_OWNED
    BY DEF POSTED, FREE, APP_OWNED
  <2>4. b \in Elems(M) => b \notin Elems(F) /\ b \in Elems(P)
    BY <1>3, <1>8
  <2>5. (b \in Elems(Path(b[1]))') <=> (b \in Elems(Path(b[1])) /\ b \notin Elems(F))
    <3>1. b[1] = q \/ b[1] = r
      BY <1>1 DEF Buffers
    <3>2. CASE b[1] = q
      <4>1. b \notin Elems(F)
        BY <1>1, <1>3, <1>5, <3>2
      <4>2. (b \in Elems(Path(b[1]))') <=> (b \in Elems(Path(q))')
        BY <3>2
      <4> QED
        BY <1>10, <3>2, <4>1, <4>2
    <3>3. CASE b[1] = r
      <4>1. (b \in Elems(Path(b[1]))') <=> (b \in Elems(P)')
        BY <3>3 DEF P
      <4>2. (b \in Elems(Path(b[1]))) <=> (b \in Elems(P))
        BY <3>3 DEF P
      <4> QED
        BY <1>5, <4>1, <4>2
    <3> QED
      BY <3>1, <3>2, <3>3
  <2>6. b \in Elems(M) => b \in Elems(Path(b[1]))
    BY <1>3, <2>4 DEF P
  <2>7. (state'[b] = FREE) <=> (b \notin Elems(Path(b[1]))')
    BY <2>1, <2>2, <2>3, <2>4, <2>5, <2>6
  <2>8. (state'[b] = APP_OWNED) <=> (b \in Elems(Behind("prior"))')
    BY <1>11, <1>12, <2>1, <2>2, <2>3
  <2> QED
    BY <2>7, <2>8
<1> QED
  BY <1>13 DEF OwnershipForm

----------------------------------------------------------------------------
(* The rings stay in order, and state_ keeps telling who owns a buffer.    *)

\* No buffer changes its place on a ring or its owner.
LEMMA StillStep ==
  ASSUME RingInv, OwnershipForm, \A q \in QPs : Still(q), state' = state,
         Elems(Behind("prior"))' = Elems(Behind("prior"))
  PROVE  RingInv' /\ OwnershipForm'
<1>1. RingInv'
  BY StillOnRing DEF RingInv
<1>2. OwnershipForm'
  BY StillPath, OwnershipKept
<1> QED
  BY <1>1, <1>2

\* The step only concerns the program counter, the clock or the send CQ.
LEMMA QuietStep ==
  ASSUME RingInv, OwnershipForm, \A r \in QPs : Unreaped(r)' = Unreaped(r),
         UNCHANGED <<state, recv_head, ring_head, wait_for_disp, worker_rx, worker_tx,
                     tx_queue, rq, recv_cq>>
  PROVE  RingInv' /\ OwnershipForm'
<1>1. \A q \in QPs : Still(q)
  BY QuietStill
<1>2. Elems(Behind("prior"))' = Elems(Behind("prior"))
  BY DEF Behind, Elems
<1> QED
  BY <1>1, <1>2, StillStep

\* Polling moves completions to the waiting entries.
LEMMA OwnedPoll ==
  ASSUME TypeOK, RingInv, OwnershipForm, NEW q \in QPs, NEW from, NEW to,
         PollRecv(q, from, to)
  PROVE  RingInv' /\ OwnershipForm'
<1>1. UNCHANGED <<state, worker_rx, worker_tx, tx_queue>>
  BY DEF PollRecv, wk_vars, tx_vars
<1>2. Elems(Behind("prior"))' = Elems(Behind("prior"))
  BY <1>1 DEF Behind, Elems
<1> QED
  BY <1>1, <1>2, PollMoves, StillStep

\* Reposting keeps rings and ownership.
LEMMA OwnedPost ==
  ASSUME TypeOK, RingInv, Ownership, OwnershipForm, NEW q \in QPs, NEW from, NEW to,
         PostRecvs(q, from, to), ~PostsPartly("recv")
  PROVE  RingInv' /\ OwnershipForm'
<1>1. OwnershipForm'
  BY OwnershipPost
<1>2. OnRing(q)' /\ \A r \in QPs \ {q} : Still(r)
  BY PostPath
<1>3. ASSUME NEW r \in QPs
      PROVE  OnRing(r)'
  <2>1. CASE r = q
    BY <1>2, <2>1
  <2>2. CASE r # q
    BY <1>2, <2>2, StillOnRing DEF RingInv
  <2> QED
    BY <2>1, <2>2
<1> QED
  BY <1>1, <1>3 DEF RingInv

\* Dispatching does,
LEMMA OwnedDispatch ==
  ASSUME TypeOK, TypeOK', WorkerInv, RingInv, OwnershipForm, Dispatch
  PROVE  RingInv' /\ OwnershipForm'
<1>1. RingInv'
  BY DispatchMoves, StillOnRing DEF RingInv
<1> QED
  BY <1>1, OwnershipDispatch

\* The worker only moves messages from one of its queues to the other.
LEMMA OwnedWorker ==
  ASSUME TypeOK, WorkerInv, RingInv, OwnershipForm, Worker
  PROVE  RingInv' /\ OwnershipForm'
<1>1. /\ \A q \in QPs : Still(q)
      /\ \/ worker_tx' = worker_tx \o worker_rx /\ worker_rx' = << >>
         \/ UNCHANGED <<worker_rx, worker_tx>>
  BY WorkerMoves
<1>2. state' = state /\ tx_queue' = tx_queue
  BY DEF Worker, tx_vars
<1>3. worker_tx \in Seq(Buffers) /\ worker_rx \in Seq(Buffers)
  BY DEF TypeOK
<1>4. worker_tx' \o worker_rx' = worker_tx \o worker_rx
  BY <1>1, <1>3
<1>5. Behind("prior")' = Behind("prior")
  BY <1>2, <1>4 DEF Behind, Out
<1>6. Elems(Behind("prior"))' = Elems(Behind("prior"))
  BY <1>5 DEF Elems
<1> QED
  BY <1>1, <1>2, <1>6, StillStep

\* collecting does,
LEMMA OwnedCollect ==
  ASSUME TypeOK, TypeOK', RingInv, OwnershipForm, Collect
  PROVE  RingInv' /\ OwnershipForm'
<1>1. /\ \A q \in QPs : Still(q)
      /\ tx_queue'["next"] \o worker_tx' = tx_queue["next"] \o worker_tx
      /\ UNCHANGED <<worker_rx, state>>
  BY CollectMoves
<1>2. /\ worker_tx \in Seq(Buffers) /\ worker_rx \in Seq(Buffers)
      /\ worker_tx' \in Seq(Buffers)
      /\ tx_queue["next"] \in Seq(Buffers) /\ tx_queue'["next"] \in Seq(Buffers)
  BY DEF TypeOK, QPs
<1>3. tx_queue'["next"] \o (worker_tx' \o worker_rx') = tx_queue["next"] \o (worker_tx \o worker_rx)
  <2> DEFINE t == tx_queue["next"]
             t1 == tx_queue'["next"]
             x == worker_tx
             x1 == worker_tx'
             y == worker_rx
  <2>1. /\ t \in Seq(Buffers) /\ t1 \in Seq(Buffers) /\ x \in Seq(Buffers)
        /\ x1 \in Seq(Buffers) /\ y \in Seq(Buffers) /\ t1 \o x1 = t \o x
    BY <1>1, <1>2
  <2> HIDE DEF t, t1, x, x1, y
  <2>2. (t1 \o x1) \o y = t1 \o (x1 \o y)
    BY <2>1, RegroupThree
  <2>3. (t \o x) \o y = t \o (x \o y)
    BY <2>1, RegroupThree
  <2>4. t1 \o (x1 \o y) = t \o (x \o y)
    BY <2>1, <2>2, <2>3
  <2> QED
    BY <1>1, <2>4 DEF t, t1, x, x1, y
<1>4. Behind("prior")' = Behind("prior")
  BY <1>3 DEF Behind, Out
<1>5. Elems(Behind("prior"))' = Elems(Behind("prior"))
  BY <1>4 DEF Elems
<1> QED
  BY <1>1, <1>5, StillStep

\* handing over directly does,
LEMMA OwnedDirect ==
  ASSUME TypeOK, RingInv, OwnershipForm, DirectTxBurst
  PROVE  RingInv' /\ OwnershipForm'
<1>1. /\ \A q \in QPs : Still(q)
      /\ UNCHANGED <<worker_rx, worker_tx, state>>
      /\ tx_queue'["next"] = tx_queue["next"]
  BY DirectMoves
<1>2. Behind("prior")' = Behind("prior")
  BY <1>1 DEF Behind, Out
<1>3. Elems(Behind("prior"))' = Elems(Behind("prior"))
  BY <1>2 DEF Elems
<1> QED
  BY <1>1, <1>3, StillStep

\* and sending a burst does.
LEMMA OwnedBurst ==
  ASSUME TypeOK, RingInv, SendAgreement, OwnershipForm, NEW q \in QPs, NEW at,
         TxBurst(q, at), ~PostsPartly("send")
  PROVE  RingInv' /\ OwnershipForm'
<1>1. OwnershipForm'
  BY OwnershipBurst
<1>2. OnRing(Out(q))' /\ Still(q)
  BY BurstPath
<1>3. OnRing(q)'
  BY <1>2, StillOnRing DEF RingInv
<1>4. \A r \in QPs : r = q \/ r = Out(q)
  BY OutOut
<1>5. ASSUME NEW r \in QPs
      PROVE  OnRing(r)'
  BY <1>2, <1>3, <1>4
<1> QED
  BY <1>1, <1>5 DEF RingInv

\* A packet moves from the posted RECVs to the receive CQ.
LEMMA OwnedRecv ==
  ASSUME TypeOK, RingInv, OwnershipForm, NEW q \in QPs, NicRecv(q)
  PROVE  RingInv' /\ OwnershipForm'
<1>1. /\ Path(q)' = Path(q) /\ OnRing(q)'
      /\ \A r \in QPs \ {q} : Still(r)
      /\ \A r \in QPs : Behind(r)' = Behind(r)
  BY RecvMoves
<1>2. \A r \in QPs : Path(r)' = Path(r)
  BY <1>1, StillPath
<1>3. Elems(Behind("prior"))' = Elems(Behind("prior"))
  BY <1>1 DEF Elems, QPs
<1>4. state' = state
  BY DEF NicRecv
<1>5. ASSUME NEW r \in QPs
      PROVE  OnRing(r)'
  <2>1. CASE r = q
    BY <1>1, <2>1
  <2>2. CASE r # q
    BY <1>1, <2>2, StillOnRing DEF RingInv
  <2> QED
    BY <2>1, <2>2
<1> QED
  BY <1>2, <1>3, <1>4, <1>5, OwnershipKept DEF RingInv

\* Every step keeps the rings in order and the owners right.
LEMMA OwnedNext ==
  ASSUME TypeOK, TypeOK', WorkerInv, SendAgreement, RingInv, Ownership,
         AllPosted, [Next]_vars
  PROVE  RingInv' /\ Ownership'
<1>1. OwnershipForm /\ ~PostsPartly("send") /\ ~PostsPartly("recv")
      /\ "prior" \in QPs /\ "next" \in QPs
  BY OwnershipFormed DEF QPs, AllPosted, PostsPartly
<1> SUFFICES RingInv' /\ OwnershipForm'
  BY OwnershipFormedNext
<1>2. CASE Forward
  <2>1. CASE PostRecvs("prior", "post_prior", "poll_prior")
    BY <1>1, <2>1, OwnedPost
  <2>2. CASE PollRecv("prior", "poll_prior", "dispatch")
    BY <1>1, <2>2, OwnedPoll
  <2>3. CASE Dispatch
    BY <1>1, <2>3, OwnedDispatch
  <2>4. CASE Worker
    BY <1>1, <2>4, OwnedWorker
  <2>5. CASE Collect
    BY <1>1, <2>5, OwnedCollect
  <2>6. CASE TxBurst("next", "flush_next")
    BY <1>1, <2>6, OwnedBurst
  <2>7. CASE FlushDone("next", "flush_next", "post_next")
    BY <1>1, <2>7, QuietStep DEF FlushDone, Unreaped, rx_vars, wk_vars, tx_vars, nic_vars
  <2> QED
    BY <1>2, <2>1, <2>2, <2>3, <2>4, <2>5, <2>6, <2>7 DEF Forward
<1>3. CASE Backward
  <2>1. CASE PostRecvs("next", "post_next", "poll_next")
    BY <1>1, <2>1, OwnedPost
  <2>2. CASE PollRecv("next", "poll_next", "direct_tx")
    BY <1>1, <2>2, OwnedPoll
  <2>3. CASE DirectTxBurst
    BY <1>1, <2>3, OwnedDirect
  <2>4. CASE TxBurst("prior", "flush_prior")
    BY <1>1, <2>4, OwnedBurst
  <2>5. CASE FlushDone("prior", "flush_prior", "check")
    BY <1>1, <2>5, QuietStep DEF FlushDone, Unreaped, rx_vars, wk_vars, tx_vars, nic_vars
  <2> QED
    BY <1>3, <2>1, <2>2, <2>3, <2>4, <2>5 DEF Backward
<1>4. CASE Launch \/ CheckTimeout \/ Expire \/ Shutdown
  BY <1>1, <1>4, QuietStep, ShutdownStep
     DEF Launch, CheckTimeout, Expire, Unreaped, rx_vars, wk_vars, tx_vars, nic_vars
<1>5. ASSUME NEW q \in QPs, NicRecv(q) \/ NicSendDone(q) \/ PeerFails(q)
      PROVE  RingInv' /\ OwnershipForm'
  <2>1. CASE NicRecv(q)
    BY <1>1, <2>1, OwnedRecv
  <2>2. CASE NicSendDone(q)
    <3>1. \A r \in QPs : Unreaped(r)' = Unreaped(r)
      BY <2>2, SendDoneMoves
    <3> QED
      BY <1>1, <2>2, <3>1, QuietStep DEF NicSendDone, rx_vars, wk_vars, tx_vars
  <2>3. CASE PeerFails(q)
    BY <1>1, <2>3, QuietStep DEF PeerFails, Unreaped, rx_vars, wk_vars, tx_vars
  <2> QED
    BY <1>5, <2>1, <2>2, <2>3
<1>6. CASE UNCHANGED vars
  BY <1>1, <1>6, QuietStep DEF vars, Unreaped, rx_vars, wk_vars, tx_vars, nic_vars
<1> QED
  BY <1>2, <1>3, <1>4, <1>5, <1>6 DEF Next, Wrapper, Nic, Stopped

\* At the start the path of a ring is the filled receive queue.
LEMMA InitPath ==
  ASSUME Init, TypeOK, NEW q \in QPs
  PROVE  /\ Path(q) = FilledQueue(q)
         /\ Inside(q) = << >> /\ Behind(q) = << >> /\ Waiting(q) = << >>
<1>1. /\ Out(q) \in QPs /\ wait_for_disp[q] = 0 /\ worker_rx = << >> /\ worker_tx = << >>
      /\ tx_queue[Out(q)] = << >> /\ recv_cq[q] = << >> /\ rq[q] = FilledQueue(q)
      /\ sq[Out(q)] = << >> /\ send_cq[Out(q)] = << >>
  BY OutOut DEF Init
<1>2. Waiting(q) = << >>
  BY <1>1 DEF Waiting
<1>3. Behind(q) = << >>
  BY <1>1 DEF Behind
<1>4. Inside(q) = << >>
  <2>1. Inside(q) = (Behind(q) \o Waiting(q)) \o recv_cq[q]
    BY InsideTypes
  <2>2. (<< >> \o << >>) \o << >> = << >>
    OBVIOUS
  <2> QED
    BY <1>1, <1>2, <1>3, <2>1, <2>2
<1>5. Unreaped(Out(q)) = << >>
  BY <1>1 DEF Unreaped
<1>6. FilledQueue(q) \in Seq(Buffers)
  BY <1>1, PathTypes
<1>7. Path(q) = (<< >> \o << >>) \o FilledQueue(q)
  BY <1>1, <1>4, <1>5 DEF Path
<1>8. Path(q) = FilledQueue(q)
  <2> DEFINE f == FilledQueue(q)
  <2> HIDE DEF f
  <2>1. (<< >> \o << >>) \o f = f
    BY <1>6 DEF f
  <2> QED
    BY <1>7, <2>1 DEF f
<1> QED
  BY <1>2, <1>3, <1>4, <1>8

\* __fill_recv_queue has posted the whole ring.
LEMMA OwnedInit == Init => RingInv /\ Ownership
<1> SUFFICES ASSUME Init
             PROVE  RingInv /\ Ownership
  OBVIOUS
<1> DEFINE N == NumRxRingEntries
<1>1. TypeOK
  BY InitType
<1>2. N \in Nat \ {0}
  BY RingAssumption
<1>3. ASSUME NEW q \in QPs
      PROVE  OnRing(q)
  <2>1. /\ Len(Path(q)) = N /\ Path(q) = [k \in 1 .. N |-> RxBuf(q, k - 1)]
    BY <1>1, <1>2, InitPath DEF FilledQueue
  <2>2. /\ recv_head[q] = 0 /\ ring_head[q] = 0 /\ Len(rq[q]) = N
        /\ Len(recv_cq[q]) = 0 /\ wait_for_disp[q] = 0
    BY <1>2 DEF Init, FilledQueue
  <2>3. ASSUME NEW k \in 1 .. N
        PROVE  Path(q)[k] = RxBuf(q, 0 - N + k - 1)
    <3>1. (0 - N + k - 1) % N = (k - 1) % N
      <4> HIDE DEF N
      <4>1. k - 1 \in Int /\ (0 - N + k - 1) = (k - 1) - N
        BY <1>2
      <4>2. ((k - 1) - N) % N = (k - 1) % N
        BY <1>2, <4>1, ModTurn, Zenon
      <4> QED
        BY <4>1, <4>2
    <3> QED
      BY <2>1, <3>1 DEF RxBuf
  <2>4. (0 - N - 0 - 0) % N = 0
    <3> HIDE DEF N
    <3>1. 0 - N - 0 - 0 = 0 - N /\ 0 \in Int /\ 0 \in 0 .. N - 1
      BY <1>2
    <3>2. (0 - N) % N = 0 % N /\ 0 % N = 0
      BY <1>2, <3>1, ModTurn, ModSmall
    <3> QED
      BY <3>1, <3>2
  <2>5. Anchored(q)
    BY <2>2, <2>4 DEF Anchored
  <2>6. N <= N
    <3> HIDE DEF N
    <3> QED
      BY <1>2
  <2> QED
    BY <2>1, <2>2, <2>3, <2>5, <2>6 DEF OnRing
<1>4. OwnershipForm
  <2> SUFFICES ASSUME NEW b \in Buffers
               PROVE  /\ state[b] = POSTED
                      /\ b \in Elems(Path(b[1]))
                      /\ Elems(Behind("prior")) = {}
    BY DEF OwnershipForm, POSTED, FREE, APP_OWNED
  <2>1. state[b] = POSTED
    BY DEF Init
  <2>2. Elems(Behind("prior")) = {}
    <3>1. Behind("prior") = << >>
      BY <1>1, InitPath DEF QPs
    <3> QED
      BY <3>1 DEF Elems
  <2>3. PICK q \in QPs, i \in 0 .. N - 1 : b = <<q, i>>
    BY DEF Buffers
  <2>4. Path(q) = [k \in 1 .. N |-> RxBuf(q, k - 1)] /\ Len(Path(q)) = N
    BY <1>1, <1>2, InitPath DEF FilledQueue
  <2>5. i + 1 \in 1 .. N /\ (i + 1) - 1 = i /\ i % N = i
    <3> HIDE DEF N
    <3> QED
      BY <1>2, <2>3
  <2>6. Path(q)[i + 1] = b
    BY <2>3, <2>4, <2>5 DEF RxBuf
  <2>7. b[1] = q
    BY <2>3
  <2> QED
    BY <2>1, <2>2, <2>4, <2>5, <2>6, <2>7 DEF Elems
<1> QED
  BY <1>1, <1>3, <1>4, OwnershipFormed DEF RingInv

----------------------------------------------------------------------------
(* When the posts that return have taken what they were given, all of this *)
(* holds together.                                                         *)

DataInv == TypeOK /\ WorkerInv /\ RingInv /\ Ownership

\* The invariant the theorems below rest on.
LEMMA DataInvariant ==
  ASSUME AllPosted
  PROVE  Spec => [](DataInv /\ SendAgreement)
<1>1. Init => DataInv
  BY InitType, WorkerInvInit, OwnedInit DEF DataInv
<1>2. DataInv /\ SendAgreement /\ [Next]_vars => DataInv'
  BY NextType, WorkerInvNext, OwnedNext DEF DataInv
<1>3. Spec => []SendAgreement
  BY SendSideAgrees DEF AllPosted
<1> QED
  BY <1>1, <1>2, <1>3, PTL DEF Spec

\* The buffer __rx_burst takes for the received one is the received one, for
\* rings and batches of every size.
THEOREM ReceivedEntryIsRight ==
  ASSUME AllPosted
  PROVE  Spec => []RecvAgreement
<1>1. DataInv => RecvAgreement
  BY RingInvAgreement DEF DataInv
<1> QED
  BY <1>1, DataInvariant, PTL

\* The buffers of a ring go round in ring order and none is in two places.
THEOREM RingsStayInOrder ==
  ASSUME AllPosted
  PROVE  Spec => []RingOrder
<1>1. DataInv => RingOrder
  BY RingInvOrder DEF DataInv
<1> QED
  BY <1>1, DataInvariant, PTL

\* state_ is right about every buffer: none leaks, none is reposted while a
\* queue, the worker or the NIC still holds it.
THEOREM OwnersAreRight ==
  ASSUME AllPosted
  PROVE  Spec => []Ownership
<1>1. DataInv => Ownership
  BY DEF DataInv
<1> QED
  BY <1>1, DataInvariant, PTL

----------------------------------------------------------------------------
(* The data path implements Relay. Only two kinds of step change what is   *)
(* inside the block: a packet arrives, or a burst leaves.                  *)

InsideStill == \A q \in QPs : Inside(q)' = Inside(q)

\* Steps that touch none of its queues change nothing inside.
LEMMA InsideQuiet ==
  ASSUME UNCHANGED <<ring_head, wait_for_disp, worker_rx, worker_tx, tx_queue, recv_cq>>
  PROVE  InsideStill
  BY DEF InsideStill, Inside, Waiting

\* Reposting changes nothing inside.
LEMMA InsidePost ==
  ASSUME TypeOK, RingInv, Ownership, NEW q \in QPs, NEW from, NEW to,
         PostRecvs(q, from, to), ~PostsPartly("recv")
  PROVE  InsideStill
<1>1. Inside(q)' = Inside(q) /\ \A r \in QPs \ {q} : Still(r)
  BY PostPath
<1> QED
  BY <1>1 DEF InsideStill, Still

\* The other calls of __launch move packets along inside the block.
LEMMA InsideSteps ==
  ASSUME DataInv, SendAgreement, AllPosted, [Next]_vars
  PROVE  \/ InsideStill
         \/ \E q \in QPs : NicRecv(q)
         \/ TxBurst("next", "flush_next")
         \/ TxBurst("prior", "flush_prior")
<1>1. /\ TypeOK /\ WorkerInv /\ RingInv /\ Ownership /\ ~PostsPartly("recv")
      /\ "prior" \in QPs /\ "next" \in QPs
  BY DEF DataInv, QPs, AllPosted, PostsPartly
<1>2. ASSUME \A q \in QPs : Still(q)
      PROVE  InsideStill
  BY <1>2 DEF Still, InsideStill
<1>3. CASE \/ PostRecvs("prior", "post_prior", "poll_prior")
           \/ PostRecvs("next", "post_next", "poll_next")
  BY <1>1, <1>3, InsidePost
<1>4. CASE \/ PollRecv("prior", "poll_prior", "dispatch")
           \/ PollRecv("next", "poll_next", "direct_tx")
  BY <1>1, <1>2, <1>4, PollMoves
<1>5. CASE Dispatch
  BY <1>1, <1>2, <1>5, DispatchMoves
<1>6. CASE Worker
  BY <1>1, <1>2, <1>6, WorkerMoves
<1>7. CASE Collect
  BY <1>1, <1>2, <1>7, CollectMoves
<1>8. CASE DirectTxBurst
  BY <1>1, <1>2, <1>8, DirectMoves
<1>9. CASE \/ FlushDone("next", "flush_next", "post_next")
           \/ FlushDone("prior", "flush_prior", "check")
           \/ Launch \/ CheckTimeout \/ Expire \/ Shutdown
  BY <1>9, InsideQuiet, ShutdownStep
     DEF FlushDone, Launch, CheckTimeout, Expire, rx_vars, wk_vars, tx_vars, nic_vars
<1>10. CASE \E q \in QPs : NicSendDone(q) \/ PeerFails(q)
  BY <1>10, InsideQuiet DEF NicSendDone, PeerFails, rx_vars, wk_vars, tx_vars
<1>11. CASE UNCHANGED vars
  BY <1>11, InsideQuiet DEF vars, rx_vars, wk_vars, tx_vars, nic_vars
<1> QED
  BY <1>3, <1>4, <1>5, <1>6, <1>7, <1>8, <1>9, <1>10, <1>11
     DEF Next, Wrapper, Forward, Backward, Nic, Stopped

\* A received packet is new: its buffer is not inside the block already.
LEMMA RecvArrives ==
  ASSUME DataInv, NEW q \in QPs, NicRecv(q)
  PROVE  Relayed!Arrive(q)
<1> DEFINE e == Head(rq[q])
           pend == [r \in QPs |-> Inside(r)]
<1>1. TypeOK /\ RingInv /\ OnRing(q)
  BY DEF DataInv, RingInv
<1>2. /\ rq[q] # << >> /\ e \in Buffers
      /\ Inside(q)' = Append(Inside(q), e)
      /\ \A r \in QPs \ {q} : Inside(r)' = Inside(r)
  BY <1>1, RecvMoves DEF Still
<1>3. e \in Elems(rq[q])
  <2>1. rq[q] \in Seq(Buffers)
    BY <1>1 DEF TypeOK
  <2> DEFINE k == rq[q]
  <2>2. Len(k) \in Nat /\ 1 \in 1 .. Len(k) /\ Head(k) = k[1]
    <3> HIDE DEF k
    <3>1. k \in Seq(Buffers) /\ k # << >>
      BY <1>2, <2>1 DEF k
    <3> QED
      BY <3>1
  <2> QED
    BY <2>2 DEF Elems
<1>4. e \in Elems(Path(q)) /\ e \notin Elems(Inside(q)) /\ e[1] = q
  BY <1>1, <1>3, PathSets
<1>5. ASSUME NEW r \in QPs
      PROVE  e \notin Elems(Inside(r))
  <2>1. CASE r = q
    BY <1>4, <2>1
  <2>2. CASE r # q
    <3>1. OnRing(r)
      BY <1>1 DEF RingInv
    <3>2. \A b \in Elems(Inside(r)) : b[1] = r
      BY <1>1, <3>1, PathSets
    <3> QED
      BY <1>4, <2>2, <3>2
  <2> QED
    BY <2>1, <2>2
<1>6. e \in Buffers \ UNION {Relayed!Held(r) : r \in QPs}
  <2>1. ASSUME NEW r \in QPs
        PROVE  Relayed!Held(r) = Elems(Inside(r))
    BY DEF Relayed!Held, Elems
  <2> QED
    BY <1>2, <1>5, <2>1
<1>7. pend' = [pend EXCEPT ![q] = Append(@, e)]
  <2>1. pend' = [r \in QPs |-> Inside(r)']
    OBVIOUS
  <2>2. pend[q] = Inside(q)
    OBVIOUS
  <2> QED
    BY <1>2, <2>1, <2>2
<1> QED
  BY <1>6, <1>7 DEF Relayed!Arrive

\* A burst passes on the oldest packets of the other ring.
LEMMA BurstPasses ==
  ASSUME DataInv, AllPosted, NEW q \in QPs, NEW at, TxBurst(q, at)
  PROVE  Relayed!Pass(Out(q)) \/ InsideStill
<1> DEFINE r == Out(q)
           n == NbTx(q)
           I == Inside(r)
           pend == [d \in QPs |-> Inside(d)]
<1>1. TypeOK /\ RingInv /\ r \in QPs /\ ~PostsPartly("send")
      /\ \A d \in QPs : d = q \/ d = r
  BY OutOut DEF DataInv, AllPosted, PostsPartly
<1>2. /\ I' = Drop(I, n) /\ n \in 0 .. Len(I)
      /\ Inside(q)' = Inside(q)
  BY <1>1, BurstPath DEF Still
<1>3. I \in Seq(Buffers) /\ Len(I) \in Nat
  BY <1>1, InsideTypes
<1>4. CASE n = 0
  <2>1. Drop(I, 0) = I
    <3> HIDE DEF I
    <3>1. Drop(I, 0) = SubSeq(I, 1, Len(I))
      BY DEF Drop
    <3> QED
      BY <1>3, <3>1
  <2>2. I' = I
    BY <1>2, <1>4, <2>1
  <2> QED
    BY <1>1, <1>2, <2>2 DEF InsideStill
<1>5. CASE n # 0
  <2>1. n \in 1 .. Len(I)
    <3> HIDE DEF n, I
    <3> QED
      BY <1>2, <1>3, <1>5
  <2>2. pend' = [d \in QPs |-> Inside(d)'] /\ pend[r] = I
    BY <1>1
  <2>3. I' = SubSeq(I, n + 1, Len(I))
    BY <1>2 DEF Drop
  <2>4. pend' = [pend EXCEPT ![r] = SubSeq(@, n + 1, Len(@))]
    BY <1>1, <1>2, <2>2, <2>3
  <2> QED
    BY <1>1, <2>1, <2>2, <2>4 DEF Relayed!Pass
<1> QED
  BY <1>4, <1>5

\* Every step is a step of Relay or none.
LEMMA RelayStep ==
  ASSUME DataInv, SendAgreement, AllPosted, [Next]_vars
  PROVE  Relayed!Next \/ UNCHANGED [q \in QPs |-> Inside(q)]
<1>1. ASSUME InsideStill
      PROVE  UNCHANGED [q \in QPs |-> Inside(q)]
  <2>1. [q \in QPs |-> Inside(q)]' = [q \in QPs |-> Inside(q)']
    OBVIOUS
  <2> QED
    BY <1>1, <2>1 DEF InsideStill
<1>2. ASSUME NEW q \in QPs, NicRecv(q)
      PROVE  Relayed!Next
  BY <1>2, RecvArrives DEF Relayed!Next
<1>3. ASSUME NEW q \in QPs, NEW at, TxBurst(q, at)
      PROVE  Relayed!Next \/ UNCHANGED [r \in QPs |-> Inside(r)]
  BY <1>1, <1>3, BurstPasses, OutOut DEF Relayed!Next
<1>4. "prior" \in QPs /\ "next" \in QPs
  BY DEF QPs
<1> QED
  BY <1>1, <1>2, <1>3, <1>4, InsideSteps

\* The data path implements Relay: packets leave in the order of arrival, each
\* once, out of the buffer they arrived in.
THEOREM DatapathRelays ==
  ASSUME AllPosted
  PROVE  Spec => RelaySpec
<1>1. Init => Relayed!Init
  <2> SUFFICES ASSUME Init
               PROVE  [q \in QPs |-> Inside(q)] = [q \in QPs |-> << >>]
    BY DEF Relayed!Init
  <2> QED
    BY InitType, InitPath
<1>2. DataInv /\ SendAgreement /\ [Next]_vars
        => [Relayed!Next]_([q \in QPs |-> Inside(q)])
  BY RelayStep
<1> QED
  BY <1>1, <1>2, DataInvariant, PTL DEF Spec, RelaySpec, Relayed!Spec

----------------------------------------------------------------------------
(* What a SEND reads. As long as the neighbour lives, everything between   *)
(* the poll of the receive CQ and the posted SENDs has been written by the *)
(* NIC and given its length, and every completion is about a written one.  *)

Passed(q) == Behind(q) \o Waiting(q)

ContentOf(q) ==
  \/ failed[q]
  \/ /\ \A b \in Elems(sq[Out(q)]) \cup Elems(Passed(q)) : content[b] = "sized"
     /\ \A b \in Elems(recv_cq[q]) : content[b] # "empty"

ContentInv == \A q \in QPs : ContentOf(q)

\* Two queues that are equal once the same is appended are equal.
LEMMA CancelRight ==
  ASSUME NEW S, NEW s \in Seq(S), NEW t \in Seq(S), NEW c \in Seq(S), s \o c = t \o c
  PROVE  s = t
<1> DEFINE d == s \o c
           e == t \o c
<1>1. /\ Len(s) \in Nat /\ Len(t) \in Nat /\ Len(c) \in Nat
      /\ Len(d) = Len(s) + Len(c) /\ Len(e) = Len(t) + Len(c)
      /\ \A i \in 1 .. Len(s) + Len(c) : d[i] = IF i <= Len(s) THEN s[i] ELSE c[i - Len(s)]
      /\ \A i \in 1 .. Len(t) + Len(c) : e[i] = IF i <= Len(t) THEN t[i] ELSE c[i - Len(t)]
  BY ConcatProperties, LenProperties
<1>2. d = e
  OBVIOUS
<1> HIDE DEF d, e
<1>3. Len(s) = Len(t)
  BY <1>1, <1>2
<1>4. \A i \in 1 .. Len(s) : s[i] = t[i]
  BY <1>1, <1>2, <1>3
<1> QED
  BY <1>3, <1>4, SeqEqual

\* What is inside has been passed on by the poll, or is still to be polled.
LEMMA PassedType ==
  ASSUME NEW q \in QPs
  PROVE  TypeOK => Passed(q) \in Seq(Buffers) /\ Inside(q) = Passed(q) \o recv_cq[q]
<1> SUFFICES ASSUME TypeOK
             PROVE  Passed(q) \in Seq(Buffers) /\ Inside(q) = Passed(q) \o recv_cq[q]
  OBVIOUS
<1>1. /\ Behind(q) \in Seq(Buffers) /\ Waiting(q) \in Seq(Buffers)
      /\ Inside(q) = (Behind(q) \o Waiting(q)) \o recv_cq[q]
  BY InsideTypes
<1>2. Behind(q) \o Waiting(q) \in Seq(Buffers)
  BY <1>1, ConcatProperties, Zenon
<1> QED
  BY <1>1, <1>2 DEF Passed

\* The same in the next state.
LEMMA PassedTypeNext ==
  ASSUME NEW q \in QPs
  PROVE  (TypeOK => Passed(q) \in Seq(Buffers) /\ Inside(q) = Passed(q) \o recv_cq[q])'
<1>1. TypeOK => Passed(q) \in Seq(Buffers) /\ Inside(q) = Passed(q) \o recv_cq[q]
  BY PassedType
<1> QED
  BY <1>1, PTL

\* A step that leaves a ring and its completions alone moves packets at most
\* between the places they are passed on from.
LEMMA PassedStill ==
  ASSUME TypeOK, TypeOK', NEW q \in QPs, Inside(q)' = Inside(q), recv_cq'[q] = recv_cq[q]
  PROVE  Passed(q)' = Passed(q)
<1> DEFINE p == Passed(q)
           p1 == Passed(q)'
           c == recv_cq[q]
<1>1. p \in Seq(Buffers) /\ c \in Seq(Buffers) /\ Inside(q) = p \o c
  BY PassedType DEF TypeOK
<1>2. p1 \in Seq(Buffers) /\ Inside(q)' = p1 \o c
  BY PassedTypeNext
<1>3. p1 \o c = p \o c
  BY <1>1, <1>2
<1> HIDE DEF p, p1, c
<1>4. p1 = p
  BY <1>1, <1>2, <1>3, CancelRight, Zenon
<1> QED
  BY <1>4 DEF p, p1

\* Memory and lengths stay as they are, and no packet comes or goes.
LEMMA ContentKept ==
  ASSUME TypeOK, TypeOK', NEW q \in QPs, ContentOf(q), Inside(q)' = Inside(q),
         recv_cq'[q] = recv_cq[q], failed[q] => failed'[q],
         \A b \in Elems(sq'[Out(q)]) : b \in Elems(sq[Out(q)]),
         \A b \in Elems(sq[Out(q)]) \cup Elems(Passed(q)) \cup Elems(recv_cq[q]) :
           content'[b] = content[b]
  PROVE  ContentOf(q)'
<1>1. Passed(q)' = Passed(q)
  BY PassedStill
<1>2. Elems(Passed(q))' = Elems(Passed(q)) /\ Elems(recv_cq[q])' = Elems(recv_cq[q])
      /\ Elems(sq[Out(q)])' = Elems(sq'[Out(q)])
  BY <1>1 DEF Elems, Out
<1>3. CASE failed[q]
  BY <1>3 DEF ContentOf
<1>4. CASE ~failed[q]
  <2>1. /\ \A b \in Elems(sq[Out(q)]) \cup Elems(Passed(q)) : content[b] = "sized"
        /\ \A b \in Elems(recv_cq[q]) : content[b] # "empty"
    BY <1>4 DEF ContentOf
  <2>2. \A b \in Elems(sq[Out(q)])' \cup Elems(Passed(q))' : content'[b] = "sized"
    BY <1>2, <2>1
  <2>3. \A b \in Elems(recv_cq[q])' : content'[b] # "empty"
    BY <1>2, <2>1
  <2> QED
    BY <2>2, <2>3 DEF ContentOf
<1> QED
  BY <1>3, <1>4

\* Everything the content invariant of q speaks of is on the path of q.
LEMMA ContentOnPath ==
  ASSUME TypeOK, NEW q \in QPs, OnRing(q)
  PROVE  /\ Elems(Inside(q)) = Elems(Passed(q)) \cup Elems(recv_cq[q])
         /\ Elems(sq[Out(q)]) \cup Elems(Passed(q)) \cup Elems(recv_cq[q])
              \subseteq Elems(Path(q))
         /\ (Elems(sq[Out(q)]) \cup Elems(Passed(q)) \cup Elems(recv_cq[q]))
              \cap Elems(rq[q]) = {}
<1> DEFINE p == Passed(q)
           c == recv_cq[q]
           s == sq[Out(q)]
           d == send_cq[Out(q)]
<1>1. p \in Seq(Buffers) /\ c \in Seq(Buffers) /\ Inside(q) = p \o c
  BY PassedType DEF TypeOK
<1>2. s \in Seq(Buffers) /\ d \in Seq(Buffers) /\ Unreaped(Out(q)) = d \o s
  BY OutType, UnreapedType DEF Unreaped
<1>3. Elems(p \o c) = Elems(p) \cup Elems(c)
  <2> HIDE DEF p, c
  <2> QED
    BY <1>1, BufferElems
<1>4. Elems(d \o s) = Elems(d) \cup Elems(s)
  <2> HIDE DEF d, s
  <2> QED
    BY <1>2, BufferElems
<1>5. /\ Elems(Path(q)) = Elems(Unreaped(Out(q))) \cup Elems(Inside(q)) \cup Elems(rq[q])
      /\ Elems(Unreaped(Out(q))) \cap Elems(rq[q]) = {}
      /\ Elems(Inside(q)) \cap Elems(rq[q]) = {}
  BY PathSets
<1>6. Elems(Unreaped(Out(q))) = Elems(d) \cup Elems(s) /\ Elems(Inside(q)) = Elems(p) \cup Elems(c)
  BY <1>1, <1>2, <1>3, <1>4
<1> HIDE DEF p, c, s, d
<1>7. /\ Elems(Inside(q)) = Elems(p) \cup Elems(c)
      /\ Elems(s) \cup Elems(p) \cup Elems(c) \subseteq Elems(Path(q))
      /\ (Elems(s) \cup Elems(p) \cup Elems(c)) \cap Elems(rq[q]) = {}
  BY <1>5, <1>6
<1> QED
  BY <1>7 DEF p, c, s

\* Only free buffers are emptied by a repost.
LEMMA ContentPost ==
  ASSUME TypeOK, TypeOK', RingInv, Ownership, OwnershipForm, ContentInv, NEW q \in QPs,
         NEW from, NEW to, PostRecvs(q, from, to), ~PostsPartly("recv")
  PROVE  ContentInv'
<1>1. PICK n \in 0 .. NumRxRingEntries :
        /\ \A b \in Elems(Entries(q, n)) : state[b] = FREE
        /\ content' = [b \in Buffers |->
                         IF b \in Elems(Entries(q, n)) THEN "empty" ELSE content[b]]
        /\ Inside(q)' = Inside(q)
        /\ \A r \in QPs \ {q} : Still(r)
  BY PostPath
<1>2. UNCHANGED <<failed, recv_cq, sq>>
  BY DEF PostRecvs
<1>3. ASSUME NEW r \in QPs
      PROVE  ContentOf(r)'
  <2>1. Inside(r)' = Inside(r)
    BY <1>1 DEF Still
  <2>2. \A b \in Elems(Path(r)) : b \in Buffers /\ b[1] = r
    BY PathSets DEF RingInv
  <2>3. \A b \in Elems(Path(r)) : state[b] # FREE
    BY <2>2 DEF OwnershipForm
  <2>4. \A b \in Elems(Path(r)) : content'[b] = content[b]
    BY <1>1, <2>2, <2>3
  <2>5. \A b \in Elems(sq[Out(r)]) \cup Elems(Passed(r)) \cup Elems(recv_cq[r]) :
          content'[b] = content[b]
    BY <2>4, ContentOnPath DEF RingInv
  <2>6. ContentOf(r)
    BY DEF ContentInv
  <2> QED
    BY <1>2, <2>1, <2>5, <2>6, ContentKept
<1> QED
  BY <1>3 DEF ContentInv

\* A burst posts only what has been passed on.
LEMMA ContentBurst ==
  ASSUME TypeOK, TypeOK', RingInv, ContentInv, NEW q \in QPs, NEW at,
         TxBurst(q, at), ~PostsPartly("send")
  PROVE  ContentInv'
<1> DEFINE r == Out(q)
<1>1. r \in QPs /\ Out(r) = q /\ r # q /\ \A s \in QPs : s = q \/ s = r
  BY OutOut
<1>2. UNCHANGED <<failed, recv_cq, content>>
  BY DEF TxBurst
<1>3. ContentOf(q)'
  <2>1. Inside(q)' = Inside(q)
    BY BurstPath DEF Still
  <2>2. sq'[r] = sq[r]
    BY <1>1, BurstMoves
  <2>3. ContentOf(q)
    BY DEF ContentInv
  <2> QED
    BY <1>2, <2>1, <2>2, <2>3, ContentKept
<1>4. ContentOf(r)'
  <2> DEFINE p == Passed(r)
             p1 == Passed(r)'
             c == recv_cq[r]
             k == NbTx(q)
             m == Mounted(q)
             s == sq[q]
             I == Inside(r)
  <2>1. p \in Seq(Buffers) /\ c \in Seq(Buffers) /\ Inside(r) = p \o c
    BY <1>1, PassedType DEF TypeOK
  <2>2. p1 \in Seq(Buffers) /\ Inside(r)' = p1 \o c
    BY <1>1, <1>2, PassedTypeNext
  <2>3. /\ Inside(r)' = Drop(I, k) /\ k \in 0 .. Len(Behind(r)) /\ m = SubSeq(I, 1, k)
        /\ k \in 0 .. Len(I)
    BY BurstPath
  <2>4. k \in 0 .. Len(p) /\ \A i \in 1 .. Len(p) : I[i] = p[i]
    <3> DEFINE b == Behind(r)
               w == Waiting(r)
    <3>1. b \in Seq(Buffers) /\ w \in Seq(Buffers) /\ p = b \o w
      BY <1>1, InsideTypes DEF Passed
    <3>2. k \in 0 .. Len(b)
      BY <2>3
    <3> HIDE DEF b, w, p, I, c, k
    <3>3. Len(b) \in Nat /\ Len(w) \in Nat /\ Len(b \o w) = Len(b) + Len(w)
      BY <3>1, ConcatProperties, LenProperties
    <3>4. k \in 0 .. Len(p)
      BY <3>1, <3>2, <3>3
    <3>5. \A i \in 1 .. Len(p) : (p \o c)[i] = p[i]
      BY <2>1, ConcatProperties, LenProperties
    <3> QED
      BY <2>1, <3>4, <3>5 DEF I
  <2>5. p1 = Drop(p, k)
    <3> DEFINE d == Drop(p, k)
    <3> HIDE DEF p, p1, c, k, I
    <3>1. Drop(p \o c, k) = Drop(p, k) \o c
      BY <2>1, <2>4, DropConcat, Zenon
    <3>2. d \in Seq(Buffers)
      BY <2>1, <2>4, PrefixAndRest, Zenon
    <3>3. p1 \o c = d \o c
      BY <2>1, <2>2, <2>3, <3>1 DEF I
    <3> HIDE DEF d
    <3>4. p1 = d
      BY <2>1, <2>2, <3>2, <3>3, CancelRight, Zenon
    <3> QED
      BY <3>4 DEF d
  <2>6. Elems(p1) \subseteq Elems(p) /\ Elems(m) \subseteq Elems(p)
    <3>1. Len(p) \in Nat /\ k \in Nat /\ k <= Len(p) /\ p \in Seq(Buffers)
      BY <2>1, <2>4, LenProperties
    <3> HIDE DEF p, p1, c, k, I
    <3>2. p = SubSeq(p, 1, k) \o Drop(p, k) /\ SubSeq(p, 1, k) \in Seq(Buffers)
          /\ Drop(p, k) \in Seq(Buffers)
      BY <2>4, <3>1, SplitAt, PrefixAndRest
    <3>3. Elems(SubSeq(p, 1, k) \o Drop(p, k)) = Elems(SubSeq(p, 1, k)) \cup Elems(Drop(p, k))
      BY <3>2, BufferElems
    <3>4. Elems(p1) \subseteq Elems(p)
      BY <2>5, <3>2, <3>3
    <3>5. m = SubSeq(p, 1, k)
      <4>1. I \in Seq(Buffers) /\ Len(I) \in Nat /\ k <= Len(I)
        <5>1. I \in Seq(Buffers) /\ Len(I) \in Nat
          BY <1>1, InsideTypes DEF I
        <5> QED
          BY <2>3, <5>1
      <4>2. SubSeq(I, 1, k) = [i \in 1 .. k |-> I[i]] /\ SubSeq(p, 1, k) = [i \in 1 .. k |-> p[i]]
        BY <3>1, <4>1
      <4>3. \A i \in 1 .. k : I[i] = p[i]
        BY <2>4, <3>1
      <4> QED
        BY <2>3, <4>2, <4>3
    <3> QED
      BY <3>2, <3>3, <3>4, <3>5
  <2>7. sq'[q] = s \o m /\ s \in Seq(Buffers) /\ m \in Seq(Buffers)
    BY BurstMoves, BurstSizes, UnreapedType
  <2>8. Elems(s \o m) = Elems(s) \cup Elems(m)
    <3> HIDE DEF s, m
    <3> QED
      BY <2>7, BufferElems
  <2>9. /\ Elems(sq[Out(r)])' = Elems(s) \cup Elems(m)
        /\ Elems(Passed(r))' = Elems(p1)
        /\ Elems(recv_cq[r])' = Elems(c)
    <3>1. Elems(sq[Out(r)])' = Elems(sq'[q])
      BY <1>1 DEF Elems, Out
    <3>2. Elems(Passed(r))' = Elems(p1) /\ Elems(recv_cq[r])' = Elems(c)
      BY <1>2 DEF Elems
    <3> QED
      BY <2>7, <2>8, <3>1, <3>2
  <2>10. ContentOf(r)
    BY <1>1 DEF ContentInv
  <2>11. CASE failed[r]
    BY <1>2, <2>11 DEF ContentOf
  <2>12. CASE ~failed[r]
    <3>1. /\ \A b \in Elems(s) \cup Elems(p) : content[b] = "sized"
          /\ \A b \in Elems(c) : content[b] # "empty"
      BY <1>1, <2>10, <2>12 DEF ContentOf
    <3> HIDE DEF s, p, m, c, p1
    <3>2. \A b \in Elems(sq[Out(r)])' \cup Elems(Passed(r))' : content'[b] = "sized"
      BY <1>2, <2>6, <2>9, <3>1
    <3>3. \A b \in Elems(recv_cq[r])' : content'[b] # "empty"
      BY <1>2, <2>9, <3>1
    <3> QED
      BY <3>2, <3>3 DEF ContentOf
  <2> QED
    BY <2>11, <2>12
<1> QED
  BY <1>1, <1>3, <1>4 DEF ContentInv

\* A packet is written into a posted buffer, which nobody else refers to.
LEMMA ContentRecv ==
  ASSUME TypeOK, TypeOK', RingInv, ContentInv, NEW q \in QPs, NicRecv(q)
  PROVE  ContentInv'
<1> DEFINE e == Head(rq[q])
           c == recv_cq[q]
           k == rq[q]
<1>1. /\ recv_cq' = [recv_cq EXCEPT ![q] = Append(@, e)]
      /\ content' = IF failed[q] THEN content ELSE [content EXCEPT ![e] = "raw"]
      /\ UNCHANGED <<failed, sq>>
  BY DEF NicRecv
<1>2. /\ k # << >> /\ e \in Buffers
      /\ \A r \in QPs \ {q} : Still(r)
      /\ \A r \in QPs : Behind(r)' = Behind(r) /\ Waiting(r)' = Waiting(r)
  BY RecvMoves
<1>3. e \in Elems(k)
  <2>1. k \in Seq(Buffers)
    BY DEF TypeOK
  <2>2. Len(k) \in Nat /\ 1 \in 1 .. Len(k) /\ Head(k) = k[1]
    <3> HIDE DEF k
    <3> QED
      BY <1>2, <2>1
  <2> QED
    BY <2>2 DEF Elems
<1>4. e \in Elems(Path(q)) /\ e[1] = q
      /\ e \notin Elems(sq[Out(q)]) \cup Elems(Passed(q)) \cup Elems(recv_cq[q])
  <2>1. OnRing(q)
    BY DEF RingInv
  <2>2. e \in Elems(Path(q)) /\ e[1] = q
    BY <1>3, <2>1, PathSets
  <2>3. (Elems(sq[Out(q)]) \cup Elems(Passed(q)) \cup Elems(recv_cq[q])) \cap Elems(k) = {}
    BY <2>1, ContentOnPath
  <2> QED
    BY <1>3, <2>2, <2>3
<1>5. ASSUME NEW r \in QPs, r # q
      PROVE  ContentOf(r)'
  <2>1. Inside(r)' = Inside(r)
    BY <1>2, <1>5 DEF Still
  <2>2. recv_cq'[r] = recv_cq[r]
    BY <1>1, <1>5 DEF TypeOK
  <2>3. \A b \in Elems(Path(r)) : b[1] = r /\ b \in Buffers
    BY PathSets DEF RingInv
  <2>4. \A b \in Elems(Path(r)) : content'[b] = content[b]
    BY <1>1, <1>4, <1>5, <2>3 DEF TypeOK
  <2>5. \A b \in Elems(sq[Out(r)]) \cup Elems(Passed(r)) \cup Elems(recv_cq[r]) :
          content'[b] = content[b]
    BY <2>4, ContentOnPath DEF RingInv
  <2>6. ContentOf(r)
    BY DEF ContentInv
  <2> QED
    BY <1>1, <2>1, <2>2, <2>5, <2>6, ContentKept
<1>6. ContentOf(q)'
  <2>1. CASE failed[q]
    BY <1>1, <2>1 DEF ContentOf
  <2>2. CASE ~failed[q]
    <3>1. content' = [content EXCEPT ![e] = "raw"]
      BY <1>1, <2>2
    <3>2. /\ \A b \in Elems(sq[Out(q)]) \cup Elems(Passed(q)) : content[b] = "sized"
          /\ \A b \in Elems(c) : content[b] # "empty"
      BY <2>2 DEF ContentInv, ContentOf
    <3>3. Passed(q)' = Passed(q) /\ sq'[Out(q)] = sq[Out(q)] /\ recv_cq'[q] = Append(c, e)
      BY <1>1, <1>2 DEF Passed, TypeOK
    <3>4. c \in Seq(Buffers)
      BY DEF TypeOK
    <3>5. Elems(Append(c, e)) \subseteq Elems(c) \cup {e}
      <4> HIDE DEF c, e
      <4>1. /\ Len(c) \in Nat /\ Len(Append(c, e)) = Len(c) + 1
            /\ \A i \in 1 .. Len(c) : Append(c, e)[i] = c[i]
            /\ Append(c, e)[Len(c) + 1] = e
        BY <1>2, <3>4, AppendProperties, LenProperties
      <4> DEFINE a == Append(c, e)
      <4> HIDE DEF a
      <4>2. ASSUME NEW i \in 1 .. Len(a)
            PROVE  a[i] \in Elems(c) \cup {e}
        <5>1. i \in 1 .. Len(c) \/ i = Len(c) + 1
          BY <4>1 DEF a
        <5> QED
          BY <4>1, <5>1 DEF a, Elems
      <4>3. Elems(a) \subseteq Elems(c) \cup {e}
        BY <4>2 DEF Elems
      <4> QED
        BY <4>3 DEF a
    <3>6. /\ Elems(sq[Out(q)])' = Elems(sq[Out(q)])
          /\ Elems(Passed(q))' = Elems(Passed(q))
          /\ Elems(recv_cq[q])' = Elems(Append(c, e))
      BY <3>3 DEF Elems, Out
    <3>7. OnRing(q) /\ \A b \in Elems(Path(q)) : b \in Buffers
      BY PathSets DEF RingInv
    <3>8. Elems(sq[Out(q)]) \cup Elems(Passed(q)) \cup Elems(c) \subseteq Buffers
      BY <3>7, ContentOnPath
    <3> HIDE DEF e, c
    <3>9. \A b \in Buffers : content'[b] = IF b = e THEN "raw" ELSE content[b]
      BY <3>1 DEF TypeOK
    <3>10. \A b \in Elems(sq[Out(q)])' \cup Elems(Passed(q))' : content'[b] = "sized"
      BY <1>4, <3>2, <3>6, <3>8, <3>9
    <3>11. \A b \in Elems(recv_cq[q])' : content'[b] # "empty"
      BY <1>2, <3>2, <3>5, <3>6, <3>8, <3>9
    <3> QED
      BY <3>10, <3>11 DEF ContentOf
  <2> QED
    BY <2>1, <2>2
<1> QED
  BY <1>5, <1>6 DEF ContentInv

\* The poll gives its length to every packet it takes from the CQ, because the
\* entry it infers is the one the completion is about.
LEMMA ContentPoll ==
  ASSUME TypeOK, TypeOK', RingInv, ContentInv, NEW q \in QPs, NEW from, NEW to,
         PollRecv(q, from, to)
  PROVE  ContentInv'
<1> DEFINE c == recv_cq[q]
           n == Least(Len(c), RxBatchSize)
           p == SubSeq(c, 1, n)
           d == Drop(c, n)
<1>1. /\ recv_cq' = [recv_cq EXCEPT ![q] = Drop(@, n)]
      /\ content' = [b \in Buffers |->
                       IF content[b] = "empty" THEN "empty"
                       ELSE IF \E i \in 1 .. n : b = NextEntry(q, i) /\ b = c[i] THEN "sized"
                       ELSE IF \E i \in 1 .. n : b = NextEntry(q, i) /\ b # c[i] THEN "raw"
                       ELSE content[b]]
      /\ UNCHANGED <<failed, sq>>
  BY DEF PollRecv
<1>2. c \in Seq(Buffers) /\ Len(c) \in Nat /\ n \in 0 .. Len(c) /\ n \in Nat /\ n <= Len(c)
  <2>1. c \in Seq(Buffers) /\ Len(c) \in Nat /\ RxBatchSize \in Nat
    BY RingAssumption DEF TypeOK
  <2> HIDE DEF c
  <2> QED
    BY <2>1 DEF Least
<1>3. \A i \in 1 .. n : NextEntry(q, i) = c[i]
  <2>1. \A i \in 1 .. Len(c) : c[i] = RxBuf(q, ring_head[q] + wait_for_disp[q] + i - 1)
    BY RingInvAgreement DEF RecvAgreement
  <2>2. \A i \in 1 .. n : i \in 1 .. Len(c)
    <3> HIDE DEF c, n
    <3> QED
      BY <1>2
  <2> HIDE DEF c, n
  <2> QED
    BY <2>1, <2>2 DEF NextEntry
<1>4. p \in Seq(Buffers) /\ d \in Seq(Buffers) /\ p \o d = c
  <2> HIDE DEF c, n
  <2> QED
    BY <1>2, PrefixAndRest, SplitAt
<1>5. Elems(p) = {c[i] : i \in 1 .. n}
  <2> HIDE DEF c, n
  <2>1. SubSeq(c, 1, n) = [i \in 1 .. n |-> c[i]] /\ Len(SubSeq(c, 1, n)) = n
    BY <1>2
  <2> HIDE DEF p
  <2>2. p = [i \in 1 .. n |-> c[i]] /\ Len(p) = n
    BY <2>1 DEF p
  <2> QED
    BY <2>2 DEF Elems
<1>6. ASSUME NEW b \in Buffers
      PROVE  content'[b] = IF content[b] # "empty" /\ b \in Elems(p)
                           THEN "sized" ELSE content[b]
  <2> HIDE DEF c, n, p, d
  <2>1. (\E i \in 1 .. n : b = NextEntry(q, i) /\ b = c[i]) <=> b \in Elems(p)
    BY <1>3, <1>5
  <2>2. ~ \E i \in 1 .. n : b = NextEntry(q, i) /\ b # c[i]
    BY <1>3
  <2>3. content'[b] =
          IF content[b] = "empty" THEN "empty"
          ELSE IF \E i \in 1 .. n : b = NextEntry(q, i) /\ b = c[i] THEN "sized"
          ELSE IF \E i \in 1 .. n : b = NextEntry(q, i) /\ b # c[i] THEN "raw"
          ELSE content[b]
    BY <1>1
  <2> QED
    BY <2>1, <2>2, <2>3
<1>7. \A r \in QPs : Inside(r)' = Inside(r)
  BY PollMoves DEF Still
<1>8. Elems(c) = Elems(p) \cup Elems(d)
  <2> HIDE DEF c, n, p, d
  <2>1. Elems(p \o d) = Elems(p) \cup Elems(d)
    BY <1>4, BufferElems
  <2> QED
    BY <1>4, <2>1
<1>9. /\ Elems(c) \subseteq Elems(Path(q)) /\ OnRing(q)
      /\ \A b \in Elems(Path(q)) : b[1] = q /\ b \in Buffers
  BY ContentOnPath, PathSets DEF RingInv
<1>10. ASSUME NEW r \in QPs, r # q
       PROVE  ContentOf(r)'
  <2>1. recv_cq'[r] = recv_cq[r]
    BY <1>1, <1>10 DEF TypeOK
  <2>2. \A b \in Elems(Path(r)) : b[1] = r /\ b \in Buffers
    BY PathSets DEF RingInv
  <2>3. \A b \in Elems(Path(r)) : content'[b] = content[b]
    <3> HIDE DEF c, p, d, n
    <3> QED
      BY <1>6, <1>8, <1>9, <1>10, <2>2
  <2>4. \A b \in Elems(sq[Out(r)]) \cup Elems(Passed(r)) \cup Elems(recv_cq[r]) :
          content'[b] = content[b]
    BY <2>3, ContentOnPath DEF RingInv
  <2>5. ContentOf(r)
    BY DEF ContentInv
  <2> QED
    BY <1>1, <1>7, <2>1, <2>4, <2>5, ContentKept
<1>11. ContentOf(q)'
  <2>1. CASE failed[q]
    BY <1>1, <2>1 DEF ContentOf
  <2>2. CASE ~failed[q]
    <3> DEFINE g == Passed(q)
               g1 == Passed(q)'
    <3>1. /\ \A b \in Elems(sq[Out(q)]) \cup Elems(g) : content[b] = "sized"
          /\ \A b \in Elems(c) : content[b] # "empty"
      BY <2>2 DEF ContentInv, ContentOf
    <3>2. recv_cq'[q] = d /\ sq'[Out(q)] = sq[Out(q)]
      BY <1>1 DEF TypeOK
    <3>3. g \in Seq(Buffers) /\ Inside(q) = g \o c
      BY PassedType
    <3>4. g1 \in Seq(Buffers) /\ Inside(q)' = g1 \o d
      BY <3>2, PassedTypeNext
    <3>5. g1 = g \o p
      <4> HIDE DEF c, n, p, d, g, g1
      <4>1. PICK x \in Seq(Buffers) : x = g \o p
        BY <1>4, <3>3, ConcatProperties, Zenon
      <4>2. (g \o p) \o d = g \o (p \o d)
        BY <1>4, <3>3, RegroupThree
      <4>3. g1 \o d = x \o d
        BY <1>4, <1>7, <3>3, <3>4, <4>1, <4>2
      <4>4. g1 = x
        BY <1>4, <3>4, <4>3, CancelRight, Zenon
      <4> QED
        BY <4>1, <4>4
    <3>6. Elems(g \o p) = Elems(g) \cup Elems(p)
      <4> HIDE DEF c, n, p, d, g
      <4> QED
        BY <1>4, <3>3, BufferElems
    <3>7. /\ Elems(sq[Out(q)])' = Elems(sq[Out(q)])
          /\ Elems(Passed(q))' = Elems(g) \cup Elems(p)
          /\ Elems(recv_cq[q])' = Elems(d)
      <4>1. Elems(Passed(q))' = Elems(g1)
        BY DEF Elems
      <4>2. Elems(recv_cq[q])' = Elems(d) /\ Elems(sq[Out(q)])' = Elems(sq[Out(q)])
        BY <3>2 DEF Elems, Out
      <4> QED
        BY <3>5, <3>6, <4>1, <4>2
    <3>8. Elems(sq[Out(q)]) \cup Elems(g) \cup Elems(c) \subseteq Buffers
      BY <1>9, ContentOnPath
    <3> HIDE DEF c, n, p, d, g, g1
    <3>9. \A b \in Elems(sq[Out(q)])' \cup Elems(Passed(q))' : content'[b] = "sized"
      BY <1>6, <1>8, <3>1, <3>7, <3>8
    <3>10. \A b \in Elems(recv_cq[q])' : content'[b] # "empty"
      BY <1>6, <1>8, <3>1, <3>7, <3>8
    <3> QED
      BY <3>9, <3>10 DEF ContentOf
  <2> QED
    BY <2>1, <2>2
<1> QED
  BY <1>10, <1>11 DEF ContentInv

\* A step that receives nothing, writes nothing and sends nothing new.
LEMMA ContentStep ==
  ASSUME TypeOK, TypeOK', ContentInv, InsideStill,
         UNCHANGED <<recv_cq, sq, content>>, \A q \in QPs : failed[q] => failed'[q]
  PROVE  ContentInv'
<1>1. ASSUME NEW q \in QPs
      PROVE  ContentOf(q)'
  <2>1. ContentOf(q) /\ Inside(q)' = Inside(q) /\ (failed[q] => failed'[q])
    BY DEF ContentInv, InsideStill
  <2> QED
    BY <2>1, ContentKept
<1> QED
  BY <1>1 DEF ContentInv

\* A completed SEND is one posted SEND less.
LEMMA ContentSendDone ==
  ASSUME TypeOK, TypeOK', ContentInv, NEW q \in QPs, NicSendDone(q)
  PROVE  ContentInv'
<1>1. /\ sq[q] # << >> /\ sq' = [sq EXCEPT ![q] = Tail(@)]
      /\ UNCHANGED <<ring_head, wait_for_disp, worker_rx, worker_tx, tx_queue, recv_cq,
                     failed, content>>
  BY DEF NicSendDone, rx_vars, wk_vars, tx_vars
<1>2. InsideStill
  BY <1>1, InsideQuiet
<1>3. ASSUME NEW r \in QPs
      PROVE  \A b \in Elems(sq'[r]) : b \in Elems(sq[r])
  <2>1. CASE r # q
    BY <1>1, <2>1 DEF TypeOK
  <2>2. CASE r = q
    <3> DEFINE s == sq[q]
               t == Tail(s)
    <3>1. s \in Seq(Buffers) /\ s # << >> /\ sq'[q] = t
      BY <1>1 DEF TypeOK
    <3> HIDE DEF s
    <3>2. /\ Len(s) \in Nat /\ Len(t) = Len(s) - 1
          /\ \A i \in 1 .. Len(t) : t[i] = s[i + 1]
      BY <3>1, HeadTailProperties, LenProperties
    <3> HIDE DEF t
    <3>3. \A i \in 1 .. Len(t) : i + 1 \in 1 .. Len(s)
      BY <3>2
    <3>4. Elems(t) \subseteq Elems(s)
      BY <3>2, <3>3 DEF Elems
    <3> QED
      BY <2>2, <3>1, <3>4 DEF s
  <2> QED
    BY <2>1, <2>2
<1>4. ASSUME NEW r \in QPs
      PROVE  ContentOf(r)'
  <2>1. ContentOf(r) /\ Inside(r)' = Inside(r) /\ Out(r) \in QPs
    BY <1>2, OutOut DEF ContentInv, InsideStill
  <2> QED
    BY <1>1, <1>3, <2>1, ContentKept
<1> QED
  BY <1>4 DEF ContentInv

\* No step puts an unwritten buffer on the way to a SEND.
LEMMA ContentNext ==
  ASSUME DataInv, SendAgreement, ContentInv, AllPosted, [Next]_vars
  PROVE  ContentInv'
<1>1. /\ TypeOK /\ TypeOK' /\ WorkerInv /\ RingInv /\ Ownership /\ OwnershipForm
      /\ ~PostsPartly("recv") /\ ~PostsPartly("send")
      /\ "prior" \in QPs /\ "next" \in QPs
  BY NextType, OwnershipFormed DEF DataInv, QPs, AllPosted, PostsPartly
<1>2. ASSUME \A q \in QPs : Still(q)
      PROVE  InsideStill
  BY <1>2 DEF Still, InsideStill
<1>3. CASE \/ PostRecvs("prior", "post_prior", "poll_prior")
           \/ PostRecvs("next", "post_next", "poll_next")
  BY <1>1, <1>3, ContentPost
<1>4. CASE \/ PollRecv("prior", "poll_prior", "dispatch")
           \/ PollRecv("next", "poll_next", "direct_tx")
  BY <1>1, <1>4, ContentPoll
<1>5. CASE Dispatch
  BY <1>1, <1>2, <1>5, DispatchMoves, ContentStep DEF Dispatch, nic_vars
<1>6. CASE Worker
  BY <1>1, <1>2, <1>6, WorkerMoves, ContentStep DEF Worker, nic_vars
<1>7. CASE Collect
  BY <1>1, <1>2, <1>7, CollectMoves, ContentStep DEF Collect, nic_vars
<1>8. CASE DirectTxBurst
  BY <1>1, <1>2, <1>8, DirectMoves, ContentStep DEF DirectTxBurst, nic_vars
<1>9. CASE \/ FlushDone("next", "flush_next", "post_next")
           \/ FlushDone("prior", "flush_prior", "check")
           \/ Launch \/ CheckTimeout \/ Expire \/ Shutdown
  <2>1. /\ UNCHANGED <<ring_head, wait_for_disp, worker_rx, worker_tx, tx_queue, recv_cq>>
        /\ UNCHANGED <<failed, sq, content>>
    BY <1>9, ShutdownStep DEF FlushDone, Launch, CheckTimeout, Expire, rx_vars, wk_vars, tx_vars, nic_vars
  <2>2. InsideStill
    BY <2>1, InsideQuiet
  <2> QED
    BY <1>1, <2>1, <2>2, ContentStep
<1>10. ASSUME NEW q \in QPs, NicRecv(q) \/ NicSendDone(q) \/ PeerFails(q)
       PROVE  ContentInv'
  <2>1. CASE NicRecv(q)
    BY <1>1, <2>1, ContentRecv
  <2>2. CASE NicSendDone(q)
    BY <1>1, <2>2, ContentSendDone
  <2>3. CASE PeerFails(q)
    <3>1. /\ UNCHANGED <<ring_head, wait_for_disp, worker_rx, worker_tx, tx_queue, recv_cq>>
          /\ UNCHANGED <<sq, content>>
          /\ failed' = [failed EXCEPT ![q] = TRUE]
      BY <2>3 DEF PeerFails, rx_vars, wk_vars, tx_vars
    <3>2. \A r \in QPs : failed[r] => failed'[r]
      BY <1>1, <3>1 DEF TypeOK
    <3>3. InsideStill
      BY <3>1, InsideQuiet
    <3> QED
      BY <1>1, <3>1, <3>2, <3>3, ContentStep
  <2> QED
    BY <1>10, <2>1, <2>2, <2>3
<1>11. CASE \/ TxBurst("next", "flush_next")
            \/ TxBurst("prior", "flush_prior")
  BY <1>1, <1>11, ContentBurst
<1>12. CASE UNCHANGED vars
  <2>1. /\ UNCHANGED <<ring_head, wait_for_disp, worker_rx, worker_tx, tx_queue, recv_cq>>
        /\ UNCHANGED <<failed, sq, content>>
    BY <1>12 DEF vars, rx_vars, wk_vars, tx_vars, nic_vars
  <2>2. InsideStill
    BY <2>1, InsideQuiet
  <2> QED
    BY <1>1, <2>1, <2>2, ContentStep
<1> QED
  BY <1>3, <1>4, <1>5, <1>6, <1>7, <1>8, <1>9, <1>10, <1>11, <1>12
     DEF Next, Wrapper, Forward, Backward, Nic, Stopped

\* Nothing has been received at first.
LEMMA ContentInit == Init => ContentInv
<1> SUFFICES ASSUME Init, NEW q \in QPs
             PROVE  ContentOf(q)
  BY DEF ContentInv
<1>1. Behind(q) = << >> /\ Waiting(q) = << >>
  BY InitType, InitPath
<1>2. Passed(q) = << >> /\ sq[Out(q)] = << >> /\ recv_cq[q] = << >>
  BY <1>1, OutOut DEF Passed, Init
<1> QED
  BY <1>2 DEF ContentOf, Elems

\* Every posted SEND reads a buffer the NIC has filled and whose length_ is that
\* of the packet, as long as the neighbour the packet came from lives.
THEOREM SendsReadReceivedPackets ==
  ASSUME AllPosted
  PROVE  Spec => []SentIsReceivedFromLive
<1>1. Init => ContentInv
  BY ContentInit
<1>2. DataInv /\ SendAgreement /\ ContentInv /\ [Next]_vars => ContentInv'
  BY ContentNext
<1>3. ContentInv => SentIsReceivedFromLive
  <2> SUFFICES ASSUME ContentInv, NEW q \in QPs, NEW b \in Elems(sq[q])
               PROVE  failed[Out(q)] \/ content[b] = "sized"
    BY DEF SentIsReceivedFromLive
  <2>1. Out(q) \in QPs /\ Out(Out(q)) = q
    BY OutOut
  <2>2. ContentOf(Out(q))
    BY <2>1 DEF ContentInv
  <2> QED
    BY <2>1, <2>2 DEF ContentOf
<1> QED
  BY <1>1, <1>2, <1>3, DataInvariant, PTL DEF Spec

=============================================================================
