----------------------------- MODULE SocChannel -----------------------------
(***************************************************************************)
(* Channel_SoC::allocate_channel, call by call: the port is resolved, the  *)
(* verbs objects of both queue pairs are made, a region of huge pages is   *)
(* registered and handed to the allocator, and each receive ring takes one *)
(* extent of it, cut into buffers. Nothing is undone when a call fails.    *)
(*                                                                         *)
(* A null pointer from the verbs library is either caught by an assertion, *)
(* in builds with runtime checks, or followed: the program ends either     *)
(* way.                                                                    *)
(***************************************************************************)
EXTENDS HugeAlloc, Sums

CONSTANT
  Sizings  \* the ring and buffer sizes the channel may be compiled with

\* What the static assertions and the one of __init_recvs demand; that the
\* region is a multiple of the largest class is true of the sizes in use, but
\* nothing in the code demands it.
PowerOfTwo(n) == \E k \in 0 .. n : n = Power2(k)

ASSUME SizingsAssumption == \A z \in Sizings :
  /\ {z.rq, z.sq, z.mbuf} \subseteq Nat \ {0}
  /\ PowerOfTwo(z.rq) /\ PowerOfTwo(z.sq) /\ PowerOfTwo(z.mbuf)
  /\ z.rq * z.mbuf <= MaxClassSize
  /\ (2 * z.mbuf * (z.rq + z.sq)) % MaxClassSize = 0

QPs == <<"prior", "next">>
VerbsParts == {"send_cq", "recv_cq", "qp"}

VARIABLES
  sizing,   \* kRQDepth, kSQDepth and kRecvMbufSize = kSendMbufSize
  pc,       \* what allocate_channel is doing
  side,     \* the queue pair it does it for, an index of QPs
  verbs,    \* the verbs objects, apart from the protection domain
  mr,       \* the memory region is registered: its size
  rx_ring,  \* per queue pair, the addresses of the entries
  send_wr   \* the queue pairs whose work requests are linked

vars == <<sizing, pc, side, verbs, mr, rx_ring, send_wr, alloc_vars>>

RingExtentSize == sizing.rq * sizing.mbuf
MemRegionSize == 2 * (sizing.mbuf * sizing.rq + sizing.mbuf * sizing.sq)

TypeOK ==
  /\ sizing \in Sizings
  /\ pc \in {"resolve", "roce", "pd", "verbs", "raw", "register", "alloc", "split",
             "sends", "allocated", "failed", "aborted", "null"}
  /\ side \in {1, 2}
  /\ verbs \subseteq {1, 2} \X VerbsParts
  /\ mr \in Nat
  /\ rx_ring \in [{1, 2} -> Seq(0 .. MemRegionSize - sizing.mbuf)]
  /\ send_wr \subseteq {1, 2}
  /\ shm \in Seq(Nat)
  /\ freelist \in [Classes -> Seq([addr : Nat, class_size : Nat])]
  /\ \A c \in Classes : \A b \in ToSet(freelist[c]) :
       b.class_size = ClassMaxSize(c) /\ b.addr \in 0 .. MemRegionSize - b.class_size
  /\ user_alloc \in 0 .. MemRegionSize
  /\ next_class \in Classes

Init ==
  /\ sizing \in Sizings
  /\ pc = "resolve" /\ side = 1
  /\ verbs = {} /\ mr = 0
  /\ rx_ring = [q \in {1, 2} |-> <<>>]
  /\ send_wr = {}
  /\ AllocInit

----------------------------------------------------------------------------
(* The port and the verbs objects.                                         *)

\* common_resolve_phy_port throws, __roce_resolve_phy_port returns an error.
ResolvePhyPort ==
  /\ pc = "resolve"
  /\ pc' \in {"roce", "aborted"}
  /\ UNCHANGED <<sizing, side, verbs, mr, rx_ring, send_wr, alloc_vars>>

RoceResolvePhyPort ==
  /\ pc = "roce"
  /\ pc' \in {"pd", "failed"}
  /\ UNCHANGED <<sizing, side, verbs, mr, rx_ring, send_wr, alloc_vars>>

AllocPd ==
  /\ pc = "pd"
  /\ pc' \in {"verbs", "aborted"}
  /\ UNCHANGED <<sizing, side, verbs, mr, rx_ring, send_wr, alloc_vars>>

\* __create_qp: first both completion queues, then the queue pair over them.
Makes(q) ==
  CASE <<q, "send_cq">> \notin verbs -> "send_cq"
    [] <<q, "send_cq">> \in verbs /\ <<q, "recv_cq">> \notin verbs -> "recv_cq"
    [] OTHER -> "qp"

CreateQp ==
  /\ pc = "verbs" /\ <<side, "qp">> \notin verbs
  /\ \/ verbs' = verbs \cup {<<side, Makes(side)>>} /\ UNCHANGED pc
     \/ pc' = "aborted" /\ UNCHANGED verbs
  /\ UNCHANGED <<sizing, side, mr, rx_ring, send_wr, alloc_vars>>

\* After the second one __set_local_qp_info for both, which asserts that the
\* QPInfo, in memory nobody has set, is not initialised yet.
QpCreated ==
  /\ pc = "verbs" /\ <<side, "qp">> \in verbs
  /\ IF side = 1 THEN side' = 2 /\ UNCHANGED pc
                 ELSE side' = 1 /\ pc' \in {"raw", "aborted"}
  /\ UNCHANGED <<sizing, verbs, mr, rx_ring, send_wr, alloc_vars>>

----------------------------------------------------------------------------
(* __init_rings.                                                           *)

AllocRegion ==
  /\ pc = "raw"
  /\ \/ AllocRaw(MemRegionSize) /\ pc' = "register"
     \/ pc' \in {"failed", "aborted"} /\ UNCHANGED shm
  /\ UNCHANGED <<sizing, side, verbs, mr, rx_ring, send_wr, freelist, user_alloc, next_class>>

RegisterRegion ==
  /\ pc = "register"
  /\ \/ /\ pc' = "alloc" /\ mr' = MemRegionSize
        /\ AddRawBuffer(MemRegionSize)
     \/ pc' = "aborted" /\ UNCHANGED <<mr, freelist>>
  /\ UNCHANGED <<sizing, side, verbs, rx_ring, send_wr, shm, user_alloc, next_class>>

\* __init_recvs calls alloc and looks at the result only through it: a null
\* pointer is followed.
Alloc ==
  /\ pc = "alloc"
  /\ IF Exhausted(RingExtentSize)
     THEN pc' = "null" /\ UNCHANGED next_class
     ELSE pc' = "split" /\ FindClass(RingExtentSize)
  /\ UNCHANGED <<sizing, side, verbs, mr, rx_ring, send_wr, shm, freelist, user_alloc>>

SplitClass ==
  /\ pc = "split"
  /\ Split(RingExtentSize)
  /\ UNCHANGED <<sizing, pc, side, verbs, mr, rx_ring, send_wr, shm, user_alloc>>

Entries(b) == [i \in 1 .. sizing.rq |-> b.addr + (i - 1) * sizing.mbuf]

InitRecvs ==
  /\ pc = "split"
  /\ AllocFromClass(RingExtentSize)
  /\ rx_ring' = [rx_ring EXCEPT ![side] = Entries(Last(freelist[next_class]))]
  /\ pc' = "sends"
  /\ UNCHANGED <<sizing, side, verbs, mr, send_wr, shm, next_class>>

\* The rings of the next queue pair come after both of the prior one.
InitSends ==
  /\ pc = "sends"
  /\ send_wr' = send_wr \cup {side}
  /\ IF side = 1 THEN side' = 2 /\ pc' = "alloc"
                 ELSE pc' = "allocated" /\ UNCHANGED side
  /\ UNCHANGED <<sizing, verbs, mr, rx_ring, alloc_vars>>

----------------------------------------------------------------------------

Next ==
  \/ ResolvePhyPort \/ RoceResolvePhyPort \/ AllocPd \/ CreateQp \/ QpCreated
  \/ AllocRegion \/ RegisterRegion \/ Alloc \/ SplitClass \/ InitRecvs \/ InitSends

Spec == Init /\ [][Next]_vars

----------------------------------------------------------------------------
(* Properties.                                                             *)

RingEntries == {<<q, i>> : q \in {1, 2}, i \in 1 .. sizing.rq}
Filled == {e \in RingEntries : e[2] <= Len(rx_ring[e[1]])}
At(e) == Bytes(rx_ring[e[1]][e[2]], sizing.mbuf)

\* No byte belongs to two ring entries, or to an entry and a free buffer, and
\* none lies outside the registered region: the NIC writes into each entry on
\* its own (add_raw_buffer, split, alloc_from_class, __init_recvs).
BuffersAreApart ==
  /\ \A e, f \in Filled : e # f => At(e) \cap At(f) = {}
  /\ \A e \in Filled : \A b \in Free : At(e) \cap Bytes(b.addr, b.class_size) = {}
  /\ \A a, b \in Free : a # b => Bytes(a.addr, a.class_size) \cap Bytes(b.addr, b.class_size) = {}
  /\ \A e \in Filled : At(e) \subseteq 0 .. mr - 1

\* The region is enough for both rings whatever has to be split: alloc never
\* returns the null pointer that __init_recvs would follow, it serves a ring
\* from the class the reference function names, and the class below one that
\* is split is empty, as split asserts.
NeverShort ==
  /\ pc # "null"
  /\ pc = "sends" => next_class = GetClassSlow(RingExtentSize)
  /\ pc = "split" /\ next_class # GetClass(RingExtentSize) => freelist[next_class - 1] = <<>>
  /\ pc = "allocated" => Filled = RingEntries /\ send_wr = {1, 2}

\* What the buffers of the i-th class make together.
ClassBytes == [i \in 1 .. NumClasses |-> Len(freelist[i - 1]) * ClassMaxSize(i - 1)]

\* Splitting loses nothing: what is free and what was handed out make up the
\* registered region at any time (stats_, split, alloc_from_class).
NothingLost == SumTo(ClassBytes, NumClasses) + user_alloc = mr

=============================================================================
