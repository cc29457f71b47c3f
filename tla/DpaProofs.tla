----------------------------- MODULE DpaProofs -----------------------------
(***************************************************************************)
(* Theorems about DpaBlock, for rings of any depth and channels of any     *)
(* type: its state is well typed, the owner bit tells new completions from *)
(* old entries, and the pieces of the channel are made and released in     *)
(* order.                                                                  *)
(***************************************************************************)
EXTENDS DpaBlock, TLAPS, SequenceTheorems

----------------------------------------------------------------------------
(* The lists of driver calls.                                              *)

\* A short sequence of members of a set is a sequence over it.
LEMMA ShortSequences ==
  ASSUME NEW S, NEW a \in S, NEW b \in S, NEW c \in S, NEW d \in S
  PROVE  /\ <<a>> \in Seq(S) /\ <<a, b>> \in Seq(S)
         /\ <<a, b, c>> \in Seq(S) /\ <<a, b, c, d>> \in Seq(S)
OBVIOUS

\* A call is given by side, queue and part.
LEMMA CallTyped ==
  ASSUME NEW s \in Sides, NEW q \in Queues,
         NEW p \in Parts \cup {"wqes", "count", "info", "INIT", "RTR", "RTS", "fill"}
  PROVE  <<s, q, p>> \in Call
BY DEF Call

\* The calls of allocate_channel's parts are calls of some queue of some side.
LEMMA PartsTyped ==
  ASSUME NEW s \in Sides, NEW q \in Queues
  PROVE  /\ AllocateCq(s, q) \in Seq(Call)
         /\ DeallocateCq(s, q) \in Seq(Call)
         /\ WqMemory(s, q) \in Seq(Call)
         /\ QpMemory(s) \in Seq(Call)
         /\ SetLocalQpInfo(s) \in Seq(Call)
         /\ CopyMetadata(s) \in Seq(Call)
         /\ ConnectQp(s) \in Seq(Call)
<1>1. AllocateCq(s, q) \in Seq(Call)
  BY CallTyped, ShortSequences DEF AllocateCq, Parts
<1>2. DeallocateCq(s, q) \in Seq(Call)
  BY CallTyped, ShortSequences DEF DeallocateCq, Parts
<1>3. WqMemory(s, q) \in Seq(Call)
  BY CallTyped, ShortSequences DEF WqMemory, Parts
<1>4. QpMemory(s) \in Seq(Call)
  BY CallTyped, ShortSequences DEF QpMemory, Parts, Queues
<1>5. SetLocalQpInfo(s) \in Seq(Call)
  BY CallTyped, ShortSequences DEF SetLocalQpInfo, Queues
<1>6. CopyMetadata(s) \in Seq(Call)
  BY CallTyped, ShortSequences DEF CopyMetadata, Parts, Queues
<1>7. ConnectQp(s) \in Seq(Call)
  BY CallTyped, ShortSequences DEF ConnectQp, Queues
<1> QED
  BY <1>1, <1>2, <1>3, <1>4, <1>5, <1>6, <1>7

\* The same of the calls that create and destroy the queue pair of a side,
\* Ethernet or RDMA.
LEMMA QpTyped ==
  ASSUME NEW s \in Sides
  PROVE  CreateQp(s) \in Seq(Call) /\ DestroyQp(s) \in Seq(Call)
<1>1. /\ WqMemory(s, "sq") \in Seq(Call)
      /\ WqMemory(s, "rq") \in Seq(Call)
      /\ QpMemory(s) \in Seq(Call)
  BY PartsTyped DEF Queues
<1>2. /\ << <<s, "sq", "obj">>, <<s, "sq", "mkey">> >> \in Seq(Call)
      /\ << <<s, "rq", "mkey">>, <<s, "rq", "wqes">>, <<s, "rq", "obj">>,
            <<s, "rq", "count">> >> \in Seq(Call)
  BY CallTyped, ShortSequences DEF Parts, Queues
<1>3. CreateEthernetQp(s) \in Seq(Call)
  BY <1>1, <1>2 DEF CreateEthernetQp
<1>4. /\ << <<s, "qp", "dbr">> >> \in Seq(Call)
      /\ << <<s, "qp", "mkey">>, <<s, "qp", "wqes">>, <<s, "qp", "obj">> >> \in Seq(Call)
  BY CallTyped, ShortSequences DEF Parts, Queues
<1>5. CreateRdmaQp(s) \in Seq(Call)
  BY <1>1, <1>4 DEF CreateRdmaQp
<1>6. << <<s, "sq", "obj">> >> \in Seq(Call) /\ << <<s, "rq", "obj">> >> \in Seq(Call)
  BY CallTyped, ShortSequences DEF Parts, Queues
<1>7. DestroyQp(s) \in Seq(Call)
  BY <1>1, <1>6 DEF DestroyQp
<1> QED
  BY <1>3, <1>5, <1>7 DEF CreateQp

\* What is in one of two sequences is in their concatenation.
LEMMA InConcatenation ==
  ASSUME NEW S, NEW a \in Seq(S), NEW b \in Seq(S), NEW x,
         \/ \E k \in 1 .. Len(a) : a[k] = x
         \/ \E k \in 1 .. Len(b) : b[k] = x
  PROVE  \E k \in 1 .. Len(a \o b) : (a \o b)[k] = x
<1>1. CASE \E k \in 1 .. Len(a) : a[k] = x
  BY <1>1
<1>2. CASE \E k \in 1 .. Len(b) : b[k] = x
  <2>1. PICK k \in 1 .. Len(b) : b[k] = x
    BY <1>2
  <2>2. Len(a) + k \in 1 .. Len(a \o b) /\ (a \o b)[Len(a) + k] = x
    BY <2>1
  <2> QED
    BY <2>2
<1> QED
  BY <1>1, <1>2

RingCall == <<"prior", "rq_cq", "ring">>

\* allocate_channel makes driver calls only, among them the one that hands the
\* completion ring of the prior side to the hardware (__allocate_cq_memory).
LEMMA AllocateChannelCalls ==
  /\ AllocateChannel \in Seq(Call)
  /\ \E k \in 1 .. Len(AllocateChannel) : AllocateChannel[k] = RingCall
<1> DEFINE A == AllocateCq("prior", "sq_cq") \o AllocateCq("next", "sq_cq")
           B == AllocateCq("prior", "rq_cq")
           N == AllocateCq("next", "rq_cq")
           Q1 == CreateQp("prior")
           Q2 == CreateQp("next")
           I1 == SetLocalQpInfo("prior")
           I2 == SetLocalQpInfo("next")
           C1 == CopyMetadata("prior")
           C2 == CopyMetadata("next")
<1>1. /\ A \in Seq(Call) /\ B \in Seq(Call) /\ N \in Seq(Call)
      /\ Q1 \in Seq(Call) /\ Q2 \in Seq(Call)
      /\ I1 \in Seq(Call) /\ I2 \in Seq(Call)
      /\ C1 \in Seq(Call) /\ C2 \in Seq(Call)
  BY PartsTyped, QpTyped DEF Sides, Queues
<1>2. \E k \in 1 .. Len(B) : B[k] = RingCall
  <2>1. Len(B) = 3 /\ B[2] = RingCall
    BY DEF AllocateCq, RingCall
  <2> QED
    BY <2>1
<1>3. AllocateChannel = A \o B \o N \o Q1 \o Q2 \o I1 \o I2 \o C1 \o C2
  BY DEF AllocateChannel
<1> HIDE DEF A, B, N, Q1, Q2, I1, I2, C1, C2
<1> DEFINE Has(s) == s \in Seq(Call) /\ \E k \in 1 .. Len(s) : s[k] = RingCall
<1>4. ASSUME NEW s, NEW t \in Seq(Call), Has(s)
      PROVE  Has(s \o t)
  <2>1. s \o t \in Seq(Call)
    BY <1>4
  <2>2. \E k \in 1 .. Len(s \o t) : (s \o t)[k] = RingCall
    BY <1>4, InConcatenation
  <2> QED
    BY <2>1, <2>2
<1>5. ASSUME NEW s \in Seq(Call), NEW t, Has(t)
      PROVE  Has(s \o t)
  <2>1. s \o t \in Seq(Call)
    BY <1>5
  <2>2. \E k \in 1 .. Len(s \o t) : (s \o t)[k] = RingCall
    BY <1>5, InConcatenation
  <2> QED
    BY <2>1, <2>2
<1>6. Has(B)
  BY <1>1, <1>2
<1> HIDE DEF Has
<1>7. Has(A \o B \o N \o Q1)
  BY <1>1, <1>4, <1>5, <1>6
<1>8. Has(A \o B \o N \o Q1 \o Q2 \o I1 \o I2)
  BY <1>1, <1>4, <1>7
<1>9. Has(A \o B \o N \o Q1 \o Q2 \o I1 \o I2 \o C1 \o C2)
  BY <1>1, <1>4, <1>8
<1> QED
  BY <1>3, <1>9 DEF Has

\* deallocate_channel makes driver calls only.
LEMMA DeallocateChannelCalls == DeallocateChannel \in Seq(Call)
BY PartsTyped, QpTyped DEF DeallocateChannel, Sides, Queues

ConnectParts == {"INIT", "RTR", "RTS", "fill"}

\* Connecting makes the calls that bring a queue pair up, and no others.
LEMMA ConnectCalls ==
  /\ Calls \in Seq(Call)
  /\ \A k \in 1 .. Len(Calls) : Calls[k][3] \in ConnectParts
<1> DEFINE Connecting(t) == t \in Seq(Call) /\ \A k \in 1 .. Len(t) : t[k][3] \in ConnectParts
<1>1. ASSUME NEW s \in Sides
      PROVE  Connecting(ConnectQp(s))
  <2> DEFINE C == ConnectQp(s)
  <2>1. C \in Seq(Call)
    BY <1>1, PartsTyped DEF Queues
  <2>2. /\ Len(C) = 4
        /\ C[1] = <<s, "qp", "INIT">> /\ C[2] = <<s, "qp", "RTR">>
        /\ C[3] = <<s, "qp", "RTS">> /\ C[4] = <<s, "qp", "fill">>
    BY DEF ConnectQp
  <2> HIDE DEF C
  <2>3. \A k \in 1 .. 4 : C[k][3] \in ConnectParts
    BY <2>2 DEF ConnectParts
  <2> QED
    BY <2>1, <2>2, <2>3 DEF C
<1>2. Connecting(<<>>)
  OBVIOUS
<1>3. ASSUME NEW s, NEW t, Connecting(s), Connecting(t)
      PROVE  Connecting(s \o t)
  <2>1. s \o t \in Seq(Call) /\ Len(s \o t) = Len(s) + Len(t)
    BY <1>3
  <2>2. \A k \in 1 .. Len(s) : (s \o t)[k] = s[k]
    BY <1>3
  <2>3. \A k \in Len(s) + 1 .. Len(s) + Len(t) : (s \o t)[k] = t[k - Len(s)]
    BY <1>3
  <2> QED
    BY <1>3, <2>1, <2>2, <2>3
<1> HIDE DEF Connecting
<1>4. Connecting(Calls)
  BY <1>1, <1>2, <1>3 DEF Calls, Sides
<1> QED
  BY <1>4 DEF Connecting

----------------------------------------------------------------------------
(* The inductive invariant.                                                *)

\* What the next calls are: the port is known before anything is allocated,
\* and while the block is connected only queue pairs are brought up.
CallsInv ==
  /\ pc = "allocate" => port # "unknown"
  /\ pc = "connect" => \A k \in 1 .. Len(todo) : todo[k][3] \in ConnectParts

\* Up to the initialisation of the device nothing has been completed, and its
\* ring belongs to the hardware or is yet to be handed over.
Preparing == {"process", "handler", "resolve", "allocate", "init"}

PreparedInv ==
  /\ pc \in Preparing => produced["prior"] = 0 /\ ~ctx.init
  /\ pc = "allocate" =>
       \/ owner["prior"] = HardwareOwned
       \/ \E k \in 1 .. Len(todo) : todo[k] = RingCall
  /\ pc = "init" => owner["prior"] = HardwareOwned

\* From then on the entries that are completed are those with the bit 0, the
\* handler is not ahead of the NIC, and its bit is flipped once it is around.
InStep ==
  /\ \A i \in Slots : owner["prior"][i] = IF i < produced["prior"] THEN 0 ELSE 1
  /\ ctx.idx <= produced["prior"]
  /\ ctx.bit = IF ctx.idx = RqDepth THEN 0 ELSE 1

DeviceInv ==
  /\ ctx.init => InStep
  /\ handler # "asleep" => ctx.init

IInv == TypeOK /\ CallsInv /\ PreparedInv /\ DeviceInv

\* In step, the owner bit tells what is new: at the last index, the handler
\* looks at the first entry, which was completed in the lap before.
LEMMA InStepTells ==
  ASSUME TypeOK, DeviceInv
  PROVE  OwnerBitTells
<1> SUFFICES ASSUME ctx.init
             PROVE  NewCqe <=> ctx.idx < produced["prior"]
  BY DEF OwnerBitTells
<1>1. /\ RqDepth \in Nat \ {0} /\ CqDepth \in Nat /\ RqDepth <= CqDepth
      /\ ctx.idx \in 0 .. RqDepth /\ produced["prior"] \in 0 .. RqDepth
  BY DepthAssumption DEF TypeOK, DevTypeOK, Sides
<1>2. InStep
  BY DEF DeviceInv
<1>3. CASE ctx.idx < RqDepth
  <2>1. ctx.idx % RqDepth = ctx.idx /\ ctx.idx \in Slots
    BY <1>1, <1>3 DEF Slots
  <2> QED
    BY <1>1, <1>2, <1>3, <2>1 DEF InStep, NewCqe
<1>4. CASE ctx.idx = RqDepth
  <2>1. ctx.idx % RqDepth = 0 /\ 0 \in Slots
    BY <1>1, <1>4 DEF Slots
  <2> QED
    BY <1>1, <1>2, <1>4, <2>1 DEF InStep, NewCqe
<1> QED
  BY <1>1, <1>3, <1>4

\* The initial state.
LEMMA InitIInv == Init => IInv
<1> SUFFICES ASSUME Init
             PROVE  IInv
  OBVIOUS
<1>1. DevTypeOK
  <2>1. produced \in [Sides -> 0 .. RqDepth]
    BY DepthAssumption DEF Init, DevInit
  <2>2. owner \in [Sides -> [Slots -> {0, 1}]]
    BY DEF Init, DevInit
  <2>3. ctx \in [init : BOOLEAN, idx : 0 .. RqDepth, bit : {0, 1}]
    BY DepthAssumption DEF Init, DevInit
  <2> QED
    BY <2>1, <2>2, <2>3 DEF Init, DevInit, DevTypeOK
<1>2. TypeOK
  BY <1>1 DEF Init, TypeOK, Doing
<1>3. CallsInv /\ PreparedInv /\ DeviceInv
  BY DEF Init, DevInit, CallsInv, PreparedInv, DeviceInv, Preparing, Sides
<1> QED
  BY <1>2, <1>3 DEF IInv

\* The first call, and what is left after it, of a list of calls.
LEMMA HeadAndTail ==
  ASSUME todo \in Seq(Call), todo # <<>>
  PROVE  /\ Step \in Call
         /\ Step[1] \in Sides /\ Step[2] \in Queues
         /\ Step = todo[1]
         /\ Tail(todo) \in Seq(Call)
         /\ Len(Tail(todo)) = Len(todo) - 1
         /\ \A k \in 1 .. Len(Tail(todo)) : Tail(todo)[k] = todo[k + 1]
<1>1. /\ Step \in Call
      /\ Step = todo[1]
      /\ Tail(todo) \in Seq(Call)
      /\ Len(Tail(todo)) = Len(todo) - 1
      /\ \A k \in 1 .. Len(Tail(todo)) : Tail(todo)[k] = todo[k + 1]
  BY DEF Step
<1>2. Step[1] \in Sides /\ Step[2] \in Queues
  BY <1>1 DEF Call
<1> QED
  BY <1>1, <1>2

\* Every action of the host that leaves the device and the list of calls to
\* allocate or connect alone keeps the invariant.
LEMMA HostQuietKeeps ==
  ASSUME IInv,
         \/ CreateProcess \/ CreateEventHandler \/ AbandonChannel \/ Unregister
         \/ Release \/ ReleaseSkipped \/ ReleaseFails \/ ChannelReleased
         \/ DestroyProcess \/ Connected \/ AddRule \/ RunBlock
         \/ AllocationFails \/ ConnectToNeighbour
  PROVE  IInv'
<1> USE DEF IInv
<1>0. /\ DevTypeOK' /\ UNCHANGED dev_vars /\ pc \notin {"resolve", "init"}
      /\ UNCHANGED <<types, links, port, copied, info>>
  BY DEF TypeOK, dev_vars, chan_vars, DevTypeOK, CreateProcess, CreateEventHandler,
         AbandonChannel, Unregister, Release, ReleaseSkipped, ReleaseFails,
         ChannelReleased, DestroyProcess, Connected, AddRule, RunBlock,
         AllocationFails, ConnectToNeighbour
<1>1. CASE CreateProcess
  <2>1. TypeOK'
    BY <1>0, <1>1 DEF TypeOK, CreateProcess, chan_vars, conn_vars, Doing, Done
  <2>2. CallsInv' /\ PreparedInv' /\ DeviceInv'
    BY <1>0, <1>1
       DEF CreateProcess, dev_vars, chan_vars, CallsInv, PreparedInv, DeviceInv,
           InStep, Preparing
  <2> QED
    BY <2>1, <2>2
<1>2. CASE CreateEventHandler
  <2>1. TypeOK'
    BY <1>0, <1>2 DEF TypeOK, CreateEventHandler, chan_vars, conn_vars, Doing, Done
  <2>2. CallsInv' /\ PreparedInv' /\ DeviceInv'
    BY <1>0, <1>2
       DEF CreateEventHandler, dev_vars, chan_vars, CallsInv, PreparedInv, DeviceInv,
           InStep, Preparing
  <2> QED
    BY <2>1, <2>2
<1>3. CASE AbandonChannel
  <2>1. TypeOK'
    BY <1>0, <1>3 DEF TypeOK, AbandonChannel, chan_vars, conn_vars, Doing, Done
  <2>2. CallsInv' /\ PreparedInv' /\ DeviceInv'
    BY <1>0, <1>3
       DEF AbandonChannel, dev_vars, chan_vars, CallsInv, PreparedInv, DeviceInv,
           InStep, Preparing
  <2> QED
    BY <2>1, <2>2
<1>4. CASE Unregister
  <2>1. TypeOK'
    BY <1>0, <1>4, DeallocateChannelCalls
       DEF TypeOK, Unregister, chan_vars, conn_vars, Doing, Done
  <2>2. CallsInv' /\ PreparedInv' /\ DeviceInv'
    BY <1>0, <1>4
       DEF Unregister, dev_vars, chan_vars, CallsInv, PreparedInv, DeviceInv, InStep,
           Preparing
  <2> QED
    BY <2>1, <2>2
<1>5. CASE Release
  <2>1. TypeOK'
    BY <1>0, <1>5, HeadAndTail DEF TypeOK, Release, chan_vars, conn_vars, Doing, Done
  <2>2. CallsInv' /\ PreparedInv' /\ DeviceInv'
    BY <1>0, <1>5
       DEF Release, dev_vars, chan_vars, CallsInv, PreparedInv, DeviceInv, InStep,
           Preparing
  <2> QED
    BY <2>1, <2>2
<1>6. CASE ReleaseSkipped
  <2>1. TypeOK'
    BY <1>0, <1>6, HeadAndTail DEF TypeOK, ReleaseSkipped, chan_vars, conn_vars, Doing, Done
  <2>2. CallsInv' /\ PreparedInv' /\ DeviceInv'
    BY <1>0, <1>6
       DEF ReleaseSkipped, dev_vars, chan_vars, CallsInv, PreparedInv, DeviceInv,
           InStep, Preparing
  <2> QED
    BY <2>1, <2>2
<1>7. CASE ReleaseFails
  <2>1. TypeOK'
    BY <1>0, <1>7 DEF TypeOK, ReleaseFails, chan_vars, conn_vars, Doing, Done
  <2>2. CallsInv' /\ PreparedInv' /\ DeviceInv'
    BY <1>0, <1>7
       DEF ReleaseFails, dev_vars, chan_vars, CallsInv, PreparedInv, DeviceInv, InStep,
           Preparing
  <2> QED
    BY <2>1, <2>2
<1>8. CASE ChannelReleased
  <2>1. TypeOK'
    BY <1>0, <1>8 DEF TypeOK, ChannelReleased, chan_vars, conn_vars, Doing, Done
  <2>2. CallsInv' /\ PreparedInv' /\ DeviceInv'
    BY <1>0, <1>8
       DEF ChannelReleased, dev_vars, chan_vars, CallsInv, PreparedInv, DeviceInv,
           InStep, Preparing
  <2> QED
    BY <2>1, <2>2
<1>9. CASE DestroyProcess
  <2>1. TypeOK'
    BY <1>0, <1>9 DEF TypeOK, DestroyProcess, chan_vars, conn_vars, Doing, Done
  <2>2. CallsInv' /\ PreparedInv' /\ DeviceInv'
    BY <1>0, <1>9
       DEF DestroyProcess, dev_vars, chan_vars, CallsInv, PreparedInv, DeviceInv,
           InStep, Preparing
  <2> QED
    BY <2>1, <2>2
<1>10. CASE Connected
  <2>1. TypeOK'
    BY <1>0, <1>10 DEF TypeOK, Connected, chan_vars, conn_vars, Doing, Done
  <2>2. CallsInv' /\ PreparedInv' /\ DeviceInv'
    BY <1>0, <1>10
       DEF Connected, dev_vars, chan_vars, CallsInv, PreparedInv, DeviceInv, InStep,
           Preparing
  <2> QED
    BY <2>1, <2>2
<1>11. CASE AddRule
  <2>1. PICK n \in 0 .. Len(RuleOrder) :
          LET made == {RuleOrder[i] : i \in 1 .. n}
          IN rule' = IF n = Len(RuleOrder) THEN made ELSE made \ UndoneAfter(n)
    BY <1>11 DEF AddRule
  <2>2. Len(RuleOrder) = 5
    BY DEF RuleOrder
  <2>3. rule' \subseteq {RuleOrder[i] : i \in 1 .. n}
    BY <2>1
  <2>4. \A i \in 1 .. n : RuleOrder[i] \in RuleParts
    <3>1. n \in 0 .. 5
      BY <2>2
    <3>2. \A i \in 1 .. 5 : RuleOrder[i] \in RuleParts
      BY DEF RuleOrder, RuleParts
    <3> QED
      BY <3>1, <3>2
  <2>5. rule' \subseteq RuleParts
    BY <2>3, <2>4
  <2>6. TypeOK'
    BY <1>0, <1>11, <2>5 DEF TypeOK, AddRule, chan_vars, conn_vars, Doing, Done
  <2>7. CallsInv' /\ PreparedInv' /\ DeviceInv'
    BY <1>0, <1>11
       DEF AddRule, dev_vars, chan_vars, CallsInv, PreparedInv, DeviceInv, InStep,
           Preparing
  <2> QED
    BY <2>6, <2>7
<1>12. CASE RunBlock
  <2>1. TypeOK'
    BY <1>0, <1>12 DEF TypeOK, RunBlock, chan_vars, conn_vars, Doing, Done
  <2>2. CallsInv' /\ PreparedInv' /\ DeviceInv'
    BY <1>0, <1>12
       DEF RunBlock, dev_vars, chan_vars, CallsInv, PreparedInv, DeviceInv, InStep,
           Preparing
  <2> QED
    BY <2>1, <2>2
<1>13. CASE AllocationFails
  <2>1. TypeOK'
    BY <1>0, <1>13 DEF TypeOK, AllocationFails, chan_vars, conn_vars, Doing, Done
  <2>2. CallsInv' /\ PreparedInv' /\ DeviceInv'
    BY <1>0, <1>13
       DEF AllocationFails, dev_vars, chan_vars, CallsInv, PreparedInv, DeviceInv,
           InStep, Preparing
  <2> QED
    BY <2>1, <2>2
<1>14. CASE ConnectToNeighbour
  <2>1. TypeOK'
    BY <1>0, <1>14, ConnectCalls
       DEF TypeOK, ConnectToNeighbour, chan_vars, conn_vars, Doing, Done
  <2>2. CallsInv' /\ PreparedInv' /\ DeviceInv'
    BY <1>0, <1>14, ConnectCalls
       DEF ConnectToNeighbour, dev_vars, chan_vars, CallsInv, PreparedInv, DeviceInv,
           InStep, Preparing
  <2> QED
    BY <2>1, <2>2
<1> QED
  BY <1>1, <1>2, <1>3, <1>4, <1>5, <1>6, <1>7, <1>8, <1>9, <1>10, <1>11, <1>12, <1>13, <1>14

----------------------------------------------------------------------------
(* The actions that allocate, initialise and connect.                      *)

\* Resolving the port sets up the list of calls of allocate_channel.
LEMMA ResolvePortKeeps == IInv /\ ResolvePort => IInv'
<1> SUFFICES ASSUME IInv, ResolvePort
             PROVE  IInv'
  OBVIOUS
<1> USE DEF IInv
<1>1. DevTypeOK'
  BY DEF TypeOK, DevTypeOK, ResolvePort, dev_vars
<1>2. TypeOK'
  BY <1>1, AllocateChannelCalls DEF TypeOK, ResolvePort, conn_vars, Doing, Done
<1>3. CallsInv' /\ DeviceInv'
  BY DEF ResolvePort, dev_vars, CallsInv, DeviceInv, InStep
<1>4. PreparedInv'
  BY AllocateChannelCalls DEF ResolvePort, dev_vars, PreparedInv, Preparing
<1> QED
  BY <1>2, <1>3, <1>4

\* A call of allocate_channel: the one that makes the completion ring of the
\* prior side hands it to the hardware.
LEMMA AllocatedKeeps == IInv /\ Allocated => IInv'
<1> SUFFICES ASSUME IInv, Allocated
             PROVE  IInv'
  OBVIOUS
<1> USE DEF IInv
<1>0. /\ pc = "allocate" /\ todo # <<>> /\ todo \in Seq(Call)
      /\ UNCHANGED <<types, links, pc, process, port, qp, connected, rule,
                     produced, wake, ctx, handler>>
      /\ todo' = Tail(todo)
  BY DEF Allocated, TypeOK
<1>1. /\ Step \in Call
      /\ Step[1] \in Sides /\ Step[2] \in Queues
      /\ Step = todo[1]
      /\ Tail(todo) \in Seq(Call)
      /\ Len(Tail(todo)) = Len(todo) - 1
      /\ \A k \in 1 .. Len(Tail(todo)) : Tail(todo)[k] = todo[k + 1]
  BY <1>0, HeadAndTail
<1>2. owner' \in [Sides -> [Slots -> {0, 1}]]
  <2>1. HardwareOwned \in [Slots -> {0, 1}]
    BY DEF HardwareOwned
  <2> QED
    BY <1>1, <2>1 DEF Allocated, RingSet, TypeOK, DevTypeOK
<1>3. DevTypeOK'
  BY <1>0, <1>1, <1>2 DEF Allocated, TypeOK, DevTypeOK
<1>4. IsPiece(Step) => Step \in Pieces
  BY <1>1 DEF IsPiece, Pieces, Call
<1>5. live' \subseteq Pieces /\ held' \subseteq Pieces
  BY <1>4 DEF Allocated, TypeOK
<1>6. copied' \in [Sides -> SUBSET Pieces]
  BY <1>1 DEF Allocated, TypeOK
<1>7. info' \in [Sides -> {"none", "partial", "resolved"}]
  BY <1>0, <1>1 DEF Allocated, TypeOK, CallsInv
<1>8. filled' \subseteq Sides
  BY <1>1 DEF Allocated, TypeOK
<1>9. TypeOK'
  BY <1>0, <1>1, <1>3, <1>5, <1>6, <1>7, <1>8 DEF TypeOK
<1>10. CallsInv'
  BY <1>0 DEF CallsInv
<1>11. ~ctx.init /\ produced["prior"] = 0
  BY <1>0 DEF PreparedInv, Preparing
<1>12. DeviceInv'
  BY <1>0, <1>11 DEF DeviceInv
<1>13. CASE Step = RingCall
  <2>1. owner'["prior"] = HardwareOwned
    BY <1>13 DEF Allocated, RingSet, RingCall, TypeOK, DevTypeOK, Sides
  <2> QED
    BY <1>0, <1>9, <1>10, <1>11, <1>12, <2>1 DEF PreparedInv
<1>14. CASE Step # RingCall
  <2>1. owner'["prior"] = HardwareOwned \/ owner'["prior"] = owner["prior"]
    BY DEF Allocated, RingSet, TypeOK, DevTypeOK, Sides
  <2>2. ASSUME NEW k \in 1 .. Len(todo), todo[k] = RingCall
        PROVE  \E j \in 1 .. Len(Tail(todo)) : Tail(todo)[j] = RingCall
    <3>1. k # 1
      BY <1>1, <1>14, <2>2
    <3>2. k - 1 \in 1 .. Len(Tail(todo))
      BY <1>0, <1>1, <3>1
    <3>3. Tail(todo)[k - 1] = RingCall
      BY <1>1, <2>2, <3>2
    <3> QED
      BY <3>2, <3>3
  <2>3. \/ owner'["prior"] = HardwareOwned
        \/ \E k \in 1 .. Len(todo') : todo'[k] = RingCall
    BY <1>0, <2>1, <2>2 DEF PreparedInv
  <2>4. PreparedInv'
    BY <1>0, <1>11, <2>3 DEF PreparedInv
  <2> QED
    BY <1>9, <1>10, <1>12, <2>4
<1> QED
  BY <1>13, <1>14

\* Once the list is empty, the ring has been handed over.
LEMMA ChannelAllocatedKeeps == IInv /\ ChannelAllocated => IInv'
<1> SUFFICES ASSUME IInv, ChannelAllocated
             PROVE  IInv'
  OBVIOUS
<1> USE DEF IInv
<1>1. DevTypeOK'
  BY DEF TypeOK, DevTypeOK, ChannelAllocated, dev_vars
<1>2. TypeOK'
  BY <1>1 DEF TypeOK, ChannelAllocated, chan_vars, conn_vars, Doing
<1>3. owner["prior"] = HardwareOwned
  BY DEF ChannelAllocated, PreparedInv
<1>4. CallsInv' /\ PreparedInv' /\ DeviceInv'
  BY <1>3
     DEF ChannelAllocated, dev_vars, CallsInv, PreparedInv, DeviceInv, InStep,
         Preparing
<1> QED
  BY <1>2, <1>4

\* dpa_device_init starts at index 0 with the bit of the hardware.
LEMMA InitDeviceKeeps == IInv /\ InitDevice => IInv'
<1> SUFFICES ASSUME IInv, InitDevice
             PROVE  IInv'
  OBVIOUS
<1> USE DEF IInv
<1>1. /\ pc = "init" /\ pc' \in {"registered", "failed"}
      /\ UNCHANGED <<types, links, todo, process, chan_vars, conn_vars,
                     produced, owner, armed, wake, handler>>
      /\ ctx' = InitCq \/ ctx' = ctx
  BY DEF InitDevice
<1>2. InitCq \in [init : BOOLEAN, idx : 0 .. RqDepth, bit : {0, 1}]
  BY DepthAssumption DEF InitCq
<1>3. DevTypeOK'
  BY <1>1, <1>2 DEF TypeOK, DevTypeOK
<1>4. TypeOK'
  BY <1>1, <1>3 DEF TypeOK, chan_vars, conn_vars, Doing, Done
<1>5. CallsInv' /\ PreparedInv'
  BY <1>1 DEF CallsInv, PreparedInv, Preparing
<1>6. produced["prior"] = 0 /\ ~ctx.init /\ owner["prior"] = HardwareOwned
  BY <1>1 DEF PreparedInv, Preparing
<1>7. DeviceInv'
  <2>1. CASE ctx' = InitCq
    <3>1. ctx'.init /\ ctx'.idx = 0 /\ ctx'.bit = 1
      BY <2>1 DEF InitCq
    <3>2. \A i \in Slots : owner["prior"][i] = 1 /\ ~(i < 0)
      BY <1>6, DepthAssumption DEF HardwareOwned, Slots
    <3>3. InStep'
      BY <1>1, <1>6, <3>1, <3>2, DepthAssumption DEF InStep
    <3> QED
      BY <3>1, <3>3 DEF DeviceInv
  <2>2. CASE ctx' = ctx
    BY <1>1, <1>6, <2>2 DEF DeviceInv
  <2> QED
    BY <1>1, <2>1, <2>2
<1> QED
  BY <1>4, <1>5, <1>7

\* A call of connect_qp.
LEMMA ConnectStepKeeps == IInv /\ ConnectStep => IInv'
<1> SUFFICES ASSUME IInv, ConnectStep
             PROVE  IInv'
  OBVIOUS
<1> USE DEF IInv
<1>0. /\ pc = "connect" /\ todo # <<>> /\ todo \in Seq(Call)
      /\ UNCHANGED <<types, links, process, port, live, held, copied, info, rule,
                     produced, owner, armed, wake, ctx, handler>>
      /\ pc' \in {"connect", "not_connected", "undefined"}
      /\ todo' = Tail(todo) \/ todo' = <<>>
  BY DEF ConnectStep, TypeOK, chan_vars, dev_vars
<1>1. /\ Step \in Call
      /\ Step[1] \in Sides
      /\ Step = todo[1]
      /\ Tail(todo) \in Seq(Call)
      /\ Len(Tail(todo)) = Len(todo) - 1
      /\ \A k \in 1 .. Len(Tail(todo)) : Tail(todo)[k] = todo[k + 1]
  BY <1>0, HeadAndTail
<1>2. \A k \in 1 .. Len(todo) : todo[k][3] \in ConnectParts
  BY <1>0 DEF CallsInv
<1>3. Step[3] \in ConnectParts
  BY <1>0, <1>1, <1>2
<1>4. \A k \in 1 .. Len(todo') : todo'[k][3] \in ConnectParts
  BY <1>0, <1>1, <1>2
<1>5. qp' \in [Sides -> {"RESET", "INIT", "RTR", "RTS"}]
  BY <1>1, <1>3 DEF ConnectStep, ConnectParts, TypeOK
<1>6. filled' \subseteq Sides /\ connected' \subseteq Sides
  BY <1>1 DEF ConnectStep, TypeOK
<1>7. DevTypeOK'
  BY <1>0 DEF TypeOK, DevTypeOK
<1>8. todo' \in Seq(Call) /\ pc' \in Doing \cup Done
  <2>1. <<>> \in Seq(Call)
    OBVIOUS
  <2> QED
    BY <1>0, <1>1, <2>1 DEF Doing, Done
<1>9. TypeOK'
  BY <1>0, <1>5, <1>6, <1>7, <1>8 DEF TypeOK
<1>10. CallsInv' /\ PreparedInv' /\ DeviceInv'
  BY <1>0, <1>4 DEF CallsInv, PreparedInv, DeviceInv, InStep, Preparing
<1> QED
  BY <1>9, <1>10

----------------------------------------------------------------------------
(* The NIC and the event handler.                                          *)

\* A completion of the prior side turns one more entry over; it comes after
\* the device was initialised, or the handler never looks at it.
LEMMA NicKeeps == IInv /\ Nic => IInv'
<1> SUFFICES ASSUME IInv, Nic
             PROVE  IInv'
  OBVIOUS
<1> USE DEF IInv
<1>0. /\ UNCHANGED <<types, links, host_vars, ctx, handler>>
      /\ pc \in {"steer", "start", "running", "not_started"}
  BY DEF Nic, Complete
<1>1. PICK s \in Sides : Complete(s)
  BY DEF Nic
<1>2. /\ RqDepth \in Nat \ {0} /\ CqDepth \in Nat /\ RqDepth <= CqDepth
      /\ produced \in [Sides -> 0 .. RqDepth] /\ produced[s] < RqDepth
      /\ owner \in [Sides -> [Slots -> {0, 1}]]
      /\ "prior" \in Sides
  BY <1>1, DepthAssumption DEF TypeOK, DevTypeOK, Complete, Sides
<1> DEFINE n == produced[s]
<1>3. n \in Nat /\ n < CqDepth /\ n \in Slots
  BY <1>2 DEF Slots
<1> HIDE DEF n
<1>4. n % CqDepth = n /\ OwnerBit(n) = 0
  <2>1. n % CqDepth = n /\ n \div CqDepth = 0
    BY <1>2, <1>3
  <2> QED
    BY <2>1 DEF OwnerBit
<1>5. /\ owner' = [owner EXCEPT ![s][n] = 0]
      /\ produced' = [produced EXCEPT ![s] = n + 1]
  BY <1>1, <1>4 DEF Complete, n
<1>6. owner' \in [Sides -> [Slots -> {0, 1}]]
  BY <1>2, <1>3, <1>5
<1>7. produced' \in [Sides -> 0 .. RqDepth]
  BY <1>2, <1>3, <1>5 DEF n
<1>8. DevTypeOK'
  BY <1>0, <1>1, <1>6, <1>7 DEF TypeOK, DevTypeOK, Complete
<1>9. TypeOK'
  BY <1>0, <1>8 DEF TypeOK, host_vars, chan_vars, conn_vars
<1>10. CallsInv' /\ PreparedInv'
  BY <1>0 DEF host_vars, chan_vars, CallsInv, PreparedInv, Preparing
<1>11. DeviceInv'
  <2> SUFFICES ASSUME ctx.init
               PROVE  InStep'
    BY <1>0 DEF DeviceInv
  <2>1. InStep
    BY DEF DeviceInv
  <2>2. CASE s = "prior"
    <3>1. produced'["prior"] = n + 1 /\ produced["prior"] = n
      BY <1>2, <1>5, <2>2 DEF n
    <3>2. \A i \in Slots : owner'["prior"][i] = IF i = n THEN 0 ELSE owner["prior"][i]
      BY <1>2, <1>3, <1>5, <2>2
    <3>3. \A i \in Slots : owner'["prior"][i] = IF i < n + 1 THEN 0 ELSE 1
      BY <1>2, <1>3, <2>1, <3>1, <3>2 DEF InStep, Slots
    <3>4. ctx.idx <= n + 1
      BY <1>3, <2>1, <3>1 DEF InStep, TypeOK, DevTypeOK
    <3> QED
      BY <1>0, <2>1, <3>1, <3>3, <3>4 DEF InStep
  <2>3. CASE s # "prior"
    <3>1. produced'["prior"] = produced["prior"] /\ owner'["prior"] = owner["prior"]
      BY <1>2, <1>5, <2>3
    <3> QED
      BY <1>0, <2>1, <3>1 DEF InStep
  <2> QED
    BY <2>2, <2>3
<1> QED
  BY <1>9, <1>10, <1>11

\* A step of dpa_event_handler: it goes on by one entry only where the NIC has
\* been, and flips its bit at the end of the ring.
LEMMA DeviceKeeps == IInv /\ Device => IInv'
<1> SUFFICES ASSUME IInv, Device
             PROVE  IInv'
  OBVIOUS
<1> USE DEF IInv
<1>0. UNCHANGED <<types, links, host_vars>> /\ pc = "running" /\ Handler
  BY DEF Device
<1>1. CallsInv' /\ PreparedInv'
  BY <1>0 DEF host_vars, chan_vars, CallsInv, PreparedInv, Preparing
<1>2. ASSUME DevTypeOK'
      PROVE  TypeOK'
  BY <1>0, <1>2 DEF TypeOK, host_vars, chan_vars, conn_vars
<1>3. CASE Enter
  <2>1. DevTypeOK'
    BY <1>3 DEF Enter, TypeOK, DevTypeOK
  <2>2. DeviceInv'
    BY <1>3 DEF Enter, DeviceInv, InStep
  <2> QED
    BY <1>1, <1>2, <2>1, <2>2
<1>4. CASE StepCq
  <2>1. /\ RqDepth \in Nat \ {0}
        /\ ctx \in [init : BOOLEAN, idx : 0 .. RqDepth, bit : {0, 1}]
        /\ produced["prior"] \in 0 .. RqDepth
    BY DepthAssumption DEF TypeOK, DevTypeOK, Sides
  <2>2. ctx.init /\ InStep
    BY <1>4 DEF StepCq, DeviceInv
  <2>3. ctx.idx < produced["prior"]
    BY <1>4, <2>2, InStepTells DEF StepCq, OwnerBitTells
  <2>4. ctx.idx \in Nat /\ ctx.idx < RqDepth /\ ctx.bit = 1
    BY <2>1, <2>2, <2>3 DEF InStep
  <2>5. ((ctx.idx + 1) % RqDepth = 0) <=> (ctx.idx + 1 = RqDepth)
    <3>1. CASE ctx.idx + 1 = RqDepth
      BY <2>1, <3>1
    <3>2. CASE ctx.idx + 1 < RqDepth
      BY <2>1, <2>4, <3>2
    <3> QED
      BY <2>1, <2>4, <3>1, <3>2
  <2>6. /\ ctx'.init = ctx.init
        /\ ctx'.idx = ctx.idx + 1
        /\ ctx'.bit = IF ctx.idx + 1 = RqDepth THEN 0 ELSE 1
        /\ ctx' \in [init : BOOLEAN, idx : 0 .. RqDepth, bit : {0, 1}]
    <3> DEFINE flipped == IF ctx.idx + 1 = RqDepth THEN 0 ELSE 1
    <3>1. ctx' = [ctx EXCEPT !.idx = ctx.idx + 1, !.bit = flipped]
      <4>1. ctx' = Stepped(ctx)
        BY <1>4 DEF StepCq
      <4>2. flipped = IF (ctx.idx + 1) % RqDepth = 0 THEN 1 - ctx.bit ELSE ctx.bit
        BY <2>4, <2>5
      <4> QED
        BY <4>1, <4>2, <2>1, Zenon DEF Stepped
    <3>2. ctx.idx + 1 \in 0 .. RqDepth /\ flipped \in {0, 1}
      BY <2>1, <2>4
    <3> HIDE DEF flipped
    <3>3. /\ ctx'.init = ctx.init /\ ctx'.idx = ctx.idx + 1 /\ ctx'.bit = flipped
          /\ ctx' \in [init : BOOLEAN, idx : 0 .. RqDepth, bit : {0, 1}]
      BY <2>1, <3>1, <3>2
    <3> QED
      BY <3>3 DEF flipped
  <2>7. DevTypeOK'
    BY <1>4, <2>6 DEF StepCq, TypeOK, DevTypeOK
  <2>8. DeviceInv'
    BY <1>4, <2>1, <2>2, <2>3, <2>4, <2>6 DEF StepCq, DeviceInv, InStep
  <2> QED
    BY <1>1, <1>2, <2>7, <2>8
<1>5. CASE Drained
  <2>1. DevTypeOK'
    BY <1>5 DEF Drained, TypeOK, DevTypeOK
  <2>2. DeviceInv'
    BY <1>5 DEF Drained, DeviceInv, InStep
  <2> QED
    BY <1>1, <1>2, <2>1, <2>2
<1>6. CASE ArmCq
  <2>1. DevTypeOK'
    BY <1>6 DEF ArmCq, Rearmed, TypeOK, DevTypeOK, Sides
  <2>2. DeviceInv'
    BY <1>6 DEF ArmCq, DeviceInv, InStep
  <2> QED
    BY <1>1, <1>2, <2>1, <2>2
<1> QED
  BY <1>0, <1>3, <1>4, <1>5, <1>6 DEF Handler

----------------------------------------------------------------------------
(* The theorems.                                                           *)

\* Every step keeps the invariant.
LEMMA NextKeeps == IInv /\ [Next]_vars => IInv'
<1> SUFFICES ASSUME IInv, [Next]_vars
             PROVE  IInv'
  OBVIOUS
<1>1. CASE Host
  BY <1>1, HostQuietKeeps, ResolvePortKeeps, AllocatedKeeps, ChannelAllocatedKeeps,
     InitDeviceKeeps, ConnectStepKeeps DEF Host
<1>2. CASE Nic
  BY <1>2, NicKeeps
<1>3. CASE Device
  BY <1>3, DeviceKeeps
<1>4. CASE UNCHANGED vars
  BY <1>4 DEF IInv, TypeOK, DevTypeOK, CallsInv, PreparedInv, DeviceInv, InStep, Preparing,
              vars, host_vars, dev_vars, chan_vars, conn_vars
<1> QED
  BY <1>1, <1>2, <1>3, <1>4 DEF Next

\* The invariant holds throughout.
LEMMA Invariance == Spec => []IInv
BY InitIInv, NextKeeps, PTL DEF Spec

\* The state of a DPA block is well typed for rings of any depth and whatever
\* the driver refuses. Of the device side this says that the event handler
\* never counts more completions than there are receive buffers.
THEOREM DpaTypeCorrect == Spec => []TypeOK
<1>1. IInv => TypeOK
  BY DEF IInv
<1> QED
  BY <1>1, Invariance, PTL

\* For rings of any depth, and however the NIC's completions fall next to the
\* steps of the event handler, the owner bit of the entry it looks at is new
\* exactly when the NIC has completed the entry and the handler has not yet
\* counted it (step_cq, init_cq, __allocate_cq_memory).
THEOREM OwnerBitAlwaysTells == Spec => []OwnerBitTells
<1>1. IInv => OwnerBitTells
  BY InStepTells DEF IInv
<1> QED
  BY <1>1, Invariance, PTL

\* Wherever adding the steering rule of an Ethernet side fails, the exit labels
\* of __add_control_plane_rule take back all that was made: packets are steered
\* by a complete rule or not at all.
THEOREM RuleAlwaysWholeOrNone == Spec => []RuleWholeOrNone
<1>1. Init => RuleWholeOrNone
  BY DEF Init, RuleWholeOrNone
<1>2. RuleWholeOrNone /\ [Next]_vars => RuleWholeOrNone'
  <2> SUFFICES ASSUME RuleWholeOrNone, [Next]_vars
               PROVE  RuleWholeOrNone'
    OBVIOUS
  <2>1. CASE AddRule
    <3>1. PICK n \in 0 .. Len(RuleOrder) :
            rule' = IF n = Len(RuleOrder) THEN {RuleOrder[i] : i \in 1 .. n}
                    ELSE {RuleOrder[i] : i \in 1 .. n} \ UndoneAfter(n)
      BY <2>1 DEF AddRule
    <3>2. /\ Len(RuleOrder) = 5
          /\ RuleOrder[1] = "table" /\ RuleOrder[2] = "matcher" /\ RuleOrder[3] = "rule"
          /\ RuleOrder[4] = "action" /\ RuleOrder[5] = "dr_rule"
      BY DEF RuleOrder
    <3>3. CASE n = 5
      <4>1. {RuleOrder[i] : i \in 1 .. 5} = RuleParts
        BY <3>2 DEF RuleParts
      <4> QED
        BY <3>1, <3>2, <3>3, <4>1 DEF RuleWholeOrNone
    <3>4. CASE n \in 0 .. 4
      <4>1. \A i \in 1 .. n : RuleOrder[i] \in UndoneAfter(n)
        BY <3>2, <3>4 DEF UndoneAfter
      <4> QED
        BY <3>1, <3>2, <3>4, <4>1 DEF RuleWholeOrNone
    <3> QED
      BY <3>2, <3>3, <3>4
  <2>2. CASE ~AddRule
    <3>1. UNCHANGED rule
      BY <2>2 DEF Next, Host, Nic, Device, vars, host_vars, conn_vars, CreateProcess,
         CreateEventHandler, ResolvePort, Allocated, AllocationFails, AbandonChannel,
         ChannelAllocated, InitDevice, Unregister, Release, ReleaseSkipped, ReleaseFails,
         ChannelReleased, DestroyProcess, ConnectToNeighbour, ConnectStep, Connected, RunBlock
    <3> QED
      BY <3>1 DEF RuleWholeOrNone
  <2> QED
    BY <2>1, <2>2
<1> QED
  BY <1>1, <1>2, PTL DEF Spec

----------------------------------------------------------------------------
(* The pieces of a channel on the device: each is released at most once    *)
(* and finds what it was created from, the copies of the metadata are      *)
(* complete when the device reads them, and deallocating the channel       *)
(* leaves nothing behind but what it never touches. All of it rests on the *)
(* order of the driver calls in allocate_channel and deallocate_channel,   *)
(* and on which of them may come twice.                                    *)

Members(s) == {s[k] : k \in 1 .. Len(s)}
Before(s, k) == {s[j] : j \in 1 .. k - 1}

\* No call is made twice.
Once(s) == \A i, j \in 1 .. Len(s) : s[i] = s[j] => i = j

\* The memory of a work queue, and what is made on top of it.
WqPart(r) == r[2] \in {"sq", "rq"} /\ r[3] \in {"data", "ring", "dbr"}
Users(r) == {<<r[1], r[2], "obj">>, <<r[1], r[2], "mkey">>}

\* A call that comes in time, given what there is: what the piece is created
\* from exists, and memory that a failure would free is in nobody's use.
Fits(r, have) ==
  /\ Needs(r) \subseteq have
  /\ WqPart(r) => Users(r) \cap have = {}

InOrder(s, have) == \A k \in 1 .. Len(s) : Fits(s[k], have \cup Before(s, k))

\* The members of two lists in a row, by position.
LEMMA Join ==
  ASSUME NEW a \in Seq(Call), NEW b \in Seq(Call)
  PROVE  /\ a \o b \in Seq(Call) /\ Len(a) \in Nat /\ Len(b) \in Nat
         /\ Len(a \o b) = Len(a) + Len(b)
         /\ \A k \in 1 .. Len(a) : (a \o b)[k] = a[k]
         /\ \A k \in 1 .. Len(b) : (a \o b)[Len(a) + k] = b[k]
<1> DEFINE c == a \o b
<1>1. /\ c \in Seq(Call) /\ Len(a) \in Nat /\ Len(b) \in Nat /\ Len(c) = Len(a) + Len(b)
      /\ \A i \in 1 .. Len(a) + Len(b) : c[i] = IF i <= Len(a) THEN a[i] ELSE b[i - Len(a)]
  BY ConcatProperties, LenProperties
<1> HIDE DEF c
<1>2. \A i \in 1 .. Len(a) : c[i] = a[i]
  BY <1>1
<1>3. ASSUME NEW i \in 1 .. Len(b)
      PROVE  c[Len(a) + i] = b[i]
  <2>1. Len(a) + i \in 1 .. Len(a) + Len(b) /\ ~(Len(a) + i <= Len(a))
        /\ (Len(a) + i) - Len(a) = i
    BY <1>1
  <2> QED
    BY <1>1, <2>1
<1> QED
  BY <1>1, <1>2, <1>3 DEF c

\* Two lists in a row hold what both hold, each call once if neither has a call
\* of the other.
LEMMA JoinOnce ==
  ASSUME NEW a \in Seq(Call), NEW b \in Seq(Call)
  PROVE  /\ Members(a \o b) = Members(a) \cup Members(b)
         /\ Once(a) /\ Once(b) /\ Members(a) \cap Members(b) = {} => Once(a \o b)
<1> DEFINE c == a \o b
           m == Len(a)
           n == Len(b)
<1>1. /\ m \in Nat /\ n \in Nat /\ Len(c) = m + n
      /\ \A k \in 1 .. m : c[k] = a[k]
      /\ \A k \in 1 .. n : c[m + k] = b[k]
  BY Join
<1> HIDE DEF c, m, n
<1>2. ASSUME NEW k \in 1 .. m + n
      PROVE  \/ k \in 1 .. m /\ c[k] = a[k]
             \/ k - m \in 1 .. n /\ c[k] = b[k - m]
  <2>1. k <= m \/ k > m
    BY <1>1
  <2>2. CASE k <= m
    BY <1>1, <2>2
  <2>3. CASE k > m
    <3>1. k - m \in 1 .. n /\ m + (k - m) = k
      BY <1>1, <2>3
    <3> QED
      BY <1>1, <3>1
  <2> QED
    BY <2>1, <2>2, <2>3
<1>3. Members(c) = Members(a) \cup Members(b)
  <2>1. ASSUME NEW k \in 1 .. m + n
        PROVE  c[k] \in Members(a) \cup Members(b)
    BY <1>2 DEF Members, m, n
  <2>2. ASSUME NEW k \in 1 .. m
        PROVE  a[k] \in Members(c)
    <3>1. k \in 1 .. m + n /\ c[k] = a[k]
      BY <1>1
    <3> QED
      BY <1>1, <3>1 DEF Members
  <2>3. ASSUME NEW k \in 1 .. n
        PROVE  b[k] \in Members(c)
    <3>1. m + k \in 1 .. m + n /\ c[m + k] = b[k]
      BY <1>1
    <3> QED
      BY <1>1, <3>1 DEF Members
  <2> QED
    BY <1>1, <2>1, <2>2, <2>3 DEF Members, m, n
<1>4. ASSUME Once(a), Once(b), Members(a) \cap Members(b) = {}
      PROVE  Once(c)
  <2> SUFFICES ASSUME NEW i \in 1 .. m + n, NEW j \in 1 .. m + n, c[i] = c[j]
               PROVE  i = j
    BY <1>1 DEF Once
  <2>1. CASE i \in 1 .. m /\ c[i] = a[i]
    <3>1. CASE j \in 1 .. m /\ c[j] = a[j]
      BY <1>4, <2>1, <3>1 DEF Once, m
    <3>2. CASE j - m \in 1 .. n /\ c[j] = b[j - m]
      BY <1>4, <2>1, <3>2 DEF Members, m, n
    <3> QED
      BY <1>2, <3>1, <3>2
  <2>2. CASE i - m \in 1 .. n /\ c[i] = b[i - m]
    <3>1. CASE j \in 1 .. m /\ c[j] = a[j]
      BY <1>4, <2>2, <3>1 DEF Members, m, n
    <3>2. CASE j - m \in 1 .. n /\ c[j] = b[j - m]
      <4>1. i - m = j - m
        BY <1>4, <2>2, <3>2 DEF Once, n
      <4> QED
        BY <1>1, <4>1
    <3> QED
      BY <1>2, <3>1, <3>2
  <2> QED
    BY <1>2, <2>1, <2>2
<1> QED
  BY <1>3, <1>4 DEF c

\* The second list may count on what the first one made.
LEMMA JoinOrder ==
  ASSUME NEW a \in Seq(Call), NEW b \in Seq(Call), NEW have,
         InOrder(a, have), InOrder(b, have \cup Members(a))
  PROVE  InOrder(a \o b, have)
<1> DEFINE c == a \o b
           m == Len(a)
           n == Len(b)
<1>1. /\ m \in Nat /\ n \in Nat /\ Len(c) = m + n
      /\ \A k \in 1 .. m : c[k] = a[k]
      /\ \A k \in 1 .. n : c[m + k] = b[k]
  BY Join
<1> HIDE DEF c, m, n
<1>2. ASSUME NEW k \in 1 .. m
      PROVE  Fits(c[k], have \cup Before(c, k))
  <2>1. \A j \in 1 .. k - 1 : c[j] = a[j]
    BY <1>1
  <2>2. Before(c, k) = Before(a, k)
    BY <2>1 DEF Before
  <2>3. Fits(a[k], have \cup Before(a, k))
    BY DEF InOrder, m
  <2> QED
    BY <1>1, <2>2, <2>3
<1>3. ASSUME NEW k \in 1 .. n
      PROVE  Fits(c[m + k], have \cup Before(c, m + k))
  <2>1. Before(c, m + k) = Members(a) \cup Before(b, k)
    <3>1. ASSUME NEW j \in 1 .. (m + k) - 1
          PROVE  c[j] \in Members(a) \cup Before(b, k)
      <4>1. CASE j <= m
        <5>1. j \in 1 .. m /\ c[j] = a[j]
          BY <1>1, <4>1
        <5> QED
          BY <5>1 DEF Members, m
      <4>2. CASE j > m
        <5>1. j - m \in 1 .. k - 1 /\ j - m \in 1 .. n /\ m + (j - m) = j
          BY <1>1, <4>2
        <5>2. c[j] = b[j - m]
          BY <1>1, <5>1
        <5> QED
          BY <5>1, <5>2 DEF Before
      <4> QED
        BY <1>1, <4>1, <4>2
    <3>2. ASSUME NEW j \in 1 .. m
          PROVE  a[j] \in Before(c, m + k)
      <4>1. j \in 1 .. (m + k) - 1 /\ c[j] = a[j]
        BY <1>1
      <4> QED
        BY <4>1 DEF Before
    <3>3. ASSUME NEW j \in 1 .. k - 1
          PROVE  b[j] \in Before(c, m + k)
      <4>1. m + j \in 1 .. (m + k) - 1 /\ j \in 1 .. n /\ c[m + j] = b[j]
        BY <1>1
      <4> QED
        BY <4>1 DEF Before
    <3> QED
      BY <3>1, <3>2, <3>3 DEF Before, Members, m
  <2>2. Fits(b[k], (have \cup Members(a)) \cup Before(b, k))
    BY DEF InOrder, n
  <2>3. have \cup Before(c, m + k) = (have \cup Members(a)) \cup Before(b, k)
    BY <2>1
  <2> QED
    BY <1>1, <2>2, <2>3
<1>4. ASSUME NEW k \in 1 .. m + n
      PROVE  Fits(c[k], have \cup Before(c, k))
  <2>1. k <= m \/ k > m
    BY <1>1
  <2>2. CASE k <= m
    <3>1. k \in 1 .. m
      BY <1>1, <2>2
    <3> QED
      BY <1>2, <3>1
  <2>3. CASE k > m
    <3>1. k - m \in 1 .. n /\ m + (k - m) = k
      BY <1>1, <2>3
    <3> QED
      BY <1>3, <3>1
  <2> QED
    BY <2>1, <2>2, <2>3
<1> QED
  BY <1>1, <1>4 DEF InOrder, c

----------------------------------------------------------------------------
(* What every piece needs, and the lists of calls one by one.              *)

\* Memory, and calls that make no piece, need nothing.
LEMMA NeedsNothing ==
  ASSUME NEW s, NEW q, NEW p \in {"dbr", "ring", "data", "wqes", "count", "info"}
  PROVE  Needs(<<s, q, p>>) = {}
BY DEF Needs

\* A key covers the data; an object lies on its rings and completion queues.
LEMMA NeedsSomething ==
  ASSUME NEW s
  PROVE  /\ \A q : Needs(<<s, q, "mkey">>) = {<<s, q, "data">>}
         /\ \A q \in {"sq_cq", "rq_cq"} :
              Needs(<<s, q, "obj">>) = {<<s, q, "dbr">>, <<s, q, "ring">>}
         /\ Needs(<<s, "sq", "obj">>) = {<<s, "sq", "ring">>, <<s, "sq_cq", "obj">>}
         /\ Needs(<<s, "rq", "obj">>) = {<<s, "rq", "ring">>, <<s, "rq", "dbr">>,
                                         <<s, "rq", "mkey">>, <<s, "rq_cq", "obj">>}
         /\ Needs(<<s, "qp", "obj">>) = {<<s, "qp", "ring">>, <<s, "qp", "dbr">>,
                                         <<s, "qp", "mkey">>, <<s, "sq_cq", "obj">>,
                                         <<s, "rq_cq", "obj">>}
<1>1. ASSUME NEW q
      PROVE  Needs(<<s, q, "mkey">>) = {<<s, q, "data">>}
  <2>1. Needs(<<s, q, "mkey">>) = {<<s, q, p>> : p \in {"data"}}
    BY DEF Needs
  <2> QED
    BY <2>1
<1>2. ASSUME NEW q \in {"sq_cq", "rq_cq"}
      PROVE  Needs(<<s, q, "obj">>) = {<<s, q, "dbr">>, <<s, q, "ring">>}
  <2>1. Needs(<<s, q, "obj">>) = {<<s, q, p>> : p \in {"dbr", "ring"}}
    BY DEF Needs
  <2> QED
    BY <2>1
<1>3. Needs(<<s, "sq", "obj">>) = {<<s, "sq", "ring">>, <<s, "sq_cq", "obj">>}
  <2>1. Needs(<<s, "sq", "obj">>) = {<<s, "sq", p>> : p \in {"ring"}}
                                      \cup {<<s, q, "obj">> : q \in {"sq_cq"}}
    BY DEF Needs
  <2> QED
    BY <2>1
<1>4. Needs(<<s, "rq", "obj">>) = {<<s, "rq", "ring">>, <<s, "rq", "dbr">>,
                                   <<s, "rq", "mkey">>, <<s, "rq_cq", "obj">>}
  <2>1. Needs(<<s, "rq", "obj">>) = {<<s, "rq", p>> : p \in {"ring", "dbr", "mkey"}}
                                      \cup {<<s, q, "obj">> : q \in {"rq_cq"}}
    BY DEF Needs
  <2> QED
    BY <2>1
<1>5. Needs(<<s, "qp", "obj">>) = {<<s, "qp", "ring">>, <<s, "qp", "dbr">>,
                                   <<s, "qp", "mkey">>, <<s, "sq_cq", "obj">>,
                                   <<s, "rq_cq", "obj">>}
  <2>1. Needs(<<s, "qp", "obj">>) = {<<s, "qp", p>> : p \in {"ring", "dbr", "mkey"}}
                                      \cup {<<s, q, "obj">> : q \in {"sq_cq", "rq_cq"}}
    BY DEF Needs
  <2> QED
    BY <2>1
<1> QED
  BY <1>1, <1>2, <1>3, <1>4, <1>5

\* What something is created from is always a piece.
LEMMA NeedsPieces ==
  ASSUME NEW r, NEW x \in Needs(r)
  PROVE  IsPiece(x)
BY DEF Needs, IsPiece, Parts

\* A list of up to four calls is in order when each of them comes in time.
LEMMA ShortInOrder ==
  ASSUME NEW s, NEW n \in {1, 2, 3, 4}, Len(s) = n, NEW have,
         Fits(s[1], have),
         n >= 2 => Fits(s[2], have \cup {s[1]}),
         n >= 3 => Fits(s[3], have \cup {s[1], s[2]}),
         n >= 4 => Fits(s[4], have \cup {s[1], s[2], s[3]})
  PROVE  InOrder(s, have)
<1>1. have \cup Before(s, 1) = have
  BY DEF Before
<1>2. Before(s, 2) = {s[1]}
  BY DEF Before
<1>3. Before(s, 3) = {s[1], s[2]}
  BY DEF Before
<1>4. Before(s, 4) = {s[1], s[2], s[3]}
  BY DEF Before
<1>5. ASSUME NEW k \in 1 .. n
      PROVE  Fits(s[k], have \cup Before(s, k))
  <2>1. k = 1 \/ (k = 2 /\ n >= 2) \/ (k = 3 /\ n >= 3) \/ (k = 4 /\ n >= 4)
    OBVIOUS
  <2> QED
    BY <1>1, <1>2, <1>3, <1>4, <2>1
<1> QED
  BY <1>5 DEF InOrder

\* A list of one call is in order if the call fits what is there.
LEMMA OneInOrder ==
  ASSUME NEW a, NEW have,
         Fits(a, have)
  PROVE  InOrder(<<a>>, have) /\ Members(<<a>>) = {a}
<1> DEFINE s == <<a>>
<1>1. Len(s) = 1 /\ s[1] = a
  OBVIOUS
<1>2. Members(s) = {a}
  BY DEF Members
<1> HIDE DEF s
<1>3. 1 \in {1, 2, 3, 4} /\ ~(1 >= 2) /\ ~(1 >= 3) /\ ~(1 >= 4)
  OBVIOUS
<1>4. InOrder(s, have)
  BY <1>1, <1>3, ShortInOrder
<1> QED
  BY <1>2, <1>4 DEF s

\* So is a list of two calls, if each fits what is there before it.
LEMMA TwoInOrder ==
  ASSUME NEW a, NEW b, NEW have,
         Fits(a, have),
         Fits(b, have \cup {a})
  PROVE  InOrder(<<a, b>>, have) /\ Members(<<a, b>>) = {a, b}
<1> DEFINE s == <<a, b>>
<1>1. Len(s) = 2 /\ s[1] = a /\ s[2] = b
  OBVIOUS
<1>2. Members(s) = {a, b}
  BY DEF Members
<1> HIDE DEF s
<1>3. 2 \in {1, 2, 3, 4} /\ ~(2 >= 3) /\ ~(2 >= 4)
  OBVIOUS
<1>4. InOrder(s, have)
  BY <1>1, <1>3, ShortInOrder
<1> QED
  BY <1>2, <1>4 DEF s

\* A list of three calls.
LEMMA ThreeInOrder ==
  ASSUME NEW a, NEW b, NEW c, NEW have,
         Fits(a, have),
         Fits(b, have \cup {a}),
         Fits(c, have \cup {a, b})
  PROVE  InOrder(<<a, b, c>>, have) /\ Members(<<a, b, c>>) = {a, b, c}
<1> DEFINE s == <<a, b, c>>
<1>1. Len(s) = 3 /\ s[1] = a /\ s[2] = b /\ s[3] = c
  OBVIOUS
<1>2. Members(s) = {a, b, c}
  BY DEF Members
<1> HIDE DEF s
<1>3. 3 \in {1, 2, 3, 4} /\ ~(3 >= 4)
  OBVIOUS
<1>4. InOrder(s, have)
  BY <1>1, <1>3, ShortInOrder
<1> QED
  BY <1>2, <1>4 DEF s

\* A list of four calls.
LEMMA FourInOrder ==
  ASSUME NEW a, NEW b, NEW c, NEW d, NEW have,
         Fits(a, have),
         Fits(b, have \cup {a}),
         Fits(c, have \cup {a, b}),
         Fits(d, have \cup {a, b, c})
  PROVE  InOrder(<<a, b, c, d>>, have) /\ Members(<<a, b, c, d>>) = {a, b, c, d}
<1> DEFINE s == <<a, b, c, d>>
<1>1. Len(s) = 4 /\ s[1] = a /\ s[2] = b /\ s[3] = c /\ s[4] = d
  OBVIOUS
<1>2. Members(s) = {a, b, c, d}
  BY DEF Members
<1> HIDE DEF s
<1>3. 4 \in {1, 2, 3, 4} /\ 4 >= 2 /\ 4 >= 3
  OBVIOUS
<1>4. InOrder(s, have)
  BY <1>1, <1>3, ShortInOrder
<1> QED
  BY <1>2, <1>4 DEF s

\* A completion queue is created on its doorbell record and ring.
LEMMA CqOrder ==
  ASSUME NEW s, NEW q \in {"sq_cq", "rq_cq"}, NEW have
  PROVE  /\ InOrder(AllocateCq(s, q), have)
         /\ Members(AllocateCq(s, q)) = {<<s, q, "dbr">>, <<s, q, "ring">>, <<s, q, "obj">>}
<1> DEFINE a == <<s, q, "dbr">>
           b == <<s, q, "ring">>
           c == <<s, q, "obj">>
<1>1. Needs(a) = {} /\ Needs(b) = {} /\ Needs(c) = {a, b}
  BY NeedsNothing, NeedsSomething
<1>2. ~WqPart(a) /\ ~WqPart(b) /\ ~WqPart(c)
  BY DEF WqPart
<1>3. AllocateCq(s, q) = <<a, b, c>>
  BY DEF AllocateCq
<1> HIDE DEF a, b, c
<1>4. Fits(a, have) /\ Fits(b, have \cup {a}) /\ Fits(c, have \cup {a, b})
  BY <1>1, <1>2 DEF Fits
<1>5. InOrder(<<a, b, c>>, have) /\ Members(<<a, b, c>>) = {a, b, c}
  BY <1>4, ThreeInOrder
<1> QED
  BY <1>3, <1>5 DEF a, b, c

\* The memory of a work queue comes before the queue and the key.
LEMMA WqOrder ==
  ASSUME NEW s, NEW q \in {"sq", "rq"}, NEW have,
         <<s, q, "obj">> \notin have, <<s, q, "mkey">> \notin have
  PROVE  /\ InOrder(WqMemory(s, q), have)
         /\ Members(WqMemory(s, q)) = {<<s, q, "data">>, <<s, q, "ring">>, <<s, q, "dbr">>}
<1> DEFINE a == <<s, q, "data">>
           b == <<s, q, "ring">>
           c == <<s, q, "dbr">>
           x == <<s, q, "obj">>
           y == <<s, q, "mkey">>
<1>1. Needs(a) = {} /\ Needs(b) = {} /\ Needs(c) = {}
  BY NeedsNothing
<1>2. Users(a) = {x, y} /\ Users(b) = {x, y} /\ Users(c) = {x, y}
  BY DEF Users
<1>3. {x, y} \cap {a, b, c} = {}
  OBVIOUS
<1>4. WqMemory(s, q) = <<a, b, c>>
  BY DEF WqMemory
<1> HIDE DEF a, b, c, x, y
<1>5. x \notin have /\ y \notin have
  BY DEF x, y
<1>6. Fits(a, have) /\ Fits(b, have \cup {a}) /\ Fits(c, have \cup {a, b})
  BY <1>1, <1>2, <1>3, <1>5 DEF Fits
<1>7. InOrder(<<a, b, c>>, have) /\ Members(<<a, b, c>>) = {a, b, c}
  BY <1>6, ThreeInOrder
<1> QED
  BY <1>4, <1>7 DEF a, b, c

\* __create_ethernet_qp, after both completion queues.
LEMMA EthernetOrder ==
  ASSUME NEW s \in Sides, NEW have,
         <<s, "sq_cq", "obj">> \in have, <<s, "rq_cq", "obj">> \in have,
         \A q \in {"sq", "rq"} : <<s, q, "obj">> \notin have /\ <<s, q, "mkey">> \notin have
  PROVE  /\ InOrder(CreateEthernetQp(s), have)
         /\ \A r \in Members(CreateEthernetQp(s)) : r[1] = s /\ r[2] \in {"sq", "rq"}
<1> DEFINE A == WqMemory(s, "sq")
           o == <<s, "sq", "obj">>
           k == <<s, "sq", "mkey">>
           B == <<o, k>>
           C == WqMemory(s, "rq")
           m == <<s, "rq", "mkey">>
           w == <<s, "rq", "wqes">>
           p == <<s, "rq", "obj">>
           n == <<s, "rq", "count">>
           D == <<m, w, p, n>>
<1>1. /\ A \in Seq(Call) /\ C \in Seq(Call)
      /\ o \in Call /\ k \in Call /\ m \in Call /\ w \in Call /\ p \in Call /\ n \in Call
  BY PartsTyped, CallTyped DEF Queues, Parts
<1>2. B \in Seq(Call) /\ D \in Seq(Call)
  BY <1>1, ShortSequences
<1>3. CreateEthernetQp(s) = ((A \o B) \o C) \o D
  BY DEF CreateEthernetQp
<1>4. /\ InOrder(A, have)
      /\ Members(A) = {<<s, "sq", "data">>, <<s, "sq", "ring">>, <<s, "sq", "dbr">>}
  BY WqOrder
<1>5. InOrder(B, have \cup Members(A)) /\ Members(B) = {o, k}
  <2>1. /\ Needs(o) = {<<s, "sq", "ring">>, <<s, "sq_cq", "obj">>}
        /\ Needs(k) = {<<s, "sq", "data">>}
        /\ ~WqPart(o) /\ ~WqPart(k)
    BY NeedsSomething DEF WqPart
  <2>2. Needs(o) \subseteq have \cup Members(A) /\ Needs(k) \subseteq have \cup Members(A)
    BY <1>4, <2>1
  <2> HIDE DEF o, k, A
  <2>3. Fits(o, have \cup Members(A)) /\ Fits(k, (have \cup Members(A)) \cup {o})
    BY <2>1, <2>2 DEF Fits
  <2> QED
    BY <2>3, TwoInOrder
<1> DEFINE h == (have \cup Members(A)) \cup Members(B)
<1>6. /\ InOrder(C, h)
      /\ Members(C) = {<<s, "rq", "data">>, <<s, "rq", "ring">>, <<s, "rq", "dbr">>}
  <2>1. <<s, "rq", "obj">> \notin h /\ <<s, "rq", "mkey">> \notin h
    BY <1>4, <1>5
  <2> HIDE DEF h
  <2> QED
    BY <2>1, WqOrder
<1>7. InOrder(D, h \cup Members(C)) /\ Members(D) = {m, w, p, n}
  <2> DEFINE g == h \cup Members(C)
  <2>1. /\ Needs(m) = {<<s, "rq", "data">>} /\ Needs(w) = {} /\ Needs(n) = {}
        /\ Needs(p) = {<<s, "rq", "ring">>, <<s, "rq", "dbr">>, m, <<s, "rq_cq", "obj">>}
        /\ ~WqPart(m) /\ ~WqPart(w) /\ ~WqPart(p) /\ ~WqPart(n)
    BY NeedsSomething, NeedsNothing DEF WqPart
  <2>2. /\ <<s, "rq", "data">> \in g /\ <<s, "rq", "ring">> \in g /\ <<s, "rq", "dbr">> \in g
        /\ <<s, "rq_cq", "obj">> \in g
    BY <1>6
  <2> HIDE DEF g, m, w, p, n
  <2>3. Fits(m, g) /\ Fits(w, g \cup {m}) /\ Fits(p, g \cup {m, w}) /\ Fits(n, g \cup {m, w, p})
    BY <2>1, <2>2 DEF Fits
  <2>4. InOrder(<<m, w, p, n>>, g) /\ Members(<<m, w, p, n>>) = {m, w, p, n}
    BY <2>3, FourInOrder
  <2> QED
    BY <2>4 DEF g
<1>8. \A r \in Members(A) \cup Members(B) \cup Members(C) \cup Members(D) :
        r[1] = s /\ r[2] \in {"sq", "rq"}
  BY <1>4, <1>5, <1>6, <1>7
<1> HIDE DEF A, B, C, D, h
<1>9. A \o B \in Seq(Call) /\ (A \o B) \o C \in Seq(Call)
  BY <1>1, <1>2, Join
<1>10. InOrder(A \o B, have) /\ Members(A \o B) = Members(A) \cup Members(B)
  BY <1>1, <1>2, <1>4, <1>5, JoinOrder, JoinOnce
<1>11. have \cup Members(A \o B) = h
  BY <1>10 DEF h
<1>12. /\ InOrder((A \o B) \o C, have)
       /\ Members((A \o B) \o C) = Members(A \o B) \cup Members(C)
  <2>1. InOrder(C, have \cup Members(A \o B))
    BY <1>6, <1>11
  <2> QED
    BY <1>1, <1>9, <1>10, <2>1, JoinOrder, JoinOnce
<1>13. have \cup Members((A \o B) \o C) = h \cup Members(C)
  BY <1>11, <1>12
<1>14. /\ InOrder(((A \o B) \o C) \o D, have)
       /\ Members(((A \o B) \o C) \o D) = Members((A \o B) \o C) \cup Members(D)
  <2>1. InOrder(D, have \cup Members((A \o B) \o C))
    BY <1>7, <1>13
  <2> QED
    BY <1>2, <1>9, <1>12, <2>1, JoinOrder, JoinOnce
<1> QED
  BY <1>3, <1>8, <1>10, <1>12, <1>14

\* __create_rdma_qp, after both completion queues.
LEMMA RdmaOrder ==
  ASSUME NEW s \in Sides, NEW have,
         <<s, "sq_cq", "obj">> \in have, <<s, "rq_cq", "obj">> \in have
  PROVE  /\ InOrder(CreateRdmaQp(s), have)
         /\ \A r \in Members(CreateRdmaQp(s)) : r[1] = s /\ r[2] = "qp"
<1> DEFINE b == <<s, "qp", "dbr">>
           d == <<s, "qp", "data">>
           g == <<s, "qp", "ring">>
           m == <<s, "qp", "mkey">>
           w == <<s, "qp", "wqes">>
           o == <<s, "qp", "obj">>
           A == <<b>>
           B == <<d, g>>
           C == <<m, w, o>>
<1>1. b \in Call /\ d \in Call /\ g \in Call /\ m \in Call /\ w \in Call /\ o \in Call
  BY CallTyped DEF Queues, Parts
<1>2. A \in Seq(Call) /\ B \in Seq(Call) /\ C \in Seq(Call)
  BY <1>1, ShortSequences
<1>3. CreateRdmaQp(s) = (A \o B) \o C
  BY DEF CreateRdmaQp, QpMemory
<1>4. /\ Needs(b) = {} /\ Needs(d) = {} /\ Needs(g) = {} /\ Needs(m) = {d} /\ Needs(w) = {}
      /\ Needs(o) = {g, b, m, <<s, "sq_cq", "obj">>, <<s, "rq_cq", "obj">>}
      /\ ~WqPart(b) /\ ~WqPart(d) /\ ~WqPart(g) /\ ~WqPart(m) /\ ~WqPart(w) /\ ~WqPart(o)
  BY NeedsSomething, NeedsNothing DEF WqPart
<1>5. \A r \in {b} \cup {d, g} \cup {m, w, o} : r[1] = s /\ r[2] = "qp"
  OBVIOUS
<1> HIDE DEF b, d, g, m, w, o
<1>6. Fits(b, have) /\ InOrder(A, have) /\ Members(A) = {b}
  <2>1. Fits(b, have)
    BY <1>4 DEF Fits
  <2> QED
    BY <2>1, OneInOrder
<1>7. InOrder(B, have \cup {b}) /\ Members(B) = {d, g}
  <2>1. Fits(d, have \cup {b}) /\ Fits(g, (have \cup {b}) \cup {d})
    BY <1>4 DEF Fits
  <2> QED
    BY <2>1, TwoInOrder
<1> DEFINE h == have \cup ({b} \cup {d, g})
<1>8. InOrder(C, h) /\ Members(C) = {m, w, o}
  <2>1. Fits(m, h) /\ Fits(w, h \cup {m}) /\ Fits(o, h \cup {m, w})
    BY <1>4 DEF Fits
  <2> HIDE DEF h
  <2> QED
    BY <2>1, ThreeInOrder
<1> HIDE DEF A, B, C
<1>9. A \o B \in Seq(Call) /\ InOrder(A \o B, have) /\ Members(A \o B) = {b} \cup {d, g}
  BY <1>2, <1>6, <1>7, Join, JoinOrder, JoinOnce
<1>10. InOrder((A \o B) \o C, have) /\ Members((A \o B) \o C) = Members(A \o B) \cup Members(C)
  BY <1>2, <1>8, <1>9, JoinOrder, JoinOnce
<1> QED
  BY <1>3, <1>5, <1>8, <1>9, <1>10

\* Either way of creating a queue pair.
LEMMA QpOrder ==
  ASSUME NEW s \in Sides, NEW have,
         <<s, "sq_cq", "obj">> \in have, <<s, "rq_cq", "obj">> \in have,
         \A q \in {"sq", "rq"} : <<s, q, "obj">> \notin have /\ <<s, q, "mkey">> \notin have
  PROVE  /\ InOrder(CreateQp(s), have)
         /\ \A r \in Members(CreateQp(s)) : r[1] = s /\ r[2] \in {"sq", "rq", "qp"}
<1>1. CASE types[s] = "RDMA"
  <2>1. CreateQp(s) = CreateRdmaQp(s)
    BY <1>1 DEF CreateQp
  <2> QED
    BY <2>1, RdmaOrder
<1>2. CASE types[s] # "RDMA"
  <2>1. CreateQp(s) = CreateEthernetQp(s)
    BY <1>2 DEF CreateQp
  <2> QED
    BY <2>1, EthernetOrder
<1> QED
  BY <1>1, <1>2

MetaOf(s) == <<s, "meta", "data">>

\* The calls that make no queue come in time wherever they come.
LEMMA OtherOrder ==
  ASSUME NEW s, NEW have
  PROVE  /\ InOrder(SetLocalQpInfo(s), have)
         /\ \A r \in Members(SetLocalQpInfo(s)) : r[2] = "qp"
         /\ InOrder(CopyMetadata(s), have)
         /\ Members(CopyMetadata(s)) = {MetaOf(s)}
<1> DEFINE i == <<s, "qp", "info">>
<1>1. Fits(i, have) /\ Fits(MetaOf(s), have) /\ i[2] = "qp"
  BY NeedsNothing DEF Fits, WqPart, MetaOf
<1> HIDE DEF i
<1>2. InOrder(<<i>>, have) /\ Members(<<i>>) = {i}
  BY <1>1, OneInOrder
<1>3. InOrder(<<MetaOf(s)>>, have) /\ Members(<<MetaOf(s)>>) = {MetaOf(s)}
  BY <1>1, OneInOrder
<1>4. InOrder(<<>>, have) /\ Members(<<>>) = {}
  BY DEF InOrder, Members
<1>5. SetLocalQpInfo(s) \in {<<i>>, <<>>} /\ CopyMetadata(s) = <<MetaOf(s)>>
  BY DEF SetLocalQpInfo, CopyMetadata, i, MetaOf
<1> QED
  BY <1>1, <1>2, <1>3, <1>4, <1>5

\* What a completion queue and the metadata consist of; the pieces
\* deallocate_channel knows.
Known(r) ==
  /\ r[2] \in {"sq_cq", "rq_cq"} => r[3] \in {"dbr", "ring", "obj"}
  /\ r[2] = "meta" => r[3] = "data"

\* The calls that allocate_channel makes before it copies the metadata.
AllocateQueues ==
  AllocateCq("prior", "sq_cq") \o AllocateCq("next", "sq_cq")
    \o AllocateCq("prior", "rq_cq") \o AllocateCq("next", "rq_cq")
    \o CreateQp("prior") \o CreateQp("next")
    \o SetLocalQpInfo("prior") \o SetLocalQpInfo("next")

\* They come in an order in which each finds what it is made from.
LEMMA QueuesOrder ==
  /\ AllocateQueues \in Seq(Call)
  /\ InOrder(AllocateQueues, {})
  /\ \A r \in Members(AllocateQueues) : Known(r) /\ r[2] # "meta"
<1> DEFINE A == AllocateCq("prior", "sq_cq")
           B == AllocateCq("next", "sq_cq")
           C == AllocateCq("prior", "rq_cq")
           D == AllocateCq("next", "rq_cq")
           E == CreateQp("prior")
           F == CreateQp("next")
           G == SetLocalQpInfo("prior")
           H == SetLocalQpInfo("next")
           P2 == A \o B
           P3 == P2 \o C
           P4 == P3 \o D
           P5 == P4 \o E
           P6 == P5 \o F
           P7 == P6 \o G
           P8 == P7 \o H
<1>1. /\ A \in Seq(Call) /\ B \in Seq(Call) /\ C \in Seq(Call) /\ D \in Seq(Call)
      /\ E \in Seq(Call) /\ F \in Seq(Call) /\ G \in Seq(Call) /\ H \in Seq(Call)
  BY PartsTyped, QpTyped DEF Sides, Queues
<1>2. /\ P2 \in Seq(Call) /\ P3 \in Seq(Call) /\ P4 \in Seq(Call) /\ P5 \in Seq(Call)
      /\ P6 \in Seq(Call) /\ P7 \in Seq(Call) /\ P8 \in Seq(Call)
  <2> HIDE DEF A, B, C, D, E, F, G, H
  <2>1. P2 \in Seq(Call)
    BY <1>1, Join
  <2> HIDE DEF P2
  <2>2. P3 \in Seq(Call)
    BY <1>1, <2>1, Join
  <2> HIDE DEF P3
  <2>3. P4 \in Seq(Call)
    BY <1>1, <2>2, Join
  <2> HIDE DEF P4
  <2>4. P5 \in Seq(Call)
    BY <1>1, <2>3, Join
  <2> HIDE DEF P5
  <2>5. P6 \in Seq(Call)
    BY <1>1, <2>4, Join
  <2> HIDE DEF P6
  <2>6. P7 \in Seq(Call)
    BY <1>1, <2>5, Join
  <2> HIDE DEF P7
  <2>7. P8 \in Seq(Call)
    BY <1>1, <2>6, Join
  <2> QED
    BY <2>1, <2>2, <2>3, <2>4, <2>5, <2>6, <2>7
<1>3. AllocateQueues = P8
  BY DEF AllocateQueues
<1>4. /\ \A have : InOrder(A, have) /\ InOrder(B, have) /\ InOrder(C, have) /\ InOrder(D, have)
      /\ Members(A) = {<<"prior", "sq_cq", "dbr">>, <<"prior", "sq_cq", "ring">>,
                       <<"prior", "sq_cq", "obj">>}
      /\ Members(B) = {<<"next", "sq_cq", "dbr">>, <<"next", "sq_cq", "ring">>,
                       <<"next", "sq_cq", "obj">>}
      /\ Members(C) = {<<"prior", "rq_cq", "dbr">>, <<"prior", "rq_cq", "ring">>,
                       <<"prior", "rq_cq", "obj">>}
      /\ Members(D) = {<<"next", "rq_cq", "dbr">>, <<"next", "rq_cq", "ring">>,
                       <<"next", "rq_cq", "obj">>}
  BY CqOrder
<1>5. /\ InOrder(P4, {})
      /\ Members(P4) = Members(A) \cup Members(B) \cup Members(C) \cup Members(D)
  <2> HIDE DEF A, B, C, D
  <2>1. InOrder(P2, {}) /\ Members(P2) = Members(A) \cup Members(B)
    BY <1>1, <1>4, JoinOrder, JoinOnce
  <2> HIDE DEF P2
  <2>2. InOrder(P3, {}) /\ Members(P3) = Members(P2) \cup Members(C)
    BY <1>1, <1>2, <1>4, <2>1, JoinOrder, JoinOnce
  <2> HIDE DEF P3
  <2>3. InOrder(P4, {}) /\ Members(P4) = Members(P3) \cup Members(D)
    BY <1>1, <1>2, <1>4, <2>2, JoinOrder, JoinOnce
  <2> QED
    BY <2>1, <2>2, <2>3
<1>6. /\ <<"prior", "sq_cq", "obj">> \in Members(P4) /\ <<"prior", "rq_cq", "obj">> \in Members(P4)
      /\ <<"next", "sq_cq", "obj">> \in Members(P4) /\ <<"next", "rq_cq", "obj">> \in Members(P4)
      /\ \A r \in Members(P4) : r[2] \in {"sq_cq", "rq_cq"} /\ r[3] \in {"dbr", "ring", "obj"}
  BY <1>4, <1>5
<1> HIDE DEF A, B, C, D, P2, P3, P4
<1>7. "prior" \in Sides /\ "next" \in Sides
  BY DEF Sides
<1>8. /\ InOrder(P5, {}) /\ Members(P5) = Members(P4) \cup Members(E)
      /\ \A r \in Members(E) : r[1] = "prior" /\ r[2] \in {"sq", "rq", "qp"}
  <2>1. \A s, q, p : q \in {"sq", "rq"} => <<s, q, p>> \notin Members(P4)
    BY <1>6
  <2>5. \A q \in {"sq", "rq"} : /\ <<"prior", q, "obj">> \notin Members(P4)
                                /\ <<"prior", q, "mkey">> \notin Members(P4)
    BY <2>1
  <2>2. /\ InOrder(E, Members(P4))
        /\ \A r \in Members(E) : r[1] = "prior" /\ r[2] \in {"sq", "rq", "qp"}
    BY <1>6, <1>7, <2>5, QpOrder, Zenon
  <2> HIDE DEF E
  <2>3. InOrder(E, {} \cup Members(P4))
    BY <2>2
  <2> QED
    BY <1>1, <1>2, <1>5, <2>2, <2>3, JoinOrder, JoinOnce
<1>9. /\ InOrder(P6, {}) /\ Members(P6) = Members(P5) \cup Members(F)
      /\ \A r \in Members(F) : r[2] \in {"sq", "rq", "qp"}
  <2> HIDE DEF E, P5
  <2>1. \A q, p : q \in {"sq", "rq"} => <<"next", q, p>> \notin Members(P5)
    BY <1>6, <1>8
  <2>2. <<"next", "sq_cq", "obj">> \in Members(P5) /\ <<"next", "rq_cq", "obj">> \in Members(P5)
    BY <1>6, <1>8
  <2>5. \A q \in {"sq", "rq"} : /\ <<"next", q, "obj">> \notin Members(P5)
                                /\ <<"next", q, "mkey">> \notin Members(P5)
    BY <2>1
  <2>3. /\ InOrder(F, Members(P5))
        /\ \A r \in Members(F) : r[2] \in {"sq", "rq", "qp"}
    BY <1>7, <2>5, <2>2, QpOrder, Zenon
  <2> HIDE DEF F
  <2>4. InOrder(F, {} \cup Members(P5))
    BY <2>3
  <2> QED
    BY <1>1, <1>2, <1>8, <2>3, <2>4, JoinOrder, JoinOnce
<1> HIDE DEF E, F, P5, P6
<1>10. /\ InOrder(P8, {}) /\ Members(P8) = Members(P6) \cup Members(G) \cup Members(H)
       /\ \A r \in Members(G) \cup Members(H) : r[2] = "qp"
  <2>1. /\ \A have : InOrder(G, have) /\ InOrder(H, have)
        /\ \A r \in Members(G) \cup Members(H) : r[2] = "qp"
    BY OtherOrder
  <2> HIDE DEF G, H
  <2>2. InOrder(P7, {}) /\ Members(P7) = Members(P6) \cup Members(G)
    BY <1>1, <1>2, <1>9, <2>1, JoinOrder, JoinOnce
  <2> HIDE DEF P7
  <2>3. InOrder(P8, {}) /\ Members(P8) = Members(P7) \cup Members(H)
    BY <1>1, <1>2, <2>1, <2>2, JoinOrder, JoinOnce
  <2> QED
    BY <2>1, <2>2, <2>3
<1> HIDE DEF G, H, P7, P8
<1>11. ASSUME NEW r \in Members(P8)
       PROVE  Known(r) /\ r[2] # "meta"
  <2>1. r \in Members(P4) \/ r[2] \in {"sq", "rq", "qp"}
    BY <1>8, <1>9, <1>10
  <2> QED
    BY <1>6, <2>1 DEF Known
<1> QED
  BY <1>2, <1>3, <1>10, <1>11

\* allocate_channel makes every piece after what it is created from, and ends
\* with the copies of the metadata.
LEMMA AllocationOrder ==
  /\ AllocateChannel = (AllocateQueues \o <<MetaOf("prior")>>) \o <<MetaOf("next")>>
  /\ InOrder(AllocateChannel, {})
  /\ \A r \in Members(AllocateChannel) : Known(r)
<1> DEFINE Q == AllocateQueues
           p == <<MetaOf("prior")>>
           n == <<MetaOf("next")>>
           R == Q \o p
           S == R \o n
<1>1. AllocateChannel = S
  BY DEF AllocateChannel, AllocateQueues, CopyMetadata, MetaOf
<1>2. /\ Q \in Seq(Call) /\ InOrder(Q, {})
      /\ \A r \in Members(Q) : Known(r)
  BY QueuesOrder
<1>3. p \in Seq(Call) /\ n \in Seq(Call)
  BY PartsTyped DEF CopyMetadata, MetaOf, Sides, Queues
<1>4. /\ \A have : InOrder(p, have) /\ InOrder(n, have)
      /\ Members(p) = {MetaOf("prior")} /\ Members(n) = {MetaOf("next")}
  <2>1. CopyMetadata("prior") = p /\ CopyMetadata("next") = n
    BY DEF CopyMetadata, MetaOf
  <2> QED
    BY <2>1, OtherOrder
<1> HIDE DEF Q, p, n
<1>5. R \in Seq(Call) /\ InOrder(R, {}) /\ Members(R) = Members(Q) \cup Members(p)
  BY <1>2, <1>3, <1>4, Join, JoinOrder, JoinOnce
<1> HIDE DEF R
<1>6. InOrder(S, {}) /\ Members(S) = Members(R) \cup Members(n)
  BY <1>3, <1>4, <1>5, JoinOrder, JoinOnce
<1> HIDE DEF S
<1>7. Known(MetaOf("prior")) /\ Known(MetaOf("next"))
  BY DEF Known, MetaOf
<1>8. \A r \in Members(S) : Known(r)
  BY <1>2, <1>4, <1>5, <1>6, <1>7
<1> QED
  BY <1>1, <1>6, <1>8 DEF S, R, Q, p, n

----------------------------------------------------------------------------
(* The order in which deallocate_channel takes the pieces back.            *)

\* A list of three different calls makes each of them once.
LEMMA ThreeOnce ==
  ASSUME NEW a, NEW b, NEW c, a # b, b # c, a # c
  PROVE  Once(<<a, b, c>>) /\ Members(<<a, b, c>>) = {a, b, c}
<1> DEFINE s == <<a, b, c>>
<1>1. Len(s) = 3 /\ s[1] = a /\ s[2] = b /\ s[3] = c
  OBVIOUS
<1> HIDE DEF s
<1>2. 1 .. Len(s) = {1, 2, 3}
  BY <1>1
<1>3. Once(s)
  BY <1>1, <1>2 DEF Once
<1>4. Members(s) = {a, b, c}
  BY <1>1, <1>2 DEF Members
<1> QED
  BY <1>3, <1>4 DEF s

\* So does a list of one call.
LEMMA OneOnce ==
  ASSUME NEW a
  PROVE  Once(<<a>>) /\ Members(<<a>>) = {a}
<1> DEFINE s == <<a>>
<1>1. Len(s) = 1 /\ s[1] = a
  OBVIOUS
<1> HIDE DEF s
<1>2. 1 .. Len(s) = {1}
  BY <1>1
<1> QED
  BY <1>1, <1>2 DEF Once, Members, s

\* Destroying the queues of a side frees every piece of its work queues once,
\* their memory keys excepted (__destroy_ethernet_qp, __deallocate_wq_memory).
LEMMA DestroyOnce ==
  ASSUME NEW s \in Sides
  PROVE  /\ Once(DestroyQp(s))
         /\ Members(DestroyQp(s)) = {<<s, q, p>> : q \in {"sq", "rq"},
                                                   p \in {"obj", "data", "ring", "dbr"}}
<1> DEFINE A == << <<s, "sq", "obj">> >>
           B == WqMemory(s, "sq")
           C == << <<s, "rq", "obj">> >>
           D == WqMemory(s, "rq")
           P2 == A \o B
           P3 == P2 \o C
           P4 == P3 \o D
<1>1. A \in Seq(Call) /\ B \in Seq(Call) /\ C \in Seq(Call) /\ D \in Seq(Call)
  BY CallTyped, ShortSequences, PartsTyped DEF Parts, Queues
<1>2. Once(A) /\ Members(A) = {<<s, "sq", "obj">>}
  BY OneOnce
<1>3. Once(C) /\ Members(C) = {<<s, "rq", "obj">>}
  BY OneOnce
<1>4. /\ Once(B)
      /\ Members(B) = {<<s, "sq", "data">>, <<s, "sq", "ring">>, <<s, "sq", "dbr">>}
  BY ThreeOnce DEF WqMemory
<1>5. /\ Once(D)
      /\ Members(D) = {<<s, "rq", "data">>, <<s, "rq", "ring">>, <<s, "rq", "dbr">>}
  BY ThreeOnce DEF WqMemory
<1>6. DestroyQp(s) = P4
  BY DEF DestroyQp
<1> HIDE DEF A, B, C, D
<1>7. P2 \in Seq(Call) /\ P3 \in Seq(Call)
  <2>1. P2 \in Seq(Call)
    BY <1>1, Join
  <2> HIDE DEF P2
  <2>2. P3 \in Seq(Call)
    BY <1>1, <2>1, Join
  <2> QED
    BY <2>1, <2>2
<1>8. /\ Once(P2)
      /\ Members(P2) = {<<s, "sq", "obj">>, <<s, "sq", "data">>, <<s, "sq", "ring">>,
                        <<s, "sq", "dbr">>}
  <2>1. Members(A) \cap Members(B) = {}
    BY <1>2, <1>4
  <2>2. Once(P2) /\ Members(P2) = Members(A) \cup Members(B)
    BY <1>1, <1>2, <1>4, <2>1, JoinOnce
  <2> QED
    BY <1>2, <1>4, <2>2
<1> HIDE DEF P2
<1>9. /\ Once(P3)
      /\ Members(P3) = Members(P2) \cup {<<s, "rq", "obj">>}
  <2>1. Members(P2) \cap Members(C) = {}
    BY <1>3, <1>8
  <2> QED
    BY <1>1, <1>3, <1>7, <1>8, <2>1, JoinOnce
<1> HIDE DEF P3
<1>10. Once(P4) /\ Members(P4) = Members(P3) \cup Members(D)
  <2>1. Members(P3) \cap Members(D) = {}
    BY <1>5, <1>8, <1>9
  <2> QED
    BY <1>1, <1>5, <1>7, <1>9, <2>1, JoinOnce
<1> HIDE DEF P4
<1>11. Members(P4) = {<<s, q, p>> : q \in {"sq", "rq"}, p \in {"obj", "data", "ring", "dbr"}}
  BY <1>5, <1>8, <1>9, <1>10
<1> QED
  BY <1>6, <1>10, <1>11

\* deallocate_channel takes back every piece once, and all that it knows of but
\* queue pairs of RDMA and memory keys.
LEMMA DeallocationOnce ==
  /\ Once(DeallocateChannel)
  /\ \A r \in Pieces : Known(r) => r[2] = "qp" \/ r[3] = "mkey" \/ r \in Members(DeallocateChannel)
<1> DEFINE A == DeallocateCq("prior", "sq_cq")
           B == DeallocateCq("prior", "rq_cq")
           C == DeallocateCq("next", "sq_cq")
           D == DeallocateCq("next", "rq_cq")
           E == DestroyQp("prior")
           F == DestroyQp("next")
           G == CopyMetadata("prior")
           H == CopyMetadata("next")
           P2 == A \o B
           P3 == P2 \o C
           P4 == P3 \o D
           P5 == P4 \o E
           P6 == P5 \o F
           P7 == P6 \o G
           P8 == P7 \o H
<1>1. /\ A \in Seq(Call) /\ B \in Seq(Call) /\ C \in Seq(Call) /\ D \in Seq(Call)
      /\ E \in Seq(Call) /\ F \in Seq(Call) /\ G \in Seq(Call) /\ H \in Seq(Call)
  BY PartsTyped, QpTyped DEF Sides, Queues
<1>2. DeallocateChannel = P8
  BY DEF DeallocateChannel
<1>3. /\ Once(A) /\ Members(A) = {<<"prior", "sq_cq", "obj">>, <<"prior", "sq_cq", "dbr">>,
                                  <<"prior", "sq_cq", "ring">>}
      /\ Once(B) /\ Members(B) = {<<"prior", "rq_cq", "obj">>, <<"prior", "rq_cq", "dbr">>,
                                  <<"prior", "rq_cq", "ring">>}
      /\ Once(C) /\ Members(C) = {<<"next", "sq_cq", "obj">>, <<"next", "sq_cq", "dbr">>,
                                  <<"next", "sq_cq", "ring">>}
      /\ Once(D) /\ Members(D) = {<<"next", "rq_cq", "obj">>, <<"next", "rq_cq", "dbr">>,
                                  <<"next", "rq_cq", "ring">>}
  BY ThreeOnce DEF DeallocateCq
<1>4. /\ Once(E) /\ Members(E) = {<<"prior", q, p>> : q \in {"sq", "rq"},
                                                     p \in {"obj", "data", "ring", "dbr"}}
      /\ Once(F) /\ Members(F) = {<<"next", q, p>> : q \in {"sq", "rq"},
                                                    p \in {"obj", "data", "ring", "dbr"}}
  BY DestroyOnce DEF Sides
<1>5. Once(G) /\ Members(G) = {MetaOf("prior")} /\ Once(H) /\ Members(H) = {MetaOf("next")}
  BY OneOnce DEF CopyMetadata, MetaOf
<1> HIDE DEF A, B, C, D, E, F, G, H
<1>6. P2 \in Seq(Call) /\ Once(P2) /\ Members(P2) = Members(A) \cup Members(B)
  <2>1. Members(A) \cap Members(B) = {}
    BY <1>3
  <2> QED
    BY <1>1, <1>3, <2>1, Join, JoinOnce
<1> HIDE DEF P2
<1>7. P3 \in Seq(Call) /\ Once(P3) /\ Members(P3) = Members(P2) \cup Members(C)
  <2>1. Members(P2) \cap Members(C) = {}
    BY <1>3, <1>6
  <2> QED
    BY <1>1, <1>3, <1>6, <2>1, Join, JoinOnce
<1> HIDE DEF P3
<1>8. P4 \in Seq(Call) /\ Once(P4) /\ Members(P4) = Members(P3) \cup Members(D)
  <2>1. Members(P3) \cap Members(D) = {}
    BY <1>3, <1>6, <1>7
  <2> QED
    BY <1>1, <1>3, <1>7, <2>1, Join, JoinOnce
<1> HIDE DEF P4
<1>9. \A r \in Members(P4) : r[2] \in {"sq_cq", "rq_cq"}
  BY <1>3, <1>6, <1>7, <1>8
<1>10. /\ \A r \in Members(E) : r[1] = "prior" /\ r[2] \in {"sq", "rq"}
       /\ \A r \in Members(F) : r[1] = "next" /\ r[2] \in {"sq", "rq"}
  BY <1>4
<1>11. P5 \in Seq(Call) /\ Once(P5) /\ Members(P5) = Members(P4) \cup Members(E)
  <2>1. Members(P4) \cap Members(E) = {}
    BY <1>9, <1>10
  <2> QED
    BY <1>1, <1>4, <1>8, <2>1, Join, JoinOnce
<1> HIDE DEF P5
<1>12. P6 \in Seq(Call) /\ Once(P6) /\ Members(P6) = Members(P5) \cup Members(F)
  <2>1. Members(P5) \cap Members(F) = {}
    BY <1>9, <1>10, <1>11
  <2> QED
    BY <1>1, <1>4, <1>11, <2>1, Join, JoinOnce
<1> HIDE DEF P6
<1>13. \A r \in Members(P6) : r[2] # "meta"
  BY <1>9, <1>10, <1>11, <1>12
<1>14. /\ MetaOf("prior") # MetaOf("next")
       /\ MetaOf("prior")[2] = "meta" /\ MetaOf("next")[2] = "meta"
  BY DEF MetaOf
<1>15. P7 \in Seq(Call) /\ Once(P7) /\ Members(P7) = Members(P6) \cup Members(G)
  <2>1. Members(P6) \cap Members(G) = {}
    BY <1>5, <1>13, <1>14
  <2> QED
    BY <1>1, <1>5, <1>12, <2>1, Join, JoinOnce
<1> HIDE DEF P7
<1>16. Once(P8) /\ Members(P8) = Members(P7) \cup Members(H)
  <2>1. Members(P7) \cap Members(H) = {}
    BY <1>5, <1>13, <1>14, <1>15
  <2> QED
    BY <1>1, <1>5, <1>15, <2>1, JoinOnce
<1> HIDE DEF P8
<1>17. ASSUME NEW r \in Pieces, Known(r), r[2] # "qp", r[3] # "mkey"
       PROVE  r \in Members(P8)
  <2>1. PICK s \in Sides, q \in Queues, p \in Parts : r = <<s, q, p>>
    BY DEF Pieces
  <2>2. s \in {"prior", "next"} /\ q # "qp" /\ p # "mkey"
    BY <1>17, <2>1 DEF Sides
  <2>3. CASE q \in {"sq", "rq"}
    <3>1. p \in {"obj", "data", "ring", "dbr"}
      BY <2>2 DEF Parts
    <3>2. <<s, q, p>> \in Members(E) \cup Members(F)
      BY <1>4, <2>2, <2>3, <3>1
    <3> QED
      BY <1>11, <1>12, <1>15, <1>16, <2>1, <3>2
  <2>4. CASE q \in {"sq_cq", "rq_cq"}
    <3>1. p \in {"dbr", "ring", "obj"}
      BY <1>17, <2>1, <2>4 DEF Known
    <3>2. <<s, q, p>> \in Members(P4)
      BY <1>3, <1>6, <1>7, <1>8, <2>2, <2>4, <3>1
    <3> QED
      BY <1>11, <1>12, <1>15, <1>16, <2>1, <3>2
  <2>5. CASE q = "meta"
    <3>1. p = "data"
      BY <1>17, <2>1, <2>5 DEF Known
    <3>2. r = MetaOf("prior") \/ r = MetaOf("next")
      BY <2>1, <2>2, <2>5, <3>1 DEF MetaOf
    <3> QED
      BY <1>5, <1>15, <1>16, <3>2
  <2> QED
    BY <2>2, <2>3, <2>4, <2>5 DEF Queues
<1> QED
  BY <1>2, <1>16, <1>17

----------------------------------------------------------------------------
(* The inductive invariant of the channel.                                 *)

\* What remains of the calls after the first.
LEMMA TailMembers ==
  ASSUME todo \in Seq(Call), todo # <<>>
  PROVE  /\ Members(todo) = {Step} \cup Members(Tail(todo))
         /\ Once(todo) => Once(Tail(todo)) /\ Step \notin Members(Tail(todo))
<1> DEFINE n == Len(todo)
           t == Tail(todo)
<1>1. n \in Nat /\ n >= 1
  BY LenProperties, EmptySeq
<1>2. Step = todo[1] /\ Len(t) = n - 1 /\ \A k \in 1 .. n - 1 : t[k] = todo[k + 1]
  BY HeadAndTail
<1> HIDE DEF t
<1>3. Members(todo) = {Step} \cup Members(t)
  <2>1. ASSUME NEW k \in 1 .. n
        PROVE  todo[k] \in {Step} \cup Members(t)
    <3>1. CASE k = 1
      BY <1>2, <3>1
    <3>2. CASE k # 1
      <4>1. k - 1 \in 1 .. n - 1 /\ (k - 1) + 1 = k
        BY <1>1, <3>2
      <4>2. t[k - 1] = todo[k]
        BY <1>2, <4>1
      <4> QED
        BY <1>2, <4>1, <4>2 DEF Members
    <3> QED
      BY <3>1, <3>2
  <2>2. ASSUME NEW k \in 1 .. n - 1
        PROVE  t[k] \in Members(todo)
    <3>1. k + 1 \in 1 .. n /\ t[k] = todo[k + 1]
      BY <1>1, <1>2
    <3> QED
      BY <3>1 DEF Members
  <2>3. Step \in Members(todo)
    BY <1>1, <1>2 DEF Members
  <2> QED
    BY <1>2, <2>1, <2>2, <2>3 DEF Members
<1>4. ASSUME Once(todo)
      PROVE  Once(t) /\ Step \notin Members(t)
  <2>1. ASSUME NEW i \in 1 .. n - 1, NEW j \in 1 .. n - 1, t[i] = t[j]
        PROVE  i = j
    <3>1. i + 1 \in 1 .. n /\ j + 1 \in 1 .. n
      BY <1>1
    <3>2. todo[i + 1] = todo[j + 1]
      BY <1>2, <2>1
    <3>3. i + 1 = j + 1
      BY <1>4, <3>1, <3>2 DEF Once
    <3> QED
      BY <3>3
  <2>2. ASSUME NEW i \in 1 .. n - 1
        PROVE  t[i] # Step
    <3>1. i + 1 \in 1 .. n /\ 1 \in 1 .. n /\ i + 1 # 1
      BY <1>1
    <3>2. todo[i + 1] # todo[1]
      BY <1>4, <3>1 DEF Once
    <3> QED
      BY <1>2, <3>2
  <2> QED
    BY <1>2, <2>1, <2>2 DEF Once, Members
<1> QED
  BY <1>3, <1>4 DEF t

\* The first call comes in time, and the others after it: calls that make no
\* piece are not counted on.
LEMMA TailInOrder ==
  ASSUME todo \in Seq(Call), todo # <<>>, NEW have, InOrder(todo, have)
  PROVE  /\ Fits(Step, have)
         /\ InOrder(Tail(todo), IF IsPiece(Step) THEN have \cup {Step} ELSE have)
<1> DEFINE n == Len(todo)
           t == Tail(todo)
           more == IF IsPiece(Step) THEN have \cup {Step} ELSE have
<1>1. n \in Nat /\ n >= 1
  BY LenProperties, EmptySeq
<1>2. Step = todo[1] /\ Len(t) = n - 1 /\ \A k \in 1 .. n - 1 : t[k] = todo[k + 1]
  BY HeadAndTail
<1> HIDE DEF t
<1>3. Fits(Step, have)
  <2>3. 1 \in 1 .. Len(todo)
    BY <1>1
  <2>1. Fits(todo[1], have \cup Before(todo, 1))
    BY <2>3 DEF InOrder
  <2>2. have \cup Before(todo, 1) = have
    BY DEF Before
  <2> QED
    BY <1>2, <2>1, <2>2
<1>4. ASSUME NEW k \in 1 .. n - 1
      PROVE  Fits(t[k], more \cup Before(t, k))
  <2>1. k + 1 \in 1 .. n /\ t[k] = todo[k + 1]
    BY <1>1, <1>2
  <2>2. Fits(t[k], have \cup Before(todo, k + 1))
    BY <2>1 DEF InOrder
  <2>3. Before(todo, k + 1) = {Step} \cup Before(t, k)
    <3>1. ASSUME NEW j \in 1 .. (k + 1) - 1
          PROVE  todo[j] \in {Step} \cup Before(t, k)
      <4>1. CASE j = 1
        BY <1>2, <4>1
      <4>2. CASE j # 1
        <5>1. j - 1 \in 1 .. k - 1 /\ j - 1 \in 1 .. n - 1 /\ (j - 1) + 1 = j
          BY <1>1, <4>2
        <5>2. t[j - 1] = todo[j]
          BY <1>2, <5>1
        <5> QED
          BY <5>1, <5>2 DEF Before
      <4> QED
        BY <4>1, <4>2
    <3>2. ASSUME NEW j \in 1 .. k - 1
          PROVE  t[j] \in Before(todo, k + 1)
      <4>1. j + 1 \in 1 .. (k + 1) - 1 /\ j \in 1 .. n - 1
        BY <1>1
      <4> QED
        BY <1>2, <4>1 DEF Before
    <3>3. Step \in Before(todo, k + 1)
      BY <1>1, <1>2 DEF Before
    <3> QED
      BY <3>1, <3>2, <3>3 DEF Before
  <2>4. more \cup Before(t, k) \subseteq have \cup Before(todo, k + 1)
    BY <2>3
  <2>5. ASSUME NEW x \in Needs(t[k])
        PROVE  x \in more \cup Before(t, k)
    <3>1. IsPiece(x)
      BY NeedsPieces
    <3>2. x \in have \cup Before(todo, k + 1)
      BY <2>2 DEF Fits
    <3> QED
      BY <2>3, <3>1, <3>2
  <2> HIDE DEF more
  <2> QED
    BY <2>2, <2>4, <2>5 DEF Fits
<1> QED
  BY <1>2, <1>3, <1>4 DEF InOrder, t

\* The data and the ring of a work queue are used by its object and its key.
LEMMA UsersOfMemory ==
  ASSUME NEW r \in Pieces, NEW x \in Needs(r),
         x[2] \in {"sq", "rq"}, x[3] \in {"data", "ring"}
  PROVE  r \in Users(x)
<1>1. PICK s \in Sides, q \in Queues, p \in Parts : r = <<s, q, p>>
  BY DEF Pieces
<1>2. CASE p = "mkey"
  <2>2. Needs(<<s, q, "mkey">>) = {<<s, q, "data">>}
    BY NeedsSomething
  <2>1. x = <<s, q, "data">>
    BY <1>1, <1>2, <2>2
  <2> QED
    BY <1>1, <1>2, <2>1 DEF Users
<1>3. CASE p = "obj"
  <2>1. q \in {"sq_cq", "rq_cq", "sq", "rq", "qp"}
    <3>1. Needs(<<s, "meta", "obj">>) = {}
      BY DEF Needs
    <3> QED
      BY <1>1, <1>3, <3>1 DEF Queues
  <2>2. \A c \in {"sq_cq", "rq_cq"} :
          Needs(<<s, c, "obj">>) = {<<s, c, "dbr">>, <<s, c, "ring">>}
    BY NeedsSomething
  <2>3. CASE q \in {"sq_cq", "rq_cq"}
    BY <1>1, <1>3, <2>2, <2>3
  <2>4. CASE q = "qp"
    <3>1. Needs(<<s, "qp", "obj">>) = {<<s, "qp", "ring">>, <<s, "qp", "dbr">>,
                                       <<s, "qp", "mkey">>, <<s, "sq_cq", "obj">>,
                                       <<s, "rq_cq", "obj">>}
      BY NeedsSomething
    <3> QED
      BY <1>1, <1>3, <2>4, <3>1
  <2>5. CASE q = "sq"
    <3>1. Needs(<<s, "sq", "obj">>) = {<<s, "sq", "ring">>, <<s, "sq_cq", "obj">>}
      BY NeedsSomething
    <3>2. x = <<s, "sq", "ring">>
      BY <1>1, <1>3, <2>5, <3>1
    <3> QED
      BY <1>1, <1>3, <2>5, <3>2 DEF Users
  <2>6. CASE q = "rq"
    <3>1. Needs(<<s, "rq", "obj">>) = {<<s, "rq", "ring">>, <<s, "rq", "dbr">>,
                                       <<s, "rq", "mkey">>, <<s, "rq_cq", "obj">>}
      BY NeedsSomething
    <3>2. x = <<s, "rq", "ring">>
      BY <1>1, <1>3, <2>6, <3>1
    <3> QED
      BY <1>1, <1>3, <2>6, <3>2 DEF Users
  <2> QED
    BY <2>1, <2>3, <2>4, <2>5, <2>6
<1>4. CASE p \in {"dbr", "ring", "data"}
  BY <1>1, <1>4, NeedsNothing
<1> QED
  BY <1>2, <1>3, <1>4 DEF Parts

\* By position, the copies of the metadata are the last two calls.
LEMMA AllocationEnds ==
  LET n == Len(AllocateChannel)
  IN /\ n \in Nat /\ n >= 2
     /\ AllocateChannel[n - 1] = MetaOf("prior") /\ AllocateChannel[n] = MetaOf("next")
     /\ \A k \in 1 .. n - 2 : AllocateChannel[k][2] # "meta"
<1> DEFINE Q == AllocateQueues
           m == Len(Q)
           p == <<MetaOf("prior")>>
           e == <<MetaOf("next")>>
           R == Q \o p
           S == R \o e
<1>1. Q \in Seq(Call) /\ \A r \in Members(Q) : r[2] # "meta"
  BY QueuesOrder
<1>2. p \in Seq(Call) /\ e \in Seq(Call)
  BY PartsTyped DEF CopyMetadata, MetaOf, Sides, Queues
<1>3. Len(p) = 1 /\ p[1] = MetaOf("prior") /\ Len(e) = 1 /\ e[1] = MetaOf("next")
  OBVIOUS
<1>4. m \in Nat /\ \A k \in 1 .. m : Q[k][2] # "meta"
  BY <1>1, LenProperties DEF Members
<1>5. /\ R \in Seq(Call) /\ Len(R) = m + Len(p)
      /\ \A k \in 1 .. m : R[k] = Q[k]
      /\ \A k \in 1 .. Len(p) : R[m + k] = p[k]
  <2> HIDE DEF Q, p
  <2> QED
    BY <1>1, <1>2, Join
<1>6. Len(R) = m + 1 /\ R[m + 1] = MetaOf("prior")
  <2> HIDE DEF R, Q, p, m
  <2> QED
    BY <1>3, <1>5
<1>7. /\ Len(S) = Len(R) + Len(e)
      /\ \A k \in 1 .. Len(R) : S[k] = R[k]
      /\ \A k \in 1 .. Len(e) : S[Len(R) + k] = e[k]
  <2> HIDE DEF R, e
  <2> QED
    BY <1>2, <1>5, Join
<1>8. AllocateChannel = S
  BY AllocationOrder
<1> HIDE DEF S, R, Q, p, e, m
<1>9. /\ Len(S) = m + 2
      /\ \A k \in 1 .. m + 1 : S[k] = R[k]
      /\ S[m + 2] = MetaOf("next")
  BY <1>3, <1>4, <1>6, <1>7
<1>10. S[m + 1] = MetaOf("prior") /\ \A k \in 1 .. m : S[k][2] # "meta"
  BY <1>4, <1>5, <1>6, <1>9
<1>11. (m + 2) - 1 = m + 1 /\ (m + 2) - 2 = m /\ m + 2 \in Nat /\ m + 2 >= 2
  BY <1>4
<1> QED
  BY <1>8, <1>9, <1>10, <1>11

Begun == {"process", "handler", "resolve"}
Made == {"allocate", "init", "registered", "connect", "steer", "start", "running",
         "not_connected", "not_started"}
Reading == {"init", "registered", "connect", "steer", "start", "running"}
TakenApart == {"release", "destroy", "stuck", "undefined"}

Current(s) == copied[s] = (live \cap Of(s)) \ {MetaOf(s)}

\* Until the channel is abandoned or taken apart, the host's metadata names
\* what exists, and what is yet to be allocated comes in time.
ChannelInv ==
  /\ pc \in Begun => live = {} /\ held = {}
  /\ pc \in Made => held = live
  /\ pc = "allocate" => InOrder(todo, live) /\ \A r \in Members(todo) : Known(r)
  /\ \A r \in live : Known(r)

\* The metadata is copied last, and what has been copied does not change.
CopyInv ==
  pc = "allocate" =>
    /\ Len(todo) >= 2 => /\ todo[Len(todo) - 1] = MetaOf("prior")
                         /\ MetaOf("prior") \notin live
                         /\ \A k \in 1 .. Len(todo) - 2 : todo[k][2] # "meta"
    /\ Len(todo) >= 1 => todo[Len(todo)] = MetaOf("next") /\ MetaOf("next") \notin live
    /\ Len(todo) < 2 => Current("prior")
    /\ Len(todo) < 1 => Current("next")

\* What deallocate_channel has yet to free exists if it is named, and what
\* exists is yet to be freed or never will be.
ReleaseInv ==
  pc = "release" =>
    /\ Once(todo) /\ live \subseteq held /\ Members(todo) \cap held \subseteq live
    /\ \A r \in live : r[2] = "qp" \/ r[3] = "mkey" \/ r \in Members(todo)

PiecesInv ==
  ChannelInv /\ CopyInv /\ ReleaseInv /\ NothingDangles /\ CopyIsCurrent /\ ChannelGone

\* The invariant holds at first.
LEMMA PiecesInit == Init => PiecesInv
BY DEF Init, PiecesInv, ChannelInv, CopyInv, ReleaseInv, NothingDangles, CopyIsCurrent,
       ChannelGone, Begun, Made

\* Steps that leave the channel alone and neither begin nor end a list of calls.
LEMMA PiecesQuiet ==
  ASSUME PiecesInv, UNCHANGED <<live, held, copied>>,
         pc' \notin {"allocate", "release", "destroy"},
         pc' \in Begun => pc \in Begun,
         pc' \in Made => pc \in Made,
         pc' \in Reading => pc \in Reading,
         pc' \notin TakenApart => pc \notin TakenApart
  PROVE  PiecesInv'
<1>1. ChannelInv'
  BY DEF PiecesInv, ChannelInv
<1>2. CopyInv' /\ ReleaseInv' /\ ChannelGone'
  BY DEF CopyInv, ReleaseInv, ChannelGone
<1>3. NothingDangles'
  BY DEF PiecesInv, NothingDangles, TakenApart
<1>4. CopyIsCurrent'
  BY DEF PiecesInv, CopyIsCurrent, Reading
<1> QED
  BY <1>1, <1>2, <1>3, <1>4 DEF PiecesInv

\* Steps of the NIC and of the device, and stuttering.
LEMMA PiecesStutter ==
  ASSUME PiecesInv, UNCHANGED <<pc, todo, live, held, copied>>
  PROVE  PiecesInv'
BY DEF PiecesInv, ChannelInv, CopyInv, ReleaseInv, NothingDangles, CopyIsCurrent,
       ChannelGone, Current

\* allocate_channel begins with nothing on the device.
LEMMA PiecesResolve == PiecesInv /\ ResolvePort => PiecesInv'
<1> SUFFICES ASSUME PiecesInv, ResolvePort
             PROVE  PiecesInv'
  OBVIOUS
<1>1. pc = "resolve" /\ UNCHANGED <<live, held, copied>> /\ live = {} /\ held = {}
  BY DEF ResolvePort, PiecesInv, ChannelInv, Begun
<1>2. CASE pc' = "aborted"
  BY <1>1, <1>2, PiecesQuiet DEF Begun, Made, Reading, TakenApart
<1>3. CASE pc' = "allocate" /\ todo' = AllocateChannel
  <2>1. ChannelInv'
    BY <1>1, <1>3, AllocationOrder DEF ChannelInv, Begun
  <2>2. CopyInv'
    <3> DEFINE n == Len(AllocateChannel)
    <3>1. /\ n \in Nat /\ n >= 2
          /\ AllocateChannel[n - 1] = MetaOf("prior") /\ AllocateChannel[n] = MetaOf("next")
          /\ \A k \in 1 .. n - 2 : AllocateChannel[k][2] # "meta"
      BY AllocationEnds
    <3>2. ~(n < 2) /\ ~(n < 1)
      BY <3>1
    <3> HIDE DEF n
    <3>3. Len(todo)' = n
      BY <1>3 DEF n
    <3> QED
      BY <1>1, <1>3, <3>1, <3>2, <3>3 DEF CopyInv
  <2>3. ReleaseInv' /\ ChannelGone' /\ CopyIsCurrent' /\ NothingDangles'
    BY <1>1, <1>3 DEF ReleaseInv, ChannelGone, CopyIsCurrent, NothingDangles
  <2> QED
    BY <2>1, <2>2, <2>3 DEF PiecesInv
<1> QED
  BY <1>2, <1>3 DEF ResolvePort

\* An allocation adds a piece in time, or a copy of the metadata.
LEMMA PiecesAllocated == TypeOK /\ PiecesInv /\ Allocated => PiecesInv'
<1> SUFFICES ASSUME TypeOK, PiecesInv, Allocated
             PROVE  PiecesInv'
  OBVIOUS
<1> DEFINE n == Len(todo)
           t == Tail(todo)
<1>1. /\ pc = "allocate" /\ pc' = "allocate" /\ todo # <<>> /\ todo' = t
      /\ live' = IF IsPiece(Step) THEN live \cup {Step} ELSE live
      /\ held' = IF IsPiece(Step) THEN held \cup {Step} ELSE held
      /\ copied' = IF Step[2] = "meta"
                   THEN [copied EXCEPT ![Step[1]] = held \cap Of(Step[1])] ELSE copied
  BY DEF Allocated
<1>2. /\ todo \in Seq(Call) /\ live \subseteq Pieces
      /\ copied \in [Sides -> SUBSET Pieces]
  BY DEF TypeOK
<1>3. /\ held = live /\ InOrder(todo, live)
      /\ \A r \in Members(todo) : Known(r)
      /\ \A r \in live : Known(r)
  BY <1>1 DEF PiecesInv, ChannelInv, Made
<1>4. Fits(Step, live) /\ InOrder(t, live')
  BY <1>1, <1>2, <1>3, TailInOrder
<1>5. Members(todo) = {Step} \cup Members(t)
  BY <1>1, <1>2, TailMembers
<1>6. /\ n \in Nat /\ n >= 1
      /\ Step = todo[1] /\ Len(t) = n - 1 /\ \A k \in 1 .. n - 1 : t[k] = todo[k + 1]
  BY <1>1, <1>2, HeadAndTail, LenProperties, EmptySeq
<1> HIDE DEF t
<1>7. ChannelInv'
  <2>1. held' = live'
    BY <1>1, <1>3
  <2>2. \A r \in live' : Known(r)
    BY <1>1, <1>3, <1>5
  <2>3. \A r \in Members(t) : Known(r)
    BY <1>3, <1>5
  <2> QED
    BY <1>1, <1>4, <2>1, <2>2, <2>3 DEF ChannelInv, Begun
<1>8. NothingDangles'
  <2>1. \A r \in live : Needs(r) \subseteq live
    BY <1>1 DEF PiecesInv, NothingDangles
  <2>2. Needs(Step) \subseteq live
    BY <1>4 DEF Fits
  <2>3. \A r \in live' : Needs(r) \subseteq live'
    BY <1>1, <2>1, <2>2
  <2> QED
    BY <2>3 DEF NothingDangles
<1>9. ReleaseInv' /\ ChannelGone' /\ CopyIsCurrent'
  BY <1>1 DEF ReleaseInv, ChannelGone, CopyIsCurrent
<1>10. CopyInv'
  <2>0. /\ n >= 2 => /\ todo[n - 1] = MetaOf("prior") /\ MetaOf("prior") \notin live
                     /\ \A k \in 1 .. n - 2 : todo[k][2] # "meta"
        /\ todo[n] = MetaOf("next") /\ MetaOf("next") \notin live
        /\ n < 2 => copied["prior"] = (live \cap Of("prior")) \ {MetaOf("prior")}
    BY <1>1, <1>6 DEF PiecesInv, CopyInv, Current
  <2>a. /\ MetaOf("prior")[1] = "prior" /\ MetaOf("next")[1] = "next"
        /\ \A s : MetaOf(s)[2] = "meta" /\ IsPiece(MetaOf(s))
        /\ "prior" \in Sides /\ "next" \in Sides /\ "prior" # "next"
    BY DEF MetaOf, IsPiece, Parts, Sides
  <2>b. Len(todo') = n - 1
    BY <1>1, <1>6
  <2> HIDE DEF n
  <2>1. CASE n >= 3
    <3>1. 1 \in 1 .. n - 2 /\ n >= 2
      BY <1>6, <2>1
    <3>2. Step[2] # "meta"
      BY <1>6, <2>0, <3>1
    <3>3. MetaOf("prior") \notin live' /\ MetaOf("next") \notin live'
      BY <1>1, <2>0, <2>a, <3>1, <3>2
    <3>4. t[(n - 1) - 1] = MetaOf("prior") /\ t[n - 1] = MetaOf("next")
      <4>1. (n - 1) - 1 \in 1 .. n - 1 /\ n - 1 \in 1 .. n - 1
            /\ ((n - 1) - 1) + 1 = n - 1 /\ (n - 1) + 1 = n
        BY <1>6, <2>1
      <4> QED
        BY <1>6, <2>0, <3>1, <4>1
    <3>5. ASSUME NEW k \in 1 .. (n - 1) - 2
          PROVE  t[k][2] # "meta"
      <4>1. k \in 1 .. n - 1 /\ k + 1 \in 1 .. n - 2
        BY <1>6, <2>1
      <4> QED
        BY <1>6, <2>0, <3>1, <4>1
    <3>6. ~(n - 1 < 2) /\ ~(n - 1 < 1)
      BY <1>6, <2>1
    <3> QED
      BY <1>1, <2>b, <3>3, <3>4, <3>5, <3>6 DEF CopyInv
  <2>2. CASE n = 2
    <3>1. Step = MetaOf("prior") /\ t[1] = MetaOf("next")
      <4>1. 2 - 1 = 1 /\ 1 \in 1 .. 2 - 1 /\ 1 + 1 = 2 /\ 2 >= 2
        OBVIOUS
      <4> QED
        BY <1>6, <2>0, <2>2, <4>1
    <3>2. live' = live \cup {MetaOf("prior")} /\ copied'["prior"] = live \cap Of("prior")
      BY <1>1, <1>2, <1>3, <2>a, <3>1
    <3>3. MetaOf("prior") \notin live
      BY <2>0, <2>2
    <3>4. copied'["prior"] = (live' \cap Of("prior")) \ {MetaOf("prior")}
      BY <3>2, <3>3
    <3>5. MetaOf("next") \notin live'
      BY <2>0, <2>a, <3>2
    <3>6. Len(todo') = 1 /\ ~(1 >= 2) /\ ~(1 < 1)
      BY <2>b, <2>2
    <3> QED
      BY <1>1, <3>1, <3>4, <3>5, <3>6 DEF CopyInv, Current
  <2>3. CASE n = 1
    <3>1. Step = MetaOf("next")
      BY <1>6, <2>0, <2>3
    <3>2. /\ live' = live \cup {MetaOf("next")}
          /\ copied'["next"] = live \cap Of("next") /\ copied'["prior"] = copied["prior"]
      BY <1>1, <1>2, <1>3, <2>a, <3>1
    <3>3. copied'["next"] = (live' \cap Of("next")) \ {MetaOf("next")}
      BY <2>0, <3>2
    <3>4. live' \cap Of("prior") = live \cap Of("prior")
      BY <2>a, <3>2 DEF Of
    <3>5. copied'["prior"] = (live' \cap Of("prior")) \ {MetaOf("prior")}
      BY <2>0, <2>3, <3>2, <3>4
    <3>6. Len(todo') = 0 /\ ~(0 >= 2) /\ ~(0 >= 1)
      BY <2>b, <2>3
    <3> QED
      BY <1>1, <3>3, <3>5, <3>6 DEF CopyInv, Current
  <2>4. n >= 3 \/ n = 2 \/ n = 1
    BY <1>6
  <2> QED
    BY <2>1, <2>2, <2>3, <2>4
<1> QED
  BY <1>7, <1>8, <1>9, <1>10 DEF PiecesInv

\* A failed allocation frees memory that nothing is made of yet.
LEMMA PiecesAllocationFails == TypeOK /\ PiecesInv /\ AllocationFails => PiecesInv'
<1> SUFFICES ASSUME TypeOK, PiecesInv, AllocationFails
             PROVE  PiecesInv'
  OBVIOUS
<1>1. /\ pc = "allocate" /\ pc' \in {"aborted", "abandon"} /\ todo # <<>>
      /\ live' \in {live, live \ FreedOnFailure(Step)} /\ UNCHANGED <<held, copied>>
  BY DEF AllocationFails
<1>2. todo \in Seq(Call) /\ live \subseteq Pieces
  BY DEF TypeOK
<1>3. held = live /\ InOrder(todo, live) /\ \A r \in live : Known(r)
  BY <1>1 DEF PiecesInv, ChannelInv, Made
<1>4. Fits(Step, live)
  BY <1>1, <1>2, <1>3, TailInOrder
<1>5. ASSUME NEW r \in live, NEW x \in Needs(r)
      PROVE  x \in live /\ x \notin FreedOnFailure(Step)
  <2>1. x \in live
    BY <1>1 DEF PiecesInv, NothingDangles
  <2>2. ASSUME x \in FreedOnFailure(Step)
        PROVE  FALSE
    <3>1. /\ WqPart(Step)
          /\ x \in {<<Step[1], Step[2], "data">>, <<Step[1], Step[2], "ring">>}
      BY <2>2 DEF FreedOnFailure, WqPart
    <3>2. /\ x[1] = Step[1] /\ x[2] = Step[2] /\ x[3] \in {"data", "ring"}
          /\ x[2] \in {"sq", "rq"}
      BY <3>1 DEF WqPart
    <3>3. r \in Users(x)
      BY <1>2, <3>2, UsersOfMemory
    <3>4. Users(x) = Users(Step)
      BY <3>2 DEF Users
    <3> QED
      BY <1>4, <3>1, <3>3, <3>4 DEF Fits
  <2> QED
    BY <2>1, <2>2
<1>6. \A r \in live' : Needs(r) \subseteq live'
  BY <1>1, <1>5
<1>7. NothingDangles'
  BY <1>6 DEF NothingDangles
<1>8. ChannelInv'
  BY <1>1, <1>3 DEF ChannelInv, Begun, Made
<1>9. CopyInv' /\ ReleaseInv' /\ ChannelGone' /\ CopyIsCurrent'
  BY <1>1 DEF CopyInv, ReleaseInv, ChannelGone, CopyIsCurrent
<1> QED
  BY <1>7, <1>8, <1>9 DEF PiecesInv

\* The channel is complete, or forgotten as a whole.
LEMMA PiecesAllocationEnds == TypeOK /\ PiecesInv /\ (ChannelAllocated \/ AbandonChannel) => PiecesInv'
<1> SUFFICES ASSUME TypeOK, PiecesInv, ChannelAllocated \/ AbandonChannel
             PROVE  PiecesInv'
  OBVIOUS
<1>1. CASE ChannelAllocated
  <2>1. /\ pc = "allocate" /\ pc' = "init" /\ todo = <<>>
        /\ UNCHANGED <<live, held, copied>>
    BY <1>1 DEF ChannelAllocated, chan_vars
  <2>2. Len(todo) < 2 /\ Len(todo) < 1
    BY <2>1
  <2>3. Current("prior") /\ Current("next")
    BY <2>1, <2>2 DEF PiecesInv, CopyInv
  <2>4. CopyIsCurrent'
    BY <2>1, <2>3 DEF CopyIsCurrent, Current, MetaOf, Sides
  <2>5. ChannelInv' /\ NothingDangles'
    BY <2>1 DEF PiecesInv, ChannelInv, NothingDangles, Begun, Made
  <2>6. CopyInv' /\ ReleaseInv' /\ ChannelGone'
    BY <2>1 DEF CopyInv, ReleaseInv, ChannelGone
  <2> QED
    BY <2>4, <2>5, <2>6 DEF PiecesInv
<1>2. CASE AbandonChannel
  <2>1. pc = "abandon" /\ pc' = "failed" /\ UNCHANGED <<live, copied>>
    BY <1>2 DEF AbandonChannel
  <2>2. ChannelInv' /\ NothingDangles'
    BY <2>1 DEF PiecesInv, ChannelInv, NothingDangles, Begun, Made
  <2>3. CopyInv' /\ ReleaseInv' /\ ChannelGone' /\ CopyIsCurrent'
    BY <2>1 DEF CopyInv, ReleaseInv, ChannelGone, CopyIsCurrent
  <2> QED
    BY <2>2, <2>3 DEF PiecesInv
<1> QED
  BY <1>1, <1>2

\* Everything that exists is named and, but for queue pairs and keys, on the
\* list of deallocate_channel, which makes each call once.
LEMMA PiecesUnregister == TypeOK /\ PiecesInv /\ Unregister => PiecesInv'
<1> SUFFICES ASSUME TypeOK, PiecesInv, Unregister
             PROVE  PiecesInv'
  OBVIOUS
<1>1. /\ pc = "registered" /\ pc' = "release" /\ todo' = DeallocateChannel
      /\ UNCHANGED <<live, held, copied>>
  BY DEF Unregister, chan_vars
<1>2. held = live /\ live \subseteq Pieces /\ \A r \in live : Known(r)
  BY <1>1 DEF PiecesInv, ChannelInv, Made, TypeOK
<1>3. ReleaseInv'
  BY <1>1, <1>2, DeallocationOnce DEF ReleaseInv
<1>4. ChannelInv'
  BY <1>1, <1>2 DEF ChannelInv, Begun, Made
<1>5. CopyInv' /\ ChannelGone' /\ CopyIsCurrent' /\ NothingDangles'
  BY <1>1 DEF CopyInv, ChannelGone, CopyIsCurrent, NothingDangles
<1> QED
  BY <1>3, <1>4, <1>5 DEF PiecesInv

\* A piece that is freed is not on the rest of the list, so that it does not
\* matter whether its address is reset.
LEMMA PiecesRelease == TypeOK /\ PiecesInv /\ (Release \/ ReleaseSkipped) => PiecesInv'
<1> SUFFICES ASSUME TypeOK, PiecesInv, Release \/ ReleaseSkipped
             PROVE  PiecesInv'
  OBVIOUS
<1> DEFINE t == Tail(todo)
<1>1. /\ pc = "release" /\ pc' = "release" /\ todo # <<>> /\ todo' = t
      /\ live' = live \ {Step} /\ held' \in {held, held \ {Step}}
  <2>1. CASE Release
    BY <2>1 DEF Release
  <2>2. CASE ReleaseSkipped
    <3>1. Step \notin live
      BY <2>2 DEF ReleaseSkipped, PiecesInv, ReleaseInv
    <3> QED
      BY <2>2, <3>1 DEF ReleaseSkipped, chan_vars
  <2> QED
    BY <2>1, <2>2
<1>2. /\ Once(todo) /\ live \subseteq held /\ Members(todo) \cap held \subseteq live
      /\ \A r \in live : r[2] = "qp" \/ r[3] = "mkey" \/ r \in Members(todo)
  BY <1>1 DEF PiecesInv, ReleaseInv
<1>3. /\ Members(todo) = {Step} \cup Members(t)
      /\ Once(t) /\ Step \notin Members(t)
  BY <1>1, <1>2, TailMembers DEF TypeOK
<1> HIDE DEF t
<1>4. ReleaseInv'
  <2>1. live' \subseteq held' /\ Members(t) \cap held' \subseteq live'
    BY <1>1, <1>2, <1>3
  <2>2. \A r \in live' : r[2] = "qp" \/ r[3] = "mkey" \/ r \in Members(t)
    BY <1>1, <1>2, <1>3
  <2> QED
    BY <1>1, <1>3, <2>1, <2>2 DEF ReleaseInv
<1>5. ChannelInv'
  BY <1>1 DEF PiecesInv, ChannelInv, Begun, Made
<1>6. CopyInv' /\ ChannelGone' /\ CopyIsCurrent' /\ NothingDangles'
  BY <1>1 DEF CopyInv, ChannelGone, CopyIsCurrent, NothingDangles
<1> QED
  BY <1>4, <1>5, <1>6 DEF PiecesInv

\* When the list is done, what is left was never on it.
LEMMA PiecesReleaseEnds == PiecesInv /\ (ChannelReleased \/ DestroyProcess) => PiecesInv'
<1> SUFFICES ASSUME PiecesInv, ChannelReleased \/ DestroyProcess
             PROVE  PiecesInv'
  OBVIOUS
<1>1. CASE ChannelReleased
  <2>1. /\ pc = "release" /\ pc' = "destroy" /\ todo = <<>>
        /\ UNCHANGED <<live, held, copied>>
    BY <1>1 DEF ChannelReleased, chan_vars
  <2>2. Members(todo) = {}
    BY <2>1 DEF Members
  <2>3. ChannelGone'
    BY <2>1, <2>2 DEF PiecesInv, ReleaseInv, ChannelGone
  <2>4. ChannelInv'
    BY <2>1 DEF PiecesInv, ChannelInv, Begun, Made
  <2>5. CopyInv' /\ ReleaseInv' /\ CopyIsCurrent' /\ NothingDangles'
    BY <2>1 DEF CopyInv, ReleaseInv, CopyIsCurrent, NothingDangles
  <2> QED
    BY <2>3, <2>4, <2>5 DEF PiecesInv
<1>2. CASE DestroyProcess
  <2>1. \/ pc' = "unregistered" /\ live' = {} /\ held' = {}
        \/ pc' = "stuck" /\ UNCHANGED <<live, held>>
    BY <1>2 DEF DestroyProcess
  <2>2. ChannelInv' /\ NothingDangles'
    BY <2>1 DEF PiecesInv, ChannelInv, NothingDangles, Begun, Made
  <2>3. CopyInv' /\ ReleaseInv' /\ ChannelGone' /\ CopyIsCurrent'
    BY <2>1 DEF CopyInv, ReleaseInv, ChannelGone, CopyIsCurrent
  <2> QED
    BY <2>2, <2>3 DEF PiecesInv
<1> QED
  BY <1>1, <1>2

\* Every step of the host, the NIC and the device keeps the invariant.
LEMMA PiecesNext == TypeOK /\ PiecesInv /\ [Next]_vars => PiecesInv'
<1> SUFFICES ASSUME TypeOK, PiecesInv, [Next]_vars
             PROVE  PiecesInv'
  OBVIOUS
<1> DEFINE Quiet == /\ UNCHANGED <<live, held, copied>>
                    /\ pc' \notin {"allocate", "release", "destroy"}
                    /\ pc' \in Begun => pc \in Begun
                    /\ pc' \in Made => pc \in Made
                    /\ pc' \in Reading => pc \in Reading
                    /\ pc' \notin TakenApart => pc \notin TakenApart
<1>1. CASE CreateProcess \/ CreateEventHandler
  <2>1. Quiet
    BY <1>1 DEF CreateProcess, CreateEventHandler, chan_vars, Begun, Made, Reading, TakenApart
  <2> QED
    BY <2>1, PiecesQuiet
<1>2. CASE InitDevice \/ ReleaseFails \/ ConnectToNeighbour \/ Connected
  <2>1. Quiet
    BY <1>2 DEF InitDevice, ReleaseFails, ConnectToNeighbour, Connected, chan_vars, Begun, Made,
                Reading, TakenApart
  <2> QED
    BY <2>1, PiecesQuiet
<1>3. CASE ConnectStep
  <2>1. Quiet
    BY <1>3 DEF ConnectStep, chan_vars, Begun, Made, Reading, TakenApart
  <2> QED
    BY <2>1, PiecesQuiet
<1>4. CASE AddRule \/ RunBlock
  <2>1. Quiet
    BY <1>4 DEF AddRule, RunBlock, chan_vars, Begun, Made, Reading, TakenApart
  <2> QED
    BY <2>1, PiecesQuiet
<1>5. CASE Nic \/ Device \/ UNCHANGED vars
  <2>1. UNCHANGED <<pc, todo, live, held, copied>>
    BY <1>5 DEF Nic, Device, vars, host_vars, chan_vars
  <2> QED
    BY <2>1, PiecesStutter
<1>6. CASE ResolvePort
  BY <1>6, PiecesResolve
<1>7. CASE Allocated \/ AllocationFails \/ ChannelAllocated \/ AbandonChannel
  BY <1>7, PiecesAllocated, PiecesAllocationFails, PiecesAllocationEnds
<1>8. CASE Unregister \/ Release \/ ReleaseSkipped \/ ChannelReleased \/ DestroyProcess
  BY <1>8, PiecesUnregister, PiecesRelease, PiecesReleaseEnds
<1> QED
  BY <1>1, <1>2, <1>3, <1>4, <1>5, <1>6, <1>7, <1>8 DEF Next, Host

\* The invariant of the channel holds throughout.
LEMMA PiecesInvariance == Spec => [](TypeOK /\ PiecesInv)
<1>1. IInv => TypeOK
  BY DEF IInv
<1> QED
  BY <1>1, Invariance, PiecesInit, PiecesNext, PTL DEF Spec

----------------------------------------------------------------------------
(* The theorems.                                                           *)

\* Wherever a driver call fails, nothing is freed or destroyed that does not
\* exist any more: neither by __allocate_wq_memory when it undoes its own
\* allocations, nor by deallocate_channel, although both leave addresses of
\* freed memory behind.
THEOREM NothingFreedTwice == Spec => []ReleasedOnce
<1>1. TypeOK /\ PiecesInv => ReleasedOnce
  <2> SUFFICES ASSUME TypeOK, PiecesInv
               PROVE  ReleasedOnce
    OBVIOUS
  <2>1. ASSUME pc = "release", todo # <<>>, Step \in held
        PROVE  Step \in live
    <3>1. Step \in Members(todo)
      BY <2>1, TailMembers DEF TypeOK
    <3> QED
      BY <2>1, <3>1 DEF PiecesInv, ReleaseInv
  <2>2. ASSUME pc = "allocate"
        PROVE  FreedOnFailure(Step) \subseteq live
    BY <2>2 DEF PiecesInv, ChannelInv, Made, FreedOnFailure
  <2> QED
    BY <2>1, <2>2 DEF ReleasedOnce
<1> QED
  BY <1>1, PiecesInvariance, PTL

\* Whatever exists on the device finds what it was created from, also after an
\* allocation that failed half-way has freed memory: allocate_channel makes
\* the completion queues first, and keys and objects after their memory.
THEOREM WhatIsMadeStands == Spec => []NothingDangles
<1>1. PiecesInv => NothingDangles
  BY DEF PiecesInv
<1> QED
  BY <1>1, PiecesInvariance, PTL

\* The copies of the metadata that dpa_device_init reads name all that was
\* allocated for the side, for channels of any type.
THEOREM CopiesAreCurrent == Spec => []CopyIsCurrent
<1>1. PiecesInv => CopyIsCurrent
  BY DEF PiecesInv
<1> QED
  BY <1>1, PiecesInvariance, PTL

\* When deallocate_channel succeeds, only queue pairs of RDMA with their memory,
\* and memory keys, are left on the device.
THEOREM DeallocatedChannelIsGone == Spec => []ChannelGone
<1>1. PiecesInv => ChannelGone
  BY DEF PiecesInv
<1> QED
  BY <1>1, PiecesInvariance, PTL

=============================================================================
