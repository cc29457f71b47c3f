----------------------------- MODULE DpaEvents -----------------------------
(***************************************************************************)
(* The device side of a DPA block: the NIC writes completions into a ring  *)
(* and, if the completion queue is armed, wakes the event handler; the     *)
(* handler polls the ring by owner bit until it meets an entry that still  *)
(* belongs to the hardware, arms the queue again and goes to sleep. Both   *)
(* completion queues of received packets wake the same handler, which      *)
(* knows the one towards the prior block only.                             *)
(*                                                                         *)
(* Receive buffers are never posted again: a queue pair completes at most  *)
(* the RqDepth receives its doorbell record was set to once.               *)
(***************************************************************************)
EXTENDS Integers

CONSTANTS
  RqDepth,  \* 2^DPA_LOG_RQ_RING_DEPTH, on which DPA_RQ_IDX_MASK is based
  CqDepth   \* 2^DPA_LOG_CQ_RING_DEPTH, the entries of a completion ring

ASSUME DepthAssumption ==
  /\ RqDepth \in Nat \ {0}
  /\ CqDepth \in Nat
  /\ RqDepth <= CqDepth

Sides == {"prior", "next"}

VARIABLES
  produced,  \* per side, the completions the NIC has written
  owner,     \* per side, the owner bits of the completion ring
  armed,     \* the sides whose completion queue wakes the handler
  wake,      \* the handler has been woken and has not entered yet
  ctx,       \* dev_ctx: is_initalized and rqcq_ctx
  handler    \* where dpa_event_handler is

dev_vars == <<produced, owner, armed, wake, ctx, handler>>

Slots == 0 .. CqDepth - 1

DevTypeOK ==
  /\ produced \in [Sides -> 0 .. RqDepth]
  /\ owner \in [Sides -> [Slots -> {0, 1}]]
  /\ armed \subseteq Sides
  /\ wake \in BOOLEAN
  /\ ctx \in [init : BOOLEAN, idx : 0 .. RqDepth, bit : {0, 1}]
  /\ handler \in {"asleep", "poll", "arm"}

\* dev_ctx is zeroed; nothing is known of a ring before it is allocated.
DevInit ==
  /\ produced = [s \in Sides |-> 0]
  /\ owner = [s \in Sides |-> [i \in Slots |-> 0]]
  /\ armed = {} /\ wake = FALSE
  /\ ctx = [init |-> FALSE, idx |-> 0, bit |-> 0]
  /\ handler = "asleep"

----------------------------------------------------------------------------
(* Plausible slips, each a variant of the operator it is named after.      *)

Bug_SteppedKeepsBit(c) == [c EXCEPT !.idx = @ + 1]

Bug_RearmNever == armed

Bug_InitCqBit == [init |-> TRUE, idx |-> 0, bit |-> 0]

----------------------------------------------------------------------------
(* The host prepares the rings and calls dpa_device_init.                  *)

\* __allocate_cq_memory: every entry belongs to the hardware. flexio_cq_create
\* arms the queue.
HardwareOwned == [i \in Slots |-> 1]

\* init_cq for the prior side; the queue towards the next block is not looked
\* at.
InitCq == [init |-> TRUE, idx |-> 0, bit |-> 1]

----------------------------------------------------------------------------
(* The NIC.                                                                *)

\* The owner bit of the n-th completion, counted from 0, alternates from one
\* lap to the next.
OwnerBit(n) == (n \div CqDepth) % 2

Complete(s) ==
  /\ produced[s] < RqDepth
  /\ owner' = [owner EXCEPT ![s][produced[s] % CqDepth] = OwnerBit(produced[s])]
  /\ produced' = [produced EXCEPT ![s] = @ + 1]
  /\ wake' = (wake \/ s \in armed)
  /\ armed' = armed \ {s}
  /\ UNCHANGED <<ctx, handler>>

----------------------------------------------------------------------------
(* dpa_event_handler.                                                      *)

\* An event that comes before the initialisation is lost: the queue it came
\* from is not armed again.
Enter ==
  /\ handler = "asleep" /\ wake
  /\ wake' = FALSE
  /\ handler' = IF ctx.init THEN "poll" ELSE "asleep"
  /\ UNCHANGED <<produced, owner, armed, ctx>>

\* The current entry is new when its owner bit is not the hardware's.
NewCqe == owner["prior"][ctx.idx % RqDepth] # ctx.bit

\* step_cq: on to the next entry, and on a wrap-around the bit is flipped.
Stepped(c) ==
  [c EXCEPT !.idx = @ + 1,
            !.bit = IF (c.idx + 1) % RqDepth = 0 THEN 1 - @ ELSE @]

StepCq ==
  /\ handler = "poll" /\ NewCqe
  /\ ctx' = Stepped(ctx)
  /\ UNCHANGED <<produced, owner, armed, wake, handler>>

Drained ==
  /\ handler = "poll" /\ ~NewCqe
  /\ handler' = "arm"
  /\ UNCHANGED <<produced, owner, armed, wake, ctx>>

\* flexio_dev_cq_arm is given the consumer index: where the NIC is past it
\* already, the handler is woken at once.
Rearmed == IF produced["prior"] > ctx.idx THEN armed ELSE armed \cup {"prior"}

ArmCq ==
  /\ handler = "arm"
  /\ armed' = Rearmed
  /\ wake' = (wake \/ produced["prior"] > ctx.idx)
  /\ handler' = "asleep"
  /\ UNCHANGED <<produced, owner, ctx>>

Handler == Enter \/ StepCq \/ Drained \/ ArmCq

----------------------------------------------------------------------------
(* Properties of the device side.                                          *)

\* Whenever the handler looks at an entry, its owner bit tells a completion
\* not yet counted from a stale or an empty entry: none is counted twice, none
\* is missed, also at the wrap-around (step_cq, init_cq, __allocate_cq_memory
\* and the NIC agree on index and bit).
OwnerBitTells ==
  ctx.init => (NewCqe <=> ctx.idx < produced["prior"])

=============================================================================
