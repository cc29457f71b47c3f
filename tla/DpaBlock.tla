------------------------------ MODULE DpaBlock ------------------------------
(***************************************************************************)
(* The life of a DPA block: the host creates the process and the event     *)
(* handler, allocates the channel piece by piece on the device, has the    *)
(* device initialise itself from a copy of the metadata, connects the      *)
(* queue pairs and starts the handler; or it unregisters the function and  *)
(* releases the pieces in a second order. Every call of the driver may     *)
(* fail. Meanwhile the NIC and the handler run (module DpaEvents).         *)
(*                                                                         *)
(* A piece of the channel is <<side, queue, part>>. `live' is what exists  *)
(* on the device, `held' what the host's metadata names by a non-null      *)
(* address or handle. The calls come in the order in which                 *)
(* DatapathPipeline makes them: a function is unregistered only when the   *)
(* registration of another one failed, before anything is connected.       *)
(***************************************************************************)
EXTENDS DpaEvents, Sequences

CONSTANT
  ChannelTypes  \* per side, the types Channel_DPA may be created with

ASSUME ChannelTypesAssumption == ChannelTypes \subseteq [Sides -> {"RDMA", "ETHERNET"}]

Queues == {"sq_cq", "rq_cq", "sq", "rq", "qp", "meta"}
Parts == {"dbr", "ring", "data", "obj", "mkey"}
Pieces == Sides \X Queues \X Parts

\* A driver call makes or frees a piece, or prepares one.
Call == Sides \X Queues \X (Parts \cup {"wqes", "count", "info", "INIT", "RTR", "RTS", "fill"})

RuleParts == {"table", "matcher", "rule", "action", "dr_rule"}

VARIABLES
  types,      \* _typeid_of_prior, _typeid_of_next
  links,      \* the sides the block is to connect to a host
  pc,         \* what the host is doing
  todo,       \* the driver calls it has yet to make for that
  process,    \* the FlexIO process with its event handler
  port,       \* what is known of the RDMA port (_resolve)
  live, held,
  copied,     \* per side, what the copy of the metadata on the device names
  info,       \* per side, the QPInfo for the host
  qp,         \* per side, the state of the RDMA queue pair
  filled,     \* the sides whose doorbell record counts the receive buffers
  connected,  \* _state
  rule        \* the parts of the steering rule

chan_vars == <<port, live, held, copied, info>>
conn_vars == <<qp, filled, connected, rule>>
host_vars == <<pc, todo, process, chan_vars, conn_vars>>
vars == <<types, links, host_vars, dev_vars>>

Doing == {"process", "handler", "resolve", "allocate", "abandon", "init", "connect",
          "steer", "start", "release", "destroy"}
Done == {"failed", "registered", "not_connected", "not_started", "running", "stuck",
         "unregistered", "aborted", "undefined"}

TypeOK ==
  /\ DevTypeOK
  /\ types \in ChannelTypes /\ links \subseteq Sides
  /\ pc \in Doing \cup Done
  /\ todo \in Seq(Call)
  /\ process \in {"none", "created", "ready", "destroyed"}
  /\ port \in {"unknown", "partial", "resolved"}
  /\ live \subseteq Pieces /\ held \subseteq Pieces
  /\ copied \in [Sides -> SUBSET Pieces]
  /\ info \in [Sides -> {"none", "partial", "resolved"}]
  /\ qp \in [Sides -> {"RESET", "INIT", "RTR", "RTS"}]
  /\ filled \subseteq Sides /\ connected \subseteq Sides
  /\ rule \subseteq RuleParts

\* The function state and the queue handlers are not initialised by their
\* constructors, only the metadata is zeroed.
Init ==
  /\ DevInit
  /\ types \in ChannelTypes /\ links \in SUBSET Sides
  /\ pc = "process" /\ todo = <<>> /\ process = "none" /\ port = "unknown"
  /\ live = {} /\ held = {}
  /\ copied = [s \in Sides |-> {}]
  /\ info = [s \in Sides |-> "none"]
  /\ qp = [s \in Sides |-> "RESET"]
  /\ filled = {} /\ connected = {} /\ rule = {}

Of(s) == {r \in Pieces : r[1] = s}

----------------------------------------------------------------------------
(* Which driver calls are made, and in which order.                        *)

\* __allocate_cq_memory and flexio_cq_create; then the other way round.
AllocateCq(s, q) == << <<s, q, "dbr">>, <<s, q, "ring">>, <<s, q, "obj">> >>
DeallocateCq(s, q) == << <<s, q, "obj">>, <<s, q, "dbr">>, <<s, q, "ring">> >>

\* __allocate_wq_memory, __deallocate_wq_memory.
WqMemory(s, q) == << <<s, q, "data">>, <<s, q, "ring">>, <<s, q, "dbr">> >>

QpMemory(s) == << <<s, "qp", "data">>, <<s, "qp", "ring">> >>

CreateEthernetQp(s) ==
  WqMemory(s, "sq") \o << <<s, "sq", "obj">>, <<s, "sq", "mkey">> >>
    \o WqMemory(s, "rq")
    \o << <<s, "rq", "mkey">>, <<s, "rq", "wqes">>, <<s, "rq", "obj">>, <<s, "rq", "count">> >>

CreateRdmaQp(s) ==
  << <<s, "qp", "dbr">> >> \o QpMemory(s)
    \o << <<s, "qp", "mkey">>, <<s, "qp", "wqes">>, <<s, "qp", "obj">> >>

CreateQp(s) == IF types[s] = "RDMA" THEN CreateRdmaQp(s) ELSE CreateEthernetQp(s)

SetLocalQpInfo(s) == IF types[s] = "RDMA" THEN << <<s, "qp", "info">> >> ELSE <<>>

\* A slip: the receive queue's memory is mistaken for the send queue's.
Bug_DestroyQpFreesSqTwice(s) ==
  << <<s, "sq", "obj">> >> \o WqMemory(s, "sq") \o << <<s, "rq", "obj">> >> \o WqMemory(s, "sq")

\* A queue pair of RDMA, its memory and every memory key are left alone.
DestroyQp(s) ==
  << <<s, "sq", "obj">> >> \o WqMemory(s, "sq") \o << <<s, "rq", "obj">> >> \o WqMemory(s, "rq")

CopyMetadata(s) == << <<s, "meta", "data">> >>

ConnectQp(s) ==
  << <<s, "qp", "INIT">>, <<s, "qp", "RTR">>, <<s, "qp", "RTS">>, <<s, "qp", "fill">> >>

----------------------------------------------------------------------------
(* Plausible slips, each a variant of the operator it is named after.      *)

\* The metadata is copied before the queue pairs are made.
Bug_AllocateChannelCopiesEarly ==
  AllocateCq("prior", "sq_cq") \o AllocateCq("next", "sq_cq")
    \o AllocateCq("prior", "rq_cq") \o AllocateCq("next", "rq_cq")
    \o CopyMetadata("prior") \o CopyMetadata("next")
    \o CreateQp("prior") \o CreateQp("next")
    \o SetLocalQpInfo("prior") \o SetLocalQpInfo("next")

\* The queue pairs are made before the completion queues of their receives.
Bug_AllocateChannelQpFirst ==
  AllocateCq("prior", "sq_cq") \o AllocateCq("next", "sq_cq")
    \o CreateQp("prior") \o CreateQp("next")
    \o AllocateCq("prior", "rq_cq") \o AllocateCq("next", "rq_cq")
    \o SetLocalQpInfo("prior") \o SetLocalQpInfo("next")
    \o CopyMetadata("prior") \o CopyMetadata("next")

\* The completion queue of the next side is forgotten.
Bug_DeallocateChannelForgetsNext ==
  DeallocateCq("prior", "sq_cq") \o DeallocateCq("prior", "rq_cq") \o DeallocateCq("next", "sq_cq")
    \o DestroyQp("prior") \o DestroyQp("next")
    \o CopyMetadata("prior") \o CopyMetadata("next")

\* The label that destroys the action is passed by.
Bug_UndoneAfter(n) == (IF n >= 3 THEN {"rule"} ELSE {}) \cup {"matcher", "table"}

----------------------------------------------------------------------------
(* Registering: the process and its event handler, then the channel.       *)

\* allocate_channel and deallocate_channel.
AllocateChannel ==
  AllocateCq("prior", "sq_cq") \o AllocateCq("next", "sq_cq")
    \o AllocateCq("prior", "rq_cq") \o AllocateCq("next", "rq_cq")
    \o CreateQp("prior") \o CreateQp("next")
    \o SetLocalQpInfo("prior") \o SetLocalQpInfo("next")
    \o CopyMetadata("prior") \o CopyMetadata("next")

DeallocateChannel ==
  DeallocateCq("prior", "sq_cq") \o DeallocateCq("prior", "rq_cq")
    \o DeallocateCq("next", "sq_cq") \o DeallocateCq("next", "rq_cq")
    \o DestroyQp("prior") \o DestroyQp("next")
    \o CopyMetadata("prior") \o CopyMetadata("next")

\* When the version or the process is refused, a pointer nobody set is tested
\* and, unless it happens to be null, destroyed.
CreateProcess ==
  /\ pc = "process"
  /\ \/ pc' = "handler" /\ process' = "created"
     \/ pc' \in {"failed", "undefined"} /\ UNCHANGED process
  /\ UNCHANGED <<types, links, todo, chan_vars, conn_vars, dev_vars>>

\* Its user access region, its protection domain and the event handler.
CreateEventHandler ==
  /\ pc = "handler"
  /\ \/ pc' = "resolve" /\ process' = "ready"
     \/ pc' = "failed" /\ process' = "destroyed"
  /\ UNCHANGED <<types, links, todo, chan_vars, conn_vars, dev_vars>>

\* common_resolve_phy_port throws when the port cannot be used; that the
\* addresses cannot be resolved goes unnoticed.
ResolvePort ==
  /\ pc = "resolve"
  /\ \/ /\ pc' = "allocate" /\ todo' = AllocateChannel
        /\ port' \in {"resolved", "partial"}
     \/ /\ pc' = "aborted"
        /\ UNCHANGED <<port, todo>>
  /\ UNCHANGED <<types, links, process, live, held, copied, info, conn_vars, dev_vars>>

Step == Head(todo)
IsPiece(r) == r[3] \in Parts

\* Only the completion rings of received packets matter to the device.
RingSet == IF Step[2] = "rq_cq" /\ Step[3] = "ring"
           THEN [owner EXCEPT ![Step[1]] = HardwareOwned]
           ELSE owner

Allocated ==
  /\ pc = "allocate" /\ todo # <<>>
  /\ live' = IF IsPiece(Step) THEN live \cup {Step} ELSE live
  /\ held' = IF IsPiece(Step) THEN held \cup {Step} ELSE held
  /\ owner' = RingSet
  /\ armed' = IF Step[2] = "rq_cq" /\ Step[3] = "obj" THEN armed \cup {Step[1]} ELSE armed
  /\ copied' = IF Step[2] = "meta"
               THEN [copied EXCEPT ![Step[1]] = held \cap Of(Step[1])] ELSE copied
  /\ info' = IF Step[3] = "info" THEN [info EXCEPT ![Step[1]] = port] ELSE info
  /\ filled' = IF Step[3] = "count" THEN filled \cup {Step[1]} ELSE filled
  /\ todo' = Tail(todo)
  /\ UNCHANGED <<types, links, pc, process, port, qp, connected, rule,
                 produced, wake, ctx, handler>>

\* What was made before is left, but __allocate_wq_memory frees its buffers;
\* it does not reset their addresses. QPInfo lies in memory nobody has set,
\* and __set_local_qp_info asserts that it is not yet initialised.
FreedOnFailure(r) ==
  IF r[2] \in {"sq", "rq"} /\ r[3] \in {"data", "ring", "dbr"}
  THEN held \cap {<<r[1], r[2], "data">>, <<r[1], r[2], "ring">>}
  ELSE {}

AllocationFails ==
  /\ pc = "allocate" /\ todo # <<>>
  /\ IF Step[3] = "info"
     THEN pc' = "aborted" /\ UNCHANGED live
     ELSE pc' = "abandon" /\ live' = live \ FreedOnFailure(Step)
  /\ todo' = <<>>
  /\ UNCHANGED <<types, links, process, port, held, copied, info, conn_vars, dev_vars>>

\* __allocate_wrapper_resources deletes the channel, and with it all knowledge
\* of what is still on the device; process and event handler stay.
AbandonChannel ==
  /\ pc = "abandon"
  /\ pc' = "failed" /\ held' = {}
  /\ UNCHANGED <<types, links, todo, process, port, live, copied, info, conn_vars, dev_vars>>

ChannelAllocated ==
  /\ pc = "allocate" /\ todo = <<>>
  /\ pc' = "init"
  /\ UNCHANGED <<types, links, todo, process, chan_vars, conn_vars, dev_vars>>

\* The remote call of dpa_device_init with the two copies.
InitDevice ==
  /\ pc = "init"
  /\ \/ pc' = "registered" /\ ctx' = InitCq
     \/ pc' = "failed" /\ UNCHANGED ctx
  /\ UNCHANGED <<types, links, todo, process, chan_vars, conn_vars,
                 produced, owner, armed, wake, handler>>

----------------------------------------------------------------------------
(* Unregistering.                                                          *)

Unregister ==
  /\ pc = "registered"
  /\ pc' = "release" /\ todo' = DeallocateChannel
  /\ UNCHANGED <<types, links, process, chan_vars, conn_vars, dev_vars>>

\* A handle that was never set, of a queue this type of channel does not have.
Wild(r) == r[3] = "obj" /\ r[2] \in {"sq", "rq"} /\ types[r[1]] = "RDMA"

\* Addresses are zeroed once freed, except a work queue's doorbell record's
\* and the metadata's.
Forgotten(r) == ~(r[2] \in {"sq", "rq"} /\ r[3] = "dbr") /\ r[2] # "meta"

Release ==
  /\ pc = "release" /\ todo # <<>> /\ Step \in held
  /\ live' = live \ {Step}
  /\ held' = IF Forgotten(Step) THEN held \ {Step} ELSE held
  /\ todo' = Tail(todo)
  /\ UNCHANGED <<types, links, pc, process, port, copied, info, conn_vars, dev_vars>>

ReleaseSkipped ==
  /\ pc = "release" /\ todo # <<>> /\ Step \notin held
  /\ todo' = Tail(todo)
  /\ UNCHANGED <<types, links, pc, process, chan_vars, conn_vars, dev_vars>>

\* deallocate_channel stops at the first failure, and an uninitialised handle
\* that is not null is destroyed.
ReleaseFails ==
  /\ pc = "release" /\ todo # <<>>
  /\ \/ Step \in held /\ pc' = "stuck"
     \/ Wild(Step) /\ pc' = "undefined"
  /\ todo' = <<>>
  /\ UNCHANGED <<types, links, process, chan_vars, conn_vars, dev_vars>>

ChannelReleased ==
  /\ pc = "release" /\ todo = <<>>
  /\ pc' = "destroy"
  /\ UNCHANGED <<types, links, todo, process, chan_vars, conn_vars, dev_vars>>

\* Whatever is left on the device goes with the process, and the function
\* state is deleted.
DestroyProcess ==
  /\ pc = "destroy"
  /\ \/ pc' = "unregistered" /\ process' = "destroyed" /\ live' = {} /\ held' = {}
     \/ pc' = "stuck" /\ UNCHANGED <<process, live, held>>
  /\ UNCHANGED <<types, links, todo, port, copied, info, conn_vars, dev_vars>>

----------------------------------------------------------------------------
(* Connecting to the hosts and starting.                                   *)

Calls == (IF "prior" \in links THEN ConnectQp("prior") ELSE <<>>)
           \o (IF "next" \in links THEN ConnectQp("next") ELSE <<>>)

ConnectToNeighbour ==
  /\ pc = "registered"
  /\ pc' = "connect" /\ todo' = Calls
  /\ UNCHANGED <<types, links, process, chan_vars, conn_vars, dev_vars>>

\* The state of the queue pair, then __fill_recv_queue. The handle of an RDMA
\* queue pair is not set on an Ethernet side.
ConnectStep ==
  /\ pc = "connect" /\ todo # <<>>
  /\ \/ /\ types[Step[1]] = "RDMA"
        /\ qp' = IF Step[3] = "fill" THEN qp ELSE [qp EXCEPT ![Step[1]] = Step[3]]
        /\ filled' = IF Step[3] = "fill" THEN filled \cup {Step[1]} ELSE filled
        /\ connected' = IF Step[3] = "fill" THEN connected \cup {Step[1]} ELSE connected
        /\ todo' = Tail(todo)
        /\ UNCHANGED pc
     \/ /\ pc' = IF types[Step[1]] = "RDMA" THEN "not_connected" ELSE "undefined"
        /\ todo' = <<>>
        /\ UNCHANGED <<qp, filled, connected>>
  /\ UNCHANGED <<types, links, process, chan_vars, rule, dev_vars>>

\* add_control_plane_rule is for an Ethernet side only.
Connected ==
  /\ pc = "connect" /\ todo = <<>>
  /\ pc' = IF types["prior"] = "ETHERNET" THEN "steer" ELSE "start"
  /\ UNCHANGED <<types, links, todo, process, chan_vars, conn_vars, dev_vars>>

RuleOrder == <<"table", "matcher", "rule", "action", "dr_rule">>

\* What the exit labels destroy when the call after the n-th fails;
\* __create_flow_table undoes its own two.
UndoneAfter(n) ==
  (IF n >= 4 THEN {"action"} ELSE {}) \cup (IF n >= 3 THEN {"rule"} ELSE {}) \cup {"matcher", "table"}

\* The pipeline does not look at the result.
AddRule ==
  /\ pc = "steer"
  /\ \E n \in 0 .. Len(RuleOrder) :
       LET made == {RuleOrder[i] : i \in 1 .. n}
       IN rule' = IF n = Len(RuleOrder) THEN made ELSE made \ UndoneAfter(n)
  /\ pc' = "start"
  /\ UNCHANGED <<types, links, todo, process, chan_vars, qp, filled, connected, dev_vars>>

RunBlock ==
  /\ pc = "start"
  /\ pc' \in {"running", "not_started"}
  /\ UNCHANGED <<types, links, todo, process, chan_vars, conn_vars, dev_vars>>

----------------------------------------------------------------------------

Host ==
  \/ CreateProcess \/ CreateEventHandler \/ ResolvePort
  \/ Allocated \/ AllocationFails \/ AbandonChannel \/ ChannelAllocated \/ InitDevice
  \/ Unregister \/ Release \/ ReleaseSkipped \/ ReleaseFails \/ ChannelReleased \/ DestroyProcess
  \/ ConnectToNeighbour \/ ConnectStep \/ Connected \/ AddRule \/ RunBlock

\* A host sends once it has been told of the queue pair, and the rule steers
\* packets to an Ethernet queue.
Reachable(s) ==
  /\ s \in filled
  /\ IF types[s] = "RDMA" THEN s \in connected ELSE s = "prior" /\ rule = RuleParts

Nic ==
  /\ pc \in {"steer", "start", "running", "not_started"}
  /\ \E s \in Sides : Reachable(s) /\ Complete(s)
  /\ UNCHANGED <<types, links, host_vars>>

\* The handler runs on events once flexio_event_handler_run has started it.
Device ==
  /\ pc = "running"
  /\ Handler
  /\ UNCHANGED <<types, links, host_vars>>

Next == Host \/ Nic \/ Device

Spec == Init /\ [][Next]_vars

\* The thread of the event handler, and the host's, run on.
FairSpec == Spec /\ WF_vars(Device) /\ WF_vars(Host)

----------------------------------------------------------------------------
(* Properties.                                                             *)

\* Nothing is freed or destroyed that does not exist any more, although some
\* addresses are not reset: neither by a failed __allocate_wq_memory nor by
\* deallocate_channel, whatever was allocated and wherever it fails.
ReleasedOnce ==
  /\ pc = "release" /\ todo # <<>> /\ Step \in held => Step \in live
  /\ pc = "allocate" /\ todo # <<>> => FreedOnFailure(Step) \subseteq live

\* What a piece is created from: the memory of a queue, the key for its data
\* and the completion queues whose numbers it is given.
Needs(r) ==
  LET own(ps) == {<<r[1], r[2], p>> : p \in ps}
      cqs(qs) == {<<r[1], q, "obj">> : q \in qs}
  IN CASE r[3] = "mkey" -> own({"data"})
       [] r[3] = "obj" /\ r[2] \in {"sq_cq", "rq_cq"} -> own({"dbr", "ring"})
       [] r[3] = "obj" /\ r[2] = "sq" -> own({"ring"}) \cup cqs({"sq_cq"})
       [] r[3] = "obj" /\ r[2] = "rq" -> own({"ring", "dbr", "mkey"}) \cup cqs({"rq_cq"})
       [] r[3] = "obj" /\ r[2] = "qp" ->
            own({"ring", "dbr", "mkey"}) \cup cqs({"sq_cq", "rq_cq"})
       [] OTHER -> {}

\* Until a function is unregistered, whatever exists on the device finds what
\* it was created from, also after an allocation has failed half-way
\* (allocate_channel, __create_ethernet_qp, __create_rdma_qp).
NothingDangles ==
  pc \notin {"release", "destroy", "stuck", "undefined"} =>
    \A r \in live : Needs(r) \subseteq live

\* The device initialises itself from copies of the metadata that name all
\* that was allocated for the side, and all of that exists: a copy taken too
\* early would lack a queue (allocate_channel, dpa_device_init).
CopyIsCurrent ==
  pc \in {"init", "registered", "connect", "steer", "start", "running"} =>
    \A s \in Sides : copied[s] = (live \cap Of(s)) \ {<<s, "meta", "data">>}

\* What dpa_channel.h promises of deallocate_channel, "including CQ, SQ, RQ":
\* when it succeeds, only queue pairs of RDMA, with their memory, and memory
\* keys are left for the destruction of the process.
ChannelGone == pc = "destroy" => \A r \in live : r[2] = "qp" \/ r[3] = "mkey"

\* Packets are steered to an Ethernet queue by a complete rule, or not at all:
\* wherever __add_control_plane_rule fails it leaves nothing in the domain.
RuleWholeOrNone == rule \in {{}, RuleParts}

\* Every packet from the prior block is counted by the event handler, however
\* its completion falls between the last look at the ring and the arming of
\* the queue, before the start of the handler, or next to an event of the other
\* side (dpa_event_handler).
PriorServed ==
  \A n \in 1 .. RqDepth : (pc = "running" /\ produced["prior"] >= n) ~> (ctx.idx >= n)

=============================================================================
