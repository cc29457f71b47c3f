# A TLA+ development of axio-bf3-express

axio (NICC in the code) runs an application's packet handlers on the
components of a BlueField-3 NIC. The runtime reads an application's graph,
allocates one *component block* per function, connects the blocks and the two
hosts by RDMA queue pairs, and starts one *wrapper* per block, the loop that
moves packets. This directory models that system in TLA+: modules that TLC
checks on small instances, and theorems about them that TLAPS checks for every
size. `PROJECT.json` says which definition models which lines.

Below, `W` is `lib/wrapper/soc/src/soc_wrapper.cc`, `H`
`lib/wrapper/soc/soc_wrapper.h`, `Q` `lib/common/soc_queue.h`, `C`
`runtime/src/datapath/channel_impl/soc_channel.cc`, `P`
`runtime/src/datapath_pipeline.cc`, `M`
`runtime/include/utils/mgnt_connection.h`, `R` `runtime/src/ctrlpath/routing.cc`,
`D` `runtime/src/datapath/channel_impl/dpa_channel.cc`, `B`
`runtime/src/datapath/block_impl/dpa.cc`, `E`
`lib/wrapper/dpa/src/dpa_wrapper.c` and `A` `runtime/src/utils/huge_alloc.cc`.

## 1. The system

| Component | State | Operations | Interacts with |
|---|---|---|---|
| SoC data path: `SoCWrapper`, `RDMA_SoC_QP`, `Buffer` | per queue pair two rings with head, tail and counters; two worker queues; a state per buffer | `__run`, `__launch` and the bursts it calls | NIC through verbs: posts work requests, polls completions |
| Worker queue: `soc_shm_lock_free_queue` | ring, `head_`, `tail_` | `enqueue`, `dequeue`, `get_size` | one producer and one consumer, made for two cores |
| SoC channel: `Channel_SoC` | two queue pairs, their rings, connection flags | allocate, connect, fill the receive queue | called by the SoC block; huge pages; verbs |
| Pipeline: `DatapathPipeline` | blocks, function-to-block map, routing | allocate, register, control plane, connect, run, deallocate | resource pool, blocks, hosts |
| Component blocks | function state, channel, handlers | register, connect to neighbours, run | channel; starts the wrapper thread |
| Resource pool, components | quota of each component | allocate, deallocate a block | pipeline |
| Management connection | TCP sockets to the two hosts | connect, accept, one message each way | pipeline, hosts |
| Routing | channel per kernel return value, default channel, rules | load, register, map, look up | pipeline; the data path does not use it yet |
| Match-action tables | tables, matchers, entries | create and destroy, load and unload | flow engine only, which `main.cc` does not build |
| Huge page allocator | free lists of size classes | alloc, split, free | channel |
| DPA channel and block: `Channel_DPA`, `ComponentBlock_DPA` | process, event handler, queues and their memory on the device, metadata on the host and its copies, steering rule | register, unregister, connect, add rule, run | FlexIO driver; initialises the device side by a remote call |
| DPA data path: `dpa_event_handler` | completion ring index and owner bit | event handler | NIC hardware: completions, arming, wake-ups |
| Application description: `AppDAG` | an item of `dp_graph` per component | look up | routing, read twice |

The rest (tool chain, firmware, examples, headers, timers, NUMA and device
helpers, the JSON reader) keeps no state of the running system and is not
modelled.

### What makes each part correct, and what is hard about it

* **SoC data path.** Every packet received from a neighbour is sent to the
  other one once, in order, from the buffer it arrived in; buffers neither leak
  nor get two owners. The wrapper keeps six indices per queue pair and never
  reads back from a completion which buffer it is about, so correctness is the
  agreement of these indices with queues the NIC advances at any moment. Hard:
  completions between any two calls, packets that take two different paths
  through one buffer life cycle, batches that wait for more traffic, full
  queues, a flush loop without time-out, posts that fail, a neighbour that dies.
* **Worker queue.** A bounded FIFO without locks. Hard: two cores, one
  memory access at a time, and the order in which stores become visible.
* **Pipeline, blocks, pool.** What is allocated is in use or given back,
  whichever step fails; no block is used after it was given back; each queue
  pair is connected once. Hard: error paths, which no test takes.
* **Management connection.** Each host learns the parameters of the queue pair
  it talks to. Hard: blocking calls in a fixed order, partial reads, a socket
  closed while data is under way.
* **Routing.** The rules of the graph and the tables of the blocks, parsed from
  the same text by two pieces of code, agree. Hard: operators that contain one
  another, numbers that are narrowed, components that are given twice.
* **Allocator, SoC channel.** Allocated buffers are disjoint, inside the
  registered region, and never short. Hard: sizes at class limits, splits.
* **DPA channel.** Of some thirty driver calls any may fail: what was made is
  released once, nothing outlives what it was made from, and the device's copy
  of the metadata is complete. Hard: two orders (making, releasing), two kinds
  of channel, handles that are not reset.
* **DPA data path.** Each completion is handled once and none is left without an
  event. Hard: a completion that races with re-arming, the wrap of the ring.

The list of hazards, each at its line and with the properties that cover it, is
in `PROJECT.json`.

## 2. Modules

| Module | Role |
|---|---|
| `SocDatapath` | The wrapper thread between two NIC queue pairs; all its properties |
| `Relay` | What a block promises: in either direction a lossless FIFO. `SocDatapath` implements it |
| `SocDatapathProofs` | Theorems about `SocDatapath`: types, worker queues, room to flush |
| `SocRingProofs` | The send side of a queue pair, and how each step moves buffers along their ring |
| `SocRelayProofs` | The receive side, owners and contents of buffers, and that `SocDatapath` implements `Relay` |
| `Sums` | Sums of natural numbers, for the two conservation laws |
| `Arithmetic` | Lemmas on indices modulo the size of a ring, and on sums |
| `ShmQueue` | The worker queue between two cores, one memory access per step |
| `BoundedFifo` | What the queue promises. `ShmQueue` implements it |
| `ShmQueueProofs` | Theorems about `ShmQueue`, that implementation included |
| `Pipeline` | How the runtime comes up: the constructor of `DatapathPipeline` over the resource pool, the blocks and their channels, with the two hosts |
| `Routing` | The two readings of the application description; operators that `Pipeline` uses |
| `PipelineProofs` | Theorems about `Pipeline` |
| `MCPipeline` | The applications, pools and builds `Pipeline` is checked with |
| `DpaEvents` | The device side of a DPA block: completion ring, owner bit, arming, event handler |
| `DpaBlock` | The host side over it: the life of a DPA block, driver call by driver call |
| `DpaProofs` | Theorems about `DpaBlock`: types, the completion ring, the steering rule, the pieces of the channel |
| `MCDpaBlock` | The types of channel `DpaBlock` is checked with |
| `HugeAlloc` | The allocator of huge pages over size classes |
| `SocChannel` | `Channel_SoC::allocate_channel` over it, call by call |
| `SocChannelProofs` | Theorems about `SocChannel` |
| `MCSocChannel` | The ring and buffer sizes `SocChannel` is checked with |

`SocDatapath` and `ShmQueue` take their sizes as CONSTANTS, so a TLC
configuration instantiates them directly. `Pipeline` describes the start up to
the moment the blocks run, `SocDatapath` one SoC block from that moment on: the
state in which `Pipeline` leaves a queue pair (connected, receive queue filled)
is the initial state of `SocDatapath`. What `Pipeline` takes for one step of a
block is spread out elsewhere: registering and connecting a DPA block is
`DpaBlock`, allocating the channel of a SoC block is `SocChannel`.

### SocDatapath

One iteration of `__launch` is a fixed sequence of calls. Each call is one
action; `pc` names the next one, so that NIC events (`NicRecv`, `NicSendDone`,
`PeerFails`) may happen between any two calls, but not inside one. That loses
nothing: a call touches the NIC once, in one poll or one post, with the
exception of `__rx_burst` (a post, then a poll: two actions, `PostRecvs` and
`PollRecv`) and of `__tx_burst` (a poll, then a post: one action, since an event
between them only adds a completion that the poll would have missed anyway, or
takes packets into buffers that the step does not touch).

| Code | Definition |
|---|---|
| `__run`, W77-97 | `Launch`, `CheckTimeout`, `Expire`, `Wrapper` |
| `__rx_burst`, W157-179, `__post_recvs`, H117-142 | `PostRecvs`, `PostRecvsFails`, `FreeRun`, `PollRecv`, `NextEntry` |
| `__dispatch_rx_pkts`, W181-198 | `Dispatch`, `Dispatched`, `Waiting`, `PassOn` |
| worker part of `__launch`, W105-141 | `Worker`, `MessagesDue` |
| `__collect_tx_pkts`, W200-215, and the test at W145 | `Collect`, `TxRoom`, `FlushDue` |
| `__tx_flush`, `__tx_burst`, W217-269 | `TxBurst`, `TxBurstFails`, `FlushDone`, `Reaped`, `FreeWrs`, `Completed`, `SendSlot` |
| `__direct_tx_burst`, W271-284 | `DirectTxBurst`, `DirectSize` |
| `NICC_ERROR`, `NICC_ERROR_C` (`lib/log/log.h.in:85-103`) on the wrapper's thread | `PostFails`, `Shutdown`, `PostsPartly`, `Taken` |
| `__init_recvs`, `__init_sends`, `__fill_recv_queue`, C343-392, C486-500 | `Init`, `FilledQueue` |

Ring indices, counters, `_sw_ring`, `state_` and the two worker queues are
variables under their names in the code; `_tx_queue` is the sequence of what is
still to be posted, so its first element is what the pointer `tx` of
`__tx_flush` points at. The memory of a buffer and its `length_` are abstracted
to `content`: `"empty"` since it was posted, `"raw"` once the NIC wrote a
packet, `"sized"` once `length_` is the length of that packet. The worker queues
are sequences of `WsQueueSize - 1` elements here; `ShmQueue` shows that the
ring implements one.

The NIC is external. A reliable connected queue pair executes and completes
each of its queues in order; once the peer is gone it is in the error state,
and what is and will be posted completes with a flush error.

Which of `ibv_post_send` and `ibv_post_recv` may fail is the constant
`PostFaults`; what becomes of it is a build option, as in `Pipeline` (`Throws`).
In the default build the macro that reports the failure (W252, H134) throws out
of the wrapper's thread, which catches nothing: the process ends in the middle
of the call, before `_recv_head` or anything else moves (`"aborted"`), and the
NIC does nothing more for it. With `NICC_PRINT_ERROR` off the macro is empty.
The post has then taken a prefix of its list (`Taken`), and the wrapper goes on
as if it had taken all.

### ShmQueue

`enqueue` is a test and two stores, `dequeue` a test, a load and a store,
`get_size` one read; each is an action. The consumer is the one of `SoCWrapper`,
which reads a size and then dequeues that many times without looking at the
results. There are two of them: the worker starts only above
`kAppRxMsgBatchSize` (W109), `__collect_tx_pkts` at any size (W205). The constant
`Threshold` is that limit, `LoopDue` the test. The constant `Ordered` says whether the producer's two stores become
visible in program order; there is no barrier in the code, and the slots are
not volatile.

### Pipeline

The constructor is one thread of control, so `pc` is the place it has got to and
`at` the index of the loop it is in; one iteration of a loop is one action, and
the calls in an iteration that touches a host are separate actions, so that the
hosts may act between them.

| Code | Definition |
|---|---|
| `AppDAG`, `load_from_app_dag`, P19 | `LoadRules` (operators of `Routing`) |
| `DatapathPipeline`, P5-74 | `Constructor`, and the steps between the phases: `AllAllocated`, `AllRegistered`, `AllRouted`, `AllStarted`, `Deallocated` |
| `__allocate_component_blocks`, P91-170, `ResourcePool::allocate`, `Component_*::allocate_block` | `Allocate`, `Enabled`, `Refused`, `Charged`, `GiveBack`, `CleanedUp` |
| `__deallocate_component_blocks`, P178-198, `Component_*::deallocate_block` | `GiveBack`, `Credited` |
| `__register_functions`, P206-255, `register_app_function`, `unregister_app_function` | `Register`, `SoCRegistration`, `DPARegistration`, `Pairs`, `Unregister`, `UnregisterSoC`, `UnregisterDPA`, `Unregistered` |
| `__init_control_plane`, P257-311, `__init_retval_mappings`, P313-368 | `Route`, `HasRouter`, `ConnectionFails`; `Registered`, `Mapping` of `Routing` |
| `__build_channel_connections`, P475-570 | `Dial`, `HearLocal`, `Accept`, `HearRemote`, `Visit`, `TiedAt`, `TellRemote`, `TellLocal`, `Verify` |
| `TCPServer`, `TCPClient`, M17-122 | `Dial`, `Accept`, `Hear`, `SendMsg`, `Closed` |
| `connect_to_neighbour`, `connect_qp`, `__connect_qp_to_host`, `__fill_recv_queue` | `Calls`, `ConnectQp`, `CannotConnect` (a DPA block refuses parameters that never arrived, D1098), `Reached` |
| `__run_pipeline`, P454-469 | `Start`, `MayFailToStart` |

`block` says what became of each block, `wrap` how complete its function state
is, `qp` how far each of its two queue pairs has come and whose parameters it
was connected with. The function-to-block map is ordered by the addresses of the
functions: `order` is any permutation. A loop over such a map goes through the
positions of its pairs in `order` (`Mapped` for the blocks, `Pairs` for those
registered); `Rest` are those it has not got to, `Position` the next of them.

The constructor ends in one of five ways: the pipeline runs; it returns without
one (`"returned"`); it returns with its blocks because one did not start
(`"not_started"`); the process ends (`"aborted"`: an `exit`, a failed assertion,
an uncaught exception); or it has used a block after its return or a pointer
that nobody set (`"undefined"`), from where nothing is claimed. In the first
three of the four that are no running pipeline the process is over (`Over`):
`main` has nothing left to do after the constructor. Its queue pairs end with it
(`NoQps`), whatever a host was told of them. `throws` is the
build option behind `NICC_ERROR_C`: where errors are printed (the default) the
macro throws, and `goto deallocate_cb` is not reached (`lib/log/log.h.in:101`).

The hosts are external. A host connects or is dialled, sends its parameters, and
then acts on the first it is sent; it may leave before it has connected, before
it has sent and before it has received. Both sockets linger for zero seconds:
what is under way at the close may be lost (`Closed`, `NoticeClosed`).

### Routing

The `ctrl_path` entries of an application are read twice: `LoadFromAppDag` makes
one edge rule of each entry of the six components it knows, in a fixed order of
names; `Mapping` makes of the entries of one block the map from 8-bit return
values to channels. The variables `rules` and `routes` of `Pipeline`
hold the results.

| Code | Definition |
|---|---|
| `AppDAG`, constructor and accessors | `Items`, `CtrlEntries`: a later item of a component replaces the earlier one |
| `__parse_match_condition` (R) | `ParseMatchCondition`: `!=` is looked for first, then `=` anywhere, so `>=` and `<=` leave a sign in the field |
| `__parse_action_spec` (R) | `ParseActionSpec` |
| `__component_name_to_type` (R) | `ComponentNameToType`: unknown names are SoC |
| `__extract_retval_from_conditions` (R) | `ExtractRetval`, `Numeric`, `IsUlong`, `Narrow` |
| `load_from_app_dag` (R) | `DAGEdgeRule`, `RulesOf`, `LoadFromAppDag`, `KnownNames` |
| `__init_retval_mappings`, P313-368 | `Mapping`, `IsInt` |
| `register_local_channels`, `lookup_channel` | `Registered`, `LookupChannel` |

An entry (`CtrlEntry`) is given by its parts (field, operator, value; verb,
target, channel) rather than by its text; what the parsers make of the operators that contain one
another is modelled by what they do. An action without its closing parenthesis
is left out.

The two readings do not agree on every number. `__init_retval_mappings` reads it
with `std::stoi` (P342), which throws beyond the range of `int`; the exception
is caught (P361), a warning printed and the mapping left out. `routing.cc` reads
it with `std::stoul` (R269), which takes it: of `retval=3000000000` the pipeline
has a rule for the return value 0 (what 8 bits keep) and the router of the block
has no mapping. As the router falls back to its default channel, which is the
only one it has, the lookup comes out the same today. `IsInt` and `IsUlong` are the two ranges;
`RoutesAgree` claims agreement on ints, and the default channel in any case.

### DpaEvents

The NIC writes completions into a ring and wakes the handler if the completion
queue is armed (which takes the arming back); the handler polls by owner bit,
arms and sleeps. Each look at the ring, each step, the arming and the wake-up
are actions, so that a completion may fall between any two of them.

| Code | Definition |
|---|---|
| `__allocate_cq_memory` (D), the owner bits | `HardwareOwned` |
| `dpa_device_init`, `init_cq` (E) | `InitCq` |
| `dpa_event_handler` (E) | `Enter`, `NewCqe`, `Drained`, `ArmCq` |
| `step_cq` | `StepCq`, `Stepped` |
| NIC, external | `Complete`, `OwnerBit`, `Rearmed` |

External: the owner bit alternates from lap to lap; a queue is armed at its
creation; arming takes the consumer index, so that a completion the handler
missed wakes it at once; a wake-up is kept until the handler runs. The handler
neither polls nor arms the queue towards the next block. Receive buffers are
never posted again, so a queue pair completes at most `RqDepth` receives in its
life.

### DpaBlock

A piece of the channel is `<<side, queue, part>>`, `live` is what exists on the
device, `held` what the metadata on the host names, `copied` what the copy of
the metadata on the device named when it was taken. `todo` is the list of driver
calls the function under way has yet to make; the lists are the operators
`AllocateChannel`, `DeallocateChannel` and `Calls`, put together from one
operator per function of the code.

| Code | Definition |
|---|---|
| `__register_event_handler` (B) | `CreateProcess`, `CreateEventHandler` |
| `common_resolve_phy_port`, `__roce_resolve_phy_port` (D) | `ResolvePort` |
| `allocate_channel` and what it calls (D) | `AllocateChannel`, `AllocateCq`, `WqMemory`, `QpMemory`, `CreateEthernetQp`, `CreateRdmaQp`, `SetLocalQpInfo`, `CopyMetadata`, `Allocated`, `RingSet`, `AllocationFails`, `FreedOnFailure`, `ChannelAllocated` |
| the error path of `__allocate_wrapper_resources` (B) | `AbandonChannel` |
| `__init_wrapper_resources` (B) | `InitDevice` |
| `unregister_app_function`, `deallocate_channel` and what it calls | `Unregister`, `DeallocateChannel`, `DeallocateCq`, `DestroyQp`, `Release`, `ReleaseSkipped`, `ReleaseFails`, `Forgotten`, `Wild`, `ChannelReleased`, `DestroyProcess` |
| `connect_to_neighbour`, `connect_qp`, `__fill_recv_queue` | `ConnectToNeighbour`, `Calls`, `ConnectQp`, `ConnectStep` |
| `add_control_plane_rule`, `__add_control_plane_rule` | `Connected`, `AddRule`, `RuleOrder`, `UndoneAfter` |
| `run_block` | `RunBlock` |

Besides the results of the code there are three ends from which nothing is
claimed: `"aborted"` (an exception or a failed assertion), `"stuck"` (a release
failed and the rest is left) and `"undefined"` (a handle nobody has set was
used). Destroying the process releases all that is left on the device, which is
what makes the queue pairs that `deallocate_channel` leaves alone no lasting
leak.

### HugeAlloc and SocChannel

`HugeAlloc` gives the operators of the allocator over its state: `freelist`, a
sequence of buffers per class, where a buffer is an address and the size
recorded in it. `SocChannel` makes the calls: the port, the verbs objects of both
queue pairs, the region of huge pages, and per queue pair one extent, cut into
the entries of the receive ring.

| Code | Definition |
|---|---|
| `get_class`, `get_class_slow`, `class_max_size` | `GetClass`, `MsbIndex`, `GetClassSlow`, `ClassMaxSize`, `Power2` |
| `alloc_raw`, `add_raw_buffer` (A) | `RoundUp`, `AllocRaw`, `Whole`, `Remainder`, `AddRawBuffer` |
| `alloc`, `split`, `alloc_from_class` (A) | `Larger`, `Exhausted`, `FindClass`, `Halves`, `AfterSplit`, `Split`, `AllocFromClass` |
| `allocate_channel` and what it calls (C) | `ResolvePhyPort`, `RoceResolvePhyPort`, `AllocPd`, `CreateQp`, `Makes`, `QpCreated`, `AllocRegion`, `RegisterRegion` |
| `__init_recvs`, `__init_sends` (C) | `Alloc`, `SplitClass`, `InitRecvs`, `InitSends` |

A null pointer from the verbs library is caught by an assertion or followed,
depending on the build; either way the program ends (`"aborted"`). A null
pointer from the allocator is the state `"null"`, which `NeverShort` excludes.

## 3. Runs

| Run | Expect | Shows |
|---|---|---|
| `SocSafety` | pass | The default build: both neighbours send, either may fail at any point, and so may any post, which ends the process. The six indices agree with the NIC's queues (`RecvAgreement`, `SendAgreement`), buffers go round in ring order (`RingOrder`), none leaks or has two owners (`Ownership`), a SEND reads a received packet with its length as long as the sender lives (`SentIsReceivedFromLive`), the worker queues never overflow (`WorkerLosesNothing`), a flush never has to wait (`FlushNeverWaits`), and the block implements `Relay` (`RelaySpec`) |
| `SocLiveness` | pass | Between live neighbours a packet from the next block is always sent on (`ReturnDelivery`), messages above the batch size too (`BatchDelivery`), and `__run` ends when its time is over (`RunEnds`), unless a refused post ends the process first |
| `SocPostErrors` | pass | A build without `NICC_PRINT_ERROR`, which goes on after a post was refused in part or altogether. Buffers leak and completions are taken for the wrong ones, but the NIC is never given a buffer whose packet is still to be passed on or sent (`NeverOverwritten`), and no flush hangs (`RunEnds`) |
| `SocStarves` | violation of `NeverStarves` | see findings |
| `SocFlushError` | violation of `SentIsReceived` | see findings |
| `ShmQueue` | pass | With stores in program order: FIFO of `Size - 1` elements (`FifoSpec`), a size that was read stays covered (`SizeIsKept`), and as long as there is more than the size at which the consumer starts, what is enqueued is dequeued (`Drains`) |
| `ShmQueueUnordered` | violation of `LoadsAfterStore` | see findings |
| `Pipeline` | pass | Over 24 combinations of pool, application, wiring and build: quotas and blocks add up at every step (`QuotaConserved`) and everything is given back when the constructor gives up (`GaveBack`); a host acts on a queue pair that is connected to it and has receive buffers, in the application of `main.cc` for good and in others until the process is over (`ParamsAreLive`); a running pipeline is wired to both hosts (`RunningIsWired`); the exchange with the hosts does not deadlock (`StartupSettles`); in the application of `main.cc`, once a host has been told, start-up succeeds (`NoHostStranded`), and a host that stays is told (`HostsLearn`); the channel of a return value is mapped in a block exactly when a rule of the graph gives it by an `int` (`RoutesAgree`) |
| `PipelineFreed` | violation of `RegisterAfterAllocation` | see findings |
| `PipelineChain` | violation of `ConnectsAsListed` | see findings |
| `DpaBlock` | pass | Whichever driver call fails: nothing is freed that does not exist (`ReleasedOnce`), nothing exists without what it was made from (`NothingDangles`), the device initialises itself from complete metadata (`CopyIsCurrent`), a channel that was released leaves only RDMA queue pairs and memory keys to the process (`ChannelGone`), a steering rule is whole or absent (`RuleWholeOrNone`). The owner bit always tells a new completion from an old entry (`OwnerBitTells`), and every packet from the prior block is counted, wherever it falls next to polling, arming, starting and events of the other side (`PriorServed`) |
| `SocChannel` | pass | The entries of both rings and the free buffers are disjoint and inside the registered region (`BuffersAreApart`), the allocator never comes back empty-handed, agrees with its reference function and splits only where its assertion holds (`NeverShort`), and no memory gets lost (`NothingLost`) |

Every passing property has a mutant, a slip like a missing modulo or an
off-by-one in one operator (the `Bug_` operators), that makes it fail under the
same configuration.

### Bounds

`SocDatapath`: rings of 3 entries, worker queues of capacity 2, a worker batch
limit of 1, transmit batches of 1, polls of 1 completion. All indices wrap;
a ring holds more buffers than a worker queue, so an overflow could happen; a
poll may leave completions behind; the worker holds a message back; all
buffers of a ring can be in use at once. `AppRxMsgBatchSize = TxBatchSize` and
`NumRxRingEntries = NumTxRingEntries` as in the code. Rings of 4 entries without
failures give 844,000 states and the same answers. Queues of the NIC are
bounded by the buffers that exist, so no state constraint is needed.

`ShmQueue`: 4 slots and 3 pointers, so that a slot is reused with different
contents and the ring is full, empty and wrapped. The consumer is the worker,
with a limit of 1, so that it leaves an element behind and then takes several;
`ShmQueueUnordered` has the collecting side, with a limit of 0.

`Pipeline`: one or two blocks of either component. Two are enough for every
loop to have a step after a failure and a step before it, for both orders of the
map, and for a block with a prior one; a third block would only be reached if two
were connected, which the code cannot do. Quotas are those of `main.cc` (16
cores, 4 for a block) divided by four, with pools that fit exactly, leave a rest,
or do not fit. Each application is checked with both builds. The description
has return values 1, 257 (which narrows to 1), -1 (to 255), one that is not a
number, and, with `IntMax = 511` and `UlongMax = 1023` for the widths of the two
types, 515 and -600, which only `stoul` reads, and 1029, which neither does, the operators `=`, `>=`, `!=` and none, another field, and a component
given twice.

`DpaBlock`: rings of 4 entries, so that the ring fills, the index wraps and the
bit flips; the handler is woken, polls and arms at every fill of the ring. The
channel is RDMA on both sides, as `ComponentBlock_DPA` builds it, or Ethernet
towards the prior block, as in the constructor call that is commented out beside
it. Each of the driver calls may fail; one failure decides the rest, so their
number needs no bound.

`SocChannel`: three classes of 2, 4 and 8 bytes, pages of 4, and eight sizings
under which a ring takes a buffer of the largest class (as in the program) or
the first ring needs one or two splits; the second ring then always finds the
other half (see Proofs). It has no cycle and few choices: 248 states are all
there are.

### Fairness

`WF(Wrapper)`: the thread is bound to a core of its own and its loop has no
blocking call. `WF(NicSendDone)`: a connected peer acknowledges each SEND, since
`rnr_retry` is 7, which retries for ever (C473). Nothing is assumed of the
arrival of packets, nor that the running time ends (`Expire` has no fairness).
`ShmQueue`: the consumer runs on, and a store is visible eventually; the
producer need not enqueue anything.

`Pipeline`: `WF(Constructor)`, one thread whose only waits are the reads and the
accept, which are guards; `WF(RemoteConnects)` and `WF(HostGoesOn)`: a host that
is there connects, sends and receives in the end, or goes away (`HostLeaves`,
without fairness). A host that stays connected and silent for ever would block
the constructor, which has no time-out; that is an assumption, not a result. A
remote host that never connects is excluded in `StartupSettles` by name.

`DpaBlock`: `WF(Host)`, a thread without waits, and `WF(Device)`: a woken event
handler gets to run and goes on. Nothing is assumed of the NIC. `SocChannel` is
checked for safety only.

### Findings

1. **Starvation** (W145, W221; `SocStarves`). SEND completions are reaped only
   on the way to posting new SENDs. After a burst in one direction has taken all
   receive buffers and all of them were sent, nothing is reaped any more, so
   nothing becomes free, no RECV is posted, and no packet can arrive that would
   change this. The neighbour is shut out although all SENDs completed.
2. **Flushed buffers are sent** (W171; `SocFlushError`). `wc.status` is not
   looked at: the flushed RECVs of a failed queue pair are taken for packets and
   forwarded with stale content.
3. **Unordered publication** (Q39; `ShmQueueUnordered`). The slot and the tail
   are stored without a barrier, the slot through an ordinary store. The present
   build keeps both ends of the queue on one thread, where it cannot show.

4. **A failed allocation counts as success** (P156; `PipelineFreed`). The
   clean-up loop overwrites the failure with the result of the last
   deallocation, and the freed blocks stay in the map: the constructor goes on to
   register functions onto them. Unless no block had been allocated before, the
   test at P26 cannot see the failure. The loop at P243 does the same to a
   failed registration.
5. **Connection flags are never cleared** (P508; `PipelineChain`). In a chain
   the second block connects its prior queue pair to the remote host, which does
   not list it, and is then refused when it is to be connected to the first
   block. Since connections between blocks are not implemented (C397 returns
   `NICC_ERROR_NOT_IMPLEMENTED`), no chain comes up in any case; the flags would
   stand in the way once they are.

`kTxPostSize` and `kRxPostSize` (H29, H33) document limits of a burst that no
code applies; the model has none either.

## 4. Proofs

Every safety invariant that a passing run checks but one (`NeverOverwritten`), and
both refinements, are theorems: they hold for all values of the constants that satisfy the named
assumptions, not only for the instances above. Each theorem rests on an inductive
invariant, with one lemma per action and conjunct that the action can disturb.

| Theorem | States | Needs |
|---|---|---|
| `TypeCorrect`, `NothingLostInWorkerQueues`, `FlushAlwaysHasRoom` | `TypeOK`, `WorkerLosesNothing`, `FlushNeverWaits` of `SocDatapath` | |
| `SendSideAgrees` | `SendAgreement` | the default build, or no post of SENDs fails |
| `ReceivedEntryIsRight`, `RingsStayInOrder`, `OwnersAreRight`, `SendsReadReceivedPackets` | `RecvAgreement`, `RingOrder`, `Ownership`, `SentIsReceivedFromLive` | `AllPosted`: the default build, or no post fails |
| `DatapathRelays` | `RelaySpec` | `AllPosted` |
| `QueueTypeCorrect`, `SizeAlwaysKept` | `TypeOK`, `SizeIsKept` of `ShmQueue` | |
| `QueueIsFifo` | `FifoSpec` | `Ordered` |
| `PipelineTypeCorrect`, `QuotaIsConserved`, `PoolGetsBack`, `RoutersAgree`, `ToldParametersAreLive`, `RunningPipelineIsWired` | `TypeOK`, `QuotaConserved`, `GaveBack`, `RoutesAgree`, `ParamsAreLive`, `RunningIsWired` of `Pipeline` | |
| `DpaTypeCorrect`, `OwnerBitAlwaysTells`, `RuleAlwaysWholeOrNone` | `TypeOK`, `OwnerBitTells`, `RuleWholeOrNone` of `DpaBlock` | |
| `NothingFreedTwice`, `WhatIsMadeStands`, `CopiesAreCurrent`, `DeallocatedChannelIsGone` | `ReleasedOnce`, `NothingDangles`, `CopyIsCurrent`, `ChannelGone` | |
| `SocChannelTypeCorrect`, `BuffersStayApart`, `AllocatorNeverShort`, `NoMemoryLost` | `TypeOK`, `BuffersAreApart`, `NeverShort`, `NothingLost` of `SocChannel` | |

### SocDatapath

`TypeOK` is inductive. Its content is that indices stay inside their rings and
that `_tx_queue` never outgrows its array.

`WorkerLosesNothing`: the code drops a packet if the queue to the worker is full
(W186) and loses one if the queue from the worker is (W129). Neither happens, but
only by the choice of sizes. `WorkerInv` bounds each stage of the forward
direction: outside of `Dispatch` nothing waits in the ring, at `Dispatch` at most
one poll (`RxBatchSize`); the worker keeps at most `AppRxMsgBatchSize`, and takes
one poll more; the transmit worker queue is empty except between the worker and
the collection, because the transmit queue, flushed from `TxBatchSize` on, always
has room for the rest.

`FlushNeverWaits` counts. For each ring, `Used` adds up the entries that are free,
posted, received, waiting, at the worker and queued for sending, and the work
requests of the other side that are not free. No step makes this sum grow, so it
never exceeds the size of the ring (`CountInv`); as the transmit ring is no
smaller, there are free work requests for all that is queued, even before the
completions are reaped. The sum need not stay the same: when a post fails,
entries get lost, but none comes from nowhere, so the theorem needs no hypothesis
about posts. What is reaped must be free entries of the ring it is counted for:
`SideInv` says that what is queued or mounted on one side was received on the
other.

`SendAgreement` is inductive as it stands, given `TypeOK`; what takes work is the
arithmetic of a window that moves round the ring (`Arithmetic`). It needs only
that no post of SENDs fails and is passed over: its buffers would stand in
`_sw_ring` without a work request.

For the receive side, `RingInv` says of each ring that its *path* (the SENDs not
reaped, what is behind the wrapper, what waits, the completions and the RECVs, in
this order) is one stretch of the ring that ends before `_recv_head`, no longer
than the ring, and that `_ring_head` stands where the waiting entries begin. Each
step either moves a buffer across the boundary of two neighbouring queues, which
leaves the path alone, or drops its oldest or appends the next entry. `RingOrder`
and `RecvAgreement` say what this means for one entry. `Ownership` closes the
circle: a free entry is on no path, so posting it keeps the path a stretch.
`DataInv` is `TypeOK`, `WorkerInv`, `RingInv` and `Ownership` together.

`ContentInv` adds for `SentIsReceivedFromLive` that what is behind the wrapper has
content and length and what is completed has content, unless the queue pair it
came from has failed: content is only taken away by a RECV, of a free buffer, and
`Ownership` keeps those apart.

`DatapathRelays` maps `Relay`'s content of a block to what lies between the RECVs
and the SENDs (`Inside`): a RECV that completes is appended to it, `TxBurst` and
`DirectTxBurst` take from its front, and every other step stutters.

Assumptions. `RingAssumption`: the sizes are positive. `SizingAssumption`: a
worker batch and a poll fit into a worker queue, and besides an unfinished
transmit batch into the transmit queue; a receive ring is no larger than the
transmit ring. It holds for 32, 128, 1024, 32 and 2048, but no assertion in the
code says so: with `kRxBatchSize = 1024`, packets would be dropped. Neighbours
may fail at any time, and in the default build any post may, since the wrapper
never gets to act on it. The hypothesis `AllPosted` is needed for the other build
only, where the wrapper does not undo its bookkeeping after a failed post. The run
`SocPostErrors` checks what holds there: `NeverOverwritten` and `RunEnds`;
`WorkerLosesNothing` and `FlushNeverWaits` are theorems without the hypothesis.

### ShmQueue

`QueueInv` adds to `TypeOK` and `SizeIsKept` that a dequeue is under way only on
account of a size that was read, and that a ring with a store of `tail_`
outstanding is not full. It holds whether or not stores are seen in order. For
`FifoSpec`, `Published` says that a slot is stored before the tail that makes it
visible, and that what the consumer has loaded is what the slot at `head_` still
holds. The hypothesis `Ordered` is the finding of `ShmQueueUnordered`. The FIFO
is the slots from `head_` to `tail_`: the store of `tail_` appends, the store of
`head_` removes, and the rest stutters.

### Pipeline

The theorems hold for any number of blocks, pools, quotas, wirings, builds,
descriptions and orders of the map that satisfy `SetupAssumption`.

Beside `TypeOK`, `PipeInv` has three parts. `InLoop`: the loop over the blocks is at
a block whenever it is inside an iteration. `RouteInv`:
the routers passed so far are known, and rules and routers come from the same
description. `WireInv`: both hosts are heard before anything is connected
(`HeardInv`); the first block is connected to the hosts that list it, and they
are told only afterwards (`FirstInv`); the list of calls for a second block
always ends in the one to the block before it, which is refused, so that nothing
that a host was told changes (`SecondInv`); what a host was told stays true until
the process is over (`ToldInv`). That it is over then only in applications other
than that of `main.cc` is `MainInv`: with one SoC block that both hosts list, all
connections are made before the first host is told, and nothing that comes after
can fail. `RoutesAgree` compares what two operators make of the same entries, for
all of them and for any widths of `int` and `unsigned long`
(`WidthAssumption`: the latter is the wider).

`PoolInv` says which blocks are held at each step: a loop that gives blocks back
has returned exactly the mapped ones before its position, and the registration
finds all blocks held, or none of them and one returned, which is finding 4. Each
block has one position, since `order` is a bijection, so none is given back twice.
`QuotaConserved` needs a sum over the blocks. It is written as a recursive
function (`SumTo`); what it computes is proved from the least number at which it
could go wrong, since the library's induction theorems cannot be used here.

### DpaBlock

The theorems hold for rings of any depth and every type of channel.

`OwnerBitTells` speaks of the one entry the handler looks at and is not inductive.
`IInv` adds what holds of all entries and in every phase: after the
initialisation of the device the entries with owner bit 0 are exactly those the
NIC has completed, the handler is not ahead of it, and its bit is flipped exactly
at the last index (`InStep`); before, nothing is completed, and the ring belongs
to the hardware or the call that hands it over is still in `todo`
(`PreparedInv`), which is where the order of `allocate_channel` and
`dpa_device_init` enters. `TypeOK` follows from the same invariant: that the
handler's index stays within the ring needs `InStep`, that only states of a queue
pair are assigned to it needs `CallsInv`. `RuleWholeOrNone` is inductive.

`PiecesInv` is about the pieces of the channel. While they are made, whatever is
still in `todo` comes after all it is made from, and the host's metadata names
exactly what exists (`ChannelInv`); the two copies come last, and what has been
copied does not change any more (`CopyInv`). While they are released, each piece
is in `todo` once, what is named and yet to be released exists, and what exists is
yet to be released or never will be (`ReleaseInv`). That the two orders of calls
have these properties for every type of channel is a fact about sequences, proved
first.

Assumption: `DepthAssumption`, the receive ring is not empty and no deeper than
the completion ring (both are 2^7 in the code).

### SocChannel

The theorems hold for any number of classes from two on and all sizings that
satisfy `SizingsAssumption`.

`ChannelInv` pins down what the lists look like at each step. `Shape`: the region
is handed over as `Wholes` buffers of the largest class and nothing else; the
first ring splits from there down to its class, each class below the one being
split is empty (the assertion in `split`), and each split leaves two halves, of
which the ring takes one. So when the second ring comes, its class has a buffer
and it splits nothing. If the ring's class is the largest, there are at least two
whole buffers, since the region holds two rings of receive buffers and as many
bytes again for sending. `Lists`: a buffer has the size of its class and lies
within the region. `FreeApart`, `RingsFree` and `RingsApart`: free buffers and
rings are pairwise disjoint stretches. For a split each new buffer is traced to
the one it lies within (`Origin`): two from different origins are disjoint since
their origins were, and two of one origin are its halves.

That `GetClass` agrees with `GetClassSlow` and names a class that exists takes
powers of two: `Power2` doubles and exceeds every number in the end, so the
highest bit of a number is the one power it lies above. Like the sums, powers are
treated from the least number at which a claim could fail.

`NothingLost` adds up the lists of all classes (`SumTo`). A split changes two
terms of the sum, by one buffer less and by two of half the size; the
hand-over to a ring moves one term into `user_alloc`.

Assumptions. `ClassAssumption`: there are at least two classes (18 in the code).
With one class and rings a quarter of its size the region could be a single
buffer, and the second ring would come away empty-handed.
`SizingsAssumption`: what the code asserts of ring and buffer sizes, and that the
region is a multiple of the largest class (see section 5).

### Only model-checked

* Liveness, which needs fairness: `ReturnDelivery`, `BatchDelivery`, `RunEnds`,
  `Drains`, `StartupSettles`, `NoHostStranded`, `HostsLearn`, `PriorServed`.
* `NeverOverwritten`, about the build that goes on after a failed post.
* The properties of the runs that end in a violation.

## 5. Not modelled, and the plan

Left out of `SocDatapath`: packet contents and the user's handler (a function of
the packet; its return value does not influence the path), routing by return
value (commented out, W118-125 and W286-303), a negative result of
`ibv_poll_cq` (it is asserted away when polling for SENDs and cannot occur on a
completion queue that exists).

Left out of `Pipeline`: blocks of the flow engine, which `main.cc` does not
build and whose connection is not implemented; linking the prior block to the
current one (P539-550), which no second block gets to; messages split over two
reads; the destructor, which runs only after `"returned"` and frees the routing
table. `Routing`: `add_dag_edge_rule`, which has no caller. A block whose name is
none of `KnownNames` gets mappings of its own but no rules of the graph;
`RoutesAgree` is about the known ones.

Left out of `DpaBlock`: sizes, strides and attributes of the queues (the entries
written by `__init_rq_ring_wqes` included); `__setup_ibv_device`, which has no
caller; the queue towards the next block once it runs, which nobody polls.

Left out of `HugeAlloc` and `SocChannel`: `free_buf`, `reserve_hugepages` and
the destructors, which are never called; the release of anything, since
`deallocate_channel` does nothing. That the region is a multiple of the largest
class is an assumption (`SizingsAssumption`): it is true of the sizes in use, but
`add_raw_buffer` would otherwise add the remainder at the address of the first
buffer (A226), and nothing in the code demands it.

Not modelled at all: the match-action tables (`mat.h`). Only the block of the
flow engine uses them, `main.cc` does not build it, and its tables leave the
creation of matchers and entries on the device to subclasses that do nothing.
Packet headers, timers, logging, NUMA and device helpers, the tool chain, the
firmware and the samples keep no state of the running system.

What is left: a proof of `NeverOverwritten`, and for a build that goes on after a
failed post a statement of how far the wrapper's indices can drift from the
queues of the NIC. That the two readings of a route disagree beyond `int` is
described above (Routing) and shown by no run.
