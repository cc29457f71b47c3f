------------------------------ MODULE Pipeline ------------------------------
(***************************************************************************)
(* How the run-time system comes up: the constructor of DatapathPipeline   *)
(* reads the application's routes, takes a component block for every       *)
(* function from the resource pool,                                        *)
(* registers the functions, sets up the control plane, exchanges queue pair*)
(* parameters with the two hosts over TCP, connects the queue pairs and    *)
(* starts the blocks. Every step may fail; each failure has its own way    *)
(* back, and the hosts act on what they have been told in the meantime.    *)
(*                                                                         *)
(* Blocks are numbered in the order of AppContext::functions, which is that*)
(* of _component_blocks. _component_app2block_map is ordered by pointer, so*)
(* `order' is any permutation. A block is used after it was returned, or   *)
(* through a pointer nobody set, only in the state "undefined": nothing is *)
(* claimed from there on.                                                  *)
(***************************************************************************)
EXTENDS Routing, Sums

CONSTANT
  Setups    \* the resource pools, applications, hosts' wirings and builds to
            \* start with

Kinds == {"SoC", "DPA"}
Hosts == {"remote", "local"}

\* total: the components enabled in the resource pool, and their quotas.
\* kind, quota, handlers: of each function, its component, the quota it asks
\* for and how many of its handlers it has. name: the block names, graph: the
\* application's dp_graph. wires[h]: the blocks named in host h's connect_to.
\* throws: the build has NICC_PRINT_ERROR, so that NICC_ERROR_C ends the process.
ASSUME SetupAssumption ==
  \A s \in Setups :
    /\ DOMAIN s.total \subseteq Kinds /\ s.total \in [DOMAIN s.total -> Nat]
    /\ s.kind \in Seq(Kinds)
    /\ s.quota \in Seq(Nat) /\ Len(s.quota) = Len(s.kind)
    /\ s.handlers \in Seq({"none", "some", "all"}) /\ Len(s.handlers) = Len(s.kind)
    /\ s.name \in Seq(STRING) /\ Len(s.name) = Len(s.kind)
    /\ \A b, c \in DOMAIN s.name : s.name[b] = s.name[c] => b = c
    /\ s.graph \in Seq([component : STRING, entries : Seq(CtrlEntry)])
    /\ \A h \in Hosts : s.wires[h] \subseteq DOMAIN s.kind
    /\ s.throws \in BOOLEAN

VARIABLES
  setup,       \* what the process was started with
  order,       \* the blocks in the order of their functions' addresses
  pc,          \* the step the constructor is at
  at,          \* its loop index
  ok,          \* retval = NICC_SUCCESS
  pool,        \* _base_state->quota of each enabled component
  block,       \* what became of each block
  registered,  \* __register_pairs
  wrap,        \* the function state of each block, with its channel
  rules,       \* dag_edge_rules, the routes of the whole graph
  routed,      \* the blocks whose router is known to the pipeline
  routes,      \* the channels each block's router knows
  tied,        \* is_connected_to_remote, is_connected_to_local
  todo,        \* the connect_qp calls connect_to_neighbour has yet to make
  qp,          \* the queue pairs of each block
  info,        \* the QPInfo read from each host
  sent,        \* per host, the blocks whose parameters were sent to it
  host,        \* per host, how far its side of the exchange has come
  partner      \* the block whose parameters the host took, 0 for none

pool_vars == <<pool, block>>
route_vars == <<rules, routed, routes>>
reg_vars  == <<registered, wrap, route_vars>>
link_vars == <<tied, todo, qp>>
tcp_vars  == <<info, sent>>
host_vars == <<host, partner>>
vars == <<setup, order, pc, at, ok, pool_vars, reg_vars, link_vars, tcp_vars, host_vars>>

Blocks == DOMAIN setup.kind
N == Len(setup.kind)

\* A remote host is the prior neighbour, a local host the next one.
Sides == {"prior", "next"}
Side(h) == IF h = "remote" THEN "prior" ELSE "next"

\* The positions in `order' of the component blocks in _component_app2block_map;
\* blocks given back stay in it.
Mapped == {i \in Blocks : block[order[i]] \in {"held", "returned"}}

\* Where a loop over a map, given by such positions, goes next, if anywhere.
Rest(positions) == {i \in positions : i >= at}
Position(positions) == Min(Rest(positions))

\* Where the constructor can have got to. The last four are final: it
\* returned without a pipeline, a block failed to start, the process was ended
\* (exit, assert, uncaught throw), or its behaviour is undefined. In the first
\* two main returns next, so that the process is over as well.
Building == {"load", "allocate", "cleanup", "register", "unregister", "route",
             "dial", "hear_local", "accept", "hear_remote",
             "visit", "connect", "tell_remote", "tell_local", "start", "deallocate"}
Over == {"returned", "not_started", "aborted"}
Final == Over \cup {"undefined"}

Bare == [st |-> "RESET", peer |-> "none", filled |-> FALSE, connected |-> FALSE]

\* Before anything is connected; and what is left when the process is over,
\* which destroys its queue pairs.
NoQps == [b \in Blocks |-> [s \in Sides |-> Bare]]

Goto(l) == pc' = l /\ at' = 1

TypeOK ==
  /\ setup \in Setups
  /\ order \in [Blocks -> Blocks]
  /\ pc \in Building \cup Final \cup {"running"}
  /\ at \in 1 .. N + 1
  /\ ok \in BOOLEAN
  /\ pool \in [DOMAIN setup.total -> Nat]
  /\ block \in [Blocks -> {"none", "held", "refused", "returned"}]
  /\ registered \subseteq Blocks
  /\ wrap \in [Blocks -> {"none", "ready", "broken", "freed"}]
  /\ routed \subseteq Blocks
  /\ \A i \in DOMAIN rules : rules[i].kernel_retval \in Retvals
  /\ DOMAIN routes = Blocks
  /\ \A b \in Blocks : /\ routes[b].default \in Blocks \cup {0}
                      /\ DOMAIN routes[b].map \subseteq Retvals
  /\ tied \subseteq Hosts
  /\ todo \in Seq(Sides \X (Hosts \cup {"block"}))
  /\ qp \in [Blocks -> [Sides -> [st : {"RESET", "INIT", "RTR", "RTS"},
                                  peer : Hosts \cup {"none", "nobody"},
                                  filled : BOOLEAN, connected : BOOLEAN]]]
  /\ info \in [Hosts -> {"none", "real", "zero"}]
  /\ sent \in [Hosts -> Seq(Blocks)]
  /\ host \in [Hosts -> {"waiting", "absent", "open", "greeted", "ready", "gone", "left"}]
  /\ partner \in [Hosts -> Blocks \cup {0}]

Init ==
  /\ setup \in Setups
  /\ order \in Bijection(Blocks, Blocks)
  /\ pc = "load" /\ at = 1 /\ ok = TRUE
  /\ pool = setup.total
  /\ block = [b \in Blocks |-> "none"]
  /\ registered = {} /\ routed = {}
  /\ rules = <<>> /\ routes = [b \in Blocks |-> NoRoutes]
  /\ wrap = [b \in Blocks |-> "none"]
  /\ tied = {} /\ todo = <<>>
  /\ qp = NoQps
  /\ info = [h \in Hosts |-> "none"]
  /\ sent = [h \in Hosts |-> <<>>]
  /\ host = [h \in Hosts |-> "waiting"]
  /\ partner = [h \in Hosts |-> 0]

----------------------------------------------------------------------------
(* Plausible slips, each a variant of the operator it is named after. They *)
(* take no part in the specification: every property below fails when one  *)
(* of them takes the operator's place.                                     *)

Bug_RefusedOnlyWhenEmpty(b) == pool[setup.kind[b]] = 0

Bug_CreditedOne(b) == [pool EXCEPT ![setup.kind[b]] = @ + 1]

Bug_HearWaitsForData(h, next) ==
  /\ host[h] \in {"greeted", "left"}
  /\ info' = [info EXCEPT ![h] = "real"]
  /\ Goto(next)

Bug_ConnectionFailsLeavesBlocks(left) ==
  /\ ok' = FALSE
  /\ Goto(IF setup.throws THEN "aborted" ELSE "returned")
  /\ qp' = NoQps

Bug_TiedAtBoth(b) == Hosts

Bug_TiedAtOneHost(b) ==
  tied \cup (IF b \in setup.wires["remote"] THEN {"remote"}
             ELSE IF b \in setup.wires["local"] THEN {"local"} ELSE {})

Bug_ReachedWithoutReceives(h) ==
  LET up == [st |-> "RTS", peer |-> IF info[h] = "real" THEN h ELSE "nobody",
             filled |-> FALSE, connected |-> TRUE]
  IN <<Bare, Bare, Bare, Bare, Bare, up>>

Bug_SendMsgNever(h) == sent

----------------------------------------------------------------------------
(* Taking blocks from the pool, and giving them back.                      *)

\* The first step of the constructor: no entry of a description can make it
\* fail.
LoadRules ==
  /\ pc = "load"
  /\ rules' = LoadFromAppDag(setup.graph)
  /\ Goto("allocate")
  /\ UNCHANGED <<setup, order, ok, pool_vars, registered, wrap, routed, routes, link_vars,
                 tcp_vars, host_vars>>

\* An allocation is refused when less than it asks for remains.
Refused(b) == pool[setup.kind[b]] < setup.quota[b]

Charged(b) == [pool EXCEPT ![setup.kind[b]] = @ - setup.quota[b]]
Credited(b) == [pool EXCEPT ![setup.kind[b]] = @ + setup.quota[b]]

\* A component that is not enabled is looked up as a null pointer.
Enabled(b) == setup.kind[b] \in DOMAIN setup.total

Allocate ==
  /\ pc = "allocate" /\ at <= N
  /\ \/ /\ ~Enabled(at)
        /\ Goto("aborted")
        /\ UNCHANGED <<ok, pool_vars>>
     \/ /\ Enabled(at) /\ Refused(at)
        /\ block' = [block EXCEPT ![at] = "refused"]
        /\ ok' = FALSE
        /\ Goto("cleanup")
        /\ UNCHANGED pool
     \/ /\ Enabled(at) /\ ~Refused(at)
        /\ pool' = Charged(at)
        /\ block' = [block EXCEPT ![at] = "held"]
        /\ at' = at + 1
        /\ UNCHANGED <<pc, ok>>
  /\ UNCHANGED <<setup, order, reg_vars, link_vars, tcp_vars, host_vars>>

AllAllocated ==
  /\ pc = "allocate" /\ at > N
  /\ Goto("register")
  /\ UNCHANGED <<setup, order, ok, pool_vars, reg_vars, link_vars, tcp_vars, host_vars>>

\* The two loops over the map that return its blocks. Each call's result,
\* always success, becomes the result of the whole loop.
GiveBack ==
  /\ pc \in {"cleanup", "deallocate"} /\ Rest(Mapped) # {}
  /\ LET b == order[Position(Mapped)]
     IN pool' = Credited(b) /\ block' = [block EXCEPT ![b] = "returned"]
  /\ ok' = TRUE
  /\ at' = Position(Mapped) + 1
  /\ UNCHANGED <<setup, order, pc, reg_vars, link_vars, tcp_vars, host_vars>>

\* __allocate_component_blocks returns that result.
CleanedUp ==
  /\ pc = "cleanup" /\ Rest(Mapped) = {}
  /\ Goto(IF ok THEN "register" ELSE "returned")
  /\ UNCHANGED <<setup, order, ok, pool_vars, reg_vars, link_vars, tcp_vars, host_vars>>

Deallocated ==
  /\ pc = "deallocate" /\ Rest(Mapped) = {}
  /\ Goto("returned")
  /\ qp' = NoQps
  /\ UNCHANGED <<setup, order, ok, pool_vars, reg_vars, tied, todo, tcp_vars, host_vars>>

----------------------------------------------------------------------------
(* Registering the functions.                                              *)

\* What registering a function may make of its wrapper. Without handlers it
\* succeeds with nothing allocated. Any step of allocating may fail, and what
\* was made up to there is left behind. Only a DPA block checks that it was
\* given all its handlers.
SoCRegistration(b) ==
  IF setup.handlers[b] = "none" THEN {"none"} ELSE {"ready", "broken"}

DPARegistration(b) ==
  CASE setup.handlers[b] = "none" -> {"none"}
    [] setup.handlers[b] = "some" -> {"broken"}
    [] setup.handlers[b] = "all"  -> {"ready", "broken"}

Registration(b) == IF setup.kind[b] = "SoC" THEN SoCRegistration(b) ELSE DPARegistration(b)

Register ==
  /\ pc = "register" /\ Rest(Mapped) # {}
  /\ LET b == order[Position(Mapped)] IN
     \/ /\ block[b] # "held"
        /\ Goto("undefined")
        /\ UNCHANGED <<ok, registered, wrap>>
     \/ /\ block[b] = "held"
        /\ \E w \in Registration(b) \ {"broken"} : wrap' = [wrap EXCEPT ![b] = w]
        /\ registered' = registered \cup {b}
        /\ ok' = TRUE
        /\ at' = Position(Mapped) + 1
        /\ UNCHANGED pc
     \/ /\ block[b] = "held" /\ "broken" \in Registration(b)
        /\ wrap' = [wrap EXCEPT ![b] = "broken"]
        /\ ok' = FALSE
        /\ Goto("unregister")
        /\ UNCHANGED registered
  /\ UNCHANGED <<setup, order, pool_vars, route_vars, link_vars, tcp_vars, host_vars>>

AllRegistered ==
  /\ pc = "register" /\ Rest(Mapped) = {}
  /\ Goto("route")
  /\ UNCHANGED <<setup, order, ok, pool_vars, reg_vars, link_vars, tcp_vars, host_vars>>

\* The positions of the pairs of function and block in __register_pairs.
Pairs == {i \in Blocks : order[i] \in registered}

\* A SoC block does nothing to unregister. A DPA block frees its channel,
\* process and function state, unless one of those calls fails; without
\* handlers it has no channel to free.
UnregisterSoC(b) ==
  /\ ok' = TRUE /\ at' = Position(Pairs) + 1
  /\ UNCHANGED <<pc, wrap>>

UnregisterDPA(b) ==
  \/ /\ wrap[b] = "ready"
     /\ ok' \in BOOLEAN
     /\ wrap' = [wrap EXCEPT ![b] = IF ok' THEN "freed" ELSE "broken"]
     /\ at' = Position(Pairs) + 1
     /\ UNCHANGED pc
  \/ /\ wrap[b] # "ready"
     /\ Goto("undefined")
     /\ UNCHANGED <<ok, wrap>>

Unregister ==
  /\ pc = "unregister" /\ Rest(Pairs) # {}
  /\ LET b == order[Position(Pairs)] IN
     \/ setup.kind[b] = "SoC" /\ UnregisterSoC(b)
     \/ setup.kind[b] = "DPA" /\ UnregisterDPA(b)
  /\ UNCHANGED <<setup, order, pool_vars, registered, route_vars, link_vars, tcp_vars, host_vars>>

\* __register_functions returns the last result.
Unregistered ==
  /\ pc = "unregister" /\ Rest(Pairs) = {}
  /\ Goto(IF ok THEN "route" ELSE "deallocate")
  /\ UNCHANGED <<setup, order, ok, pool_vars, reg_vars, link_vars, tcp_vars, host_vars>>

----------------------------------------------------------------------------
(* The control plane: routers, then the exchange with the hosts.           *)

\* Only a SoC block has a router, and nobody sets the pointer to it before
\* its channel is complete: it reads as null, and is skipped, or as anything. A
\* channel is named by its block.
HasRouter(b) == setup.kind[b] = "SoC" /\ wrap[b] = "ready"

Route ==
  /\ pc = "route" /\ at <= N
  /\ \/ /\ HasRouter(at)
        /\ routed' = routed \cup {at}
        /\ routes' = [routes EXCEPT ![at] = Registered(setup.graph, setup.name[at], at)]
        /\ at' = at + 1
        /\ UNCHANGED pc
     \/ /\ ~HasRouter(at)
        /\ at' = at + 1
        /\ UNCHANGED <<pc, routed, routes>>
     \/ /\ setup.kind[at] = "SoC" /\ ~HasRouter(at)
        /\ Goto("undefined")
        /\ UNCHANGED <<routed, routes>>
  /\ UNCHANGED <<setup, order, ok, pool_vars, registered, wrap, rules, link_vars, tcp_vars,
                 host_vars>>

AllRouted ==
  /\ pc = "route" /\ at > N
  /\ Goto("dial")
  /\ UNCHANGED <<setup, order, ok, pool_vars, reg_vars, link_vars, tcp_vars, host_vars>>

\* TCPServer listens, TCPClient connects to the local host. Each failure ends
\* the process.
Dial ==
  /\ pc = "dial"
  /\ \/ /\ host["local"] = "waiting"
        /\ host' = [host EXCEPT !["local"] = "open"]
        /\ Goto("hear_local")
     \/ /\ Goto("aborted")
        /\ UNCHANGED host
  /\ UNCHANGED <<setup, order, ok, pool_vars, reg_vars, link_vars, tcp_vars, partner>>

\* receiveMsg waits for one read. Of a closed connection it makes an empty
\* message, which leaves the QPInfo zeroed, and a failed read ends the process.
Hear(h, next) ==
  \/ /\ host[h] \in {"greeted", "left"}
     /\ info' = [info EXCEPT ![h] = "real"]
     /\ Goto(next)
  \/ /\ host[h] = "gone"
     /\ info' = [info EXCEPT ![h] = "zero"]
     /\ Goto(next)
  \/ /\ host[h] \in {"gone", "left"}
     /\ Goto("aborted")
     /\ UNCHANGED info

HearLocal ==
  /\ pc = "hear_local"
  /\ Hear("local", "accept")
  /\ UNCHANGED <<setup, order, ok, pool_vars, reg_vars, link_vars, sent, host_vars>>

Accept ==
  /\ pc = "accept" /\ host["remote"] \notin {"waiting", "absent"}
  /\ Goto("hear_remote")
  /\ UNCHANGED <<setup, order, ok, pool_vars, reg_vars, link_vars, tcp_vars, host_vars>>

HearRemote ==
  /\ pc = "hear_remote"
  /\ Hear("remote", "visit")
  /\ UNCHANGED <<setup, order, ok, pool_vars, reg_vars, link_vars, sent, host_vars>>

----------------------------------------------------------------------------
(* Connecting the queue pairs, and telling the hosts.                      *)

\* A failure below __init_control_plane, which leaves the queue pairs as given,
\* is reported with NICC_ERROR_C. That throws where errors are printed and ends
\* the process; otherwise the blocks are returned.
ConnectionFails(left) ==
  /\ ok' = FALSE
  /\ Goto(IF setup.throws THEN "aborted" ELSE "deallocate")
  /\ qp' = IF setup.throws THEN NoQps ELSE left

\* is_connected_to_... are set for good once a block is listed.
TiedAt(b) == tied \cup {h \in Hosts : b \in setup.wires[h]}

Calls(b, hs) ==
  (IF "remote" \in hs THEN << <<"prior", "remote">> >> ELSE <<>>)
    \o (IF "local" \in hs THEN << <<"next", "local">> >> ELSE <<>>)
    \o (IF b > 1 THEN << <<"prior", "block">> >> ELSE <<>>)

\* The head of the loop over the blocks. A block whose function state is not
\* complete is reached through a pointer nobody set, or to freed memory.
Visit ==
  /\ pc = "visit" /\ at <= N
  /\ tied' = TiedAt(at)
  /\ IF wrap[at] = "ready"
     THEN pc' = "connect" /\ todo' = Calls(at, tied') /\ UNCHANGED at
     ELSE Goto("undefined") /\ UNCHANGED todo
  /\ UNCHANGED <<setup, order, ok, pool_vars, reg_vars, qp, tcp_vars, host_vars>>

\* The steps of a connection to a host, and the queue pair after each: INIT,
\* RTR, the address handle, RTS, and the receive queue filled.
Reached(h) ==
  LET peer == IF info[h] = "real" THEN h ELSE "nobody"
      At(st, p, f) == [st |-> st, peer |-> p, filled |-> f, connected |-> f]
  IN <<Bare, At("INIT", "none", FALSE), At("RTR", peer, FALSE),
       At("RTR", peer, FALSE), At("RTS", peer, FALSE), At("RTS", peer, TRUE)>>

\* A side that is connected already is refused, a connection to another block
\* is not implemented, and a DPA block refuses parameters that were never sent.
CannotConnect(s, to) ==
  \/ qp[at][s].connected
  \/ to = "block"
  \/ to \in Hosts /\ setup.kind[at] = "DPA" /\ info[to] = "zero"

ConnectQp ==
  /\ pc = "connect" /\ todo # <<>>
  /\ LET s == Head(todo)[1]
         h == Head(todo)[2]
     IN \/ /\ ~CannotConnect(s, h)
           /\ qp' = [qp EXCEPT ![at][s] = Reached(h)[6]]
           /\ todo' = Tail(todo)
           /\ UNCHANGED <<pc, at, ok>>
        \/ /\ ~CannotConnect(s, h)
           /\ \E step \in 1 .. 5 : ConnectionFails([qp EXCEPT ![at][s] = Reached(h)[step]])
           /\ todo' = <<>>
        \/ /\ CannotConnect(s, h)
           /\ ConnectionFails(qp)
           /\ todo' = <<>>
  /\ UNCHANGED <<setup, order, pool_vars, reg_vars, tied, tcp_vars, host_vars>>

\* When both are made the host is sent the parameters.
Connected ==
  /\ pc = "connect" /\ todo = <<>>
  /\ pc' = "tell_remote"
  /\ UNCHANGED <<setup, order, at, ok, pool_vars, reg_vars, link_vars, tcp_vars, host_vars>>

SendMsg(h) == IF h \in tied THEN [sent EXCEPT ![h] = Append(@, at)] ELSE sent

TellRemote ==
  /\ pc = "tell_remote"
  /\ sent' = SendMsg("remote")
  /\ pc' = "tell_local"
  /\ UNCHANGED <<setup, order, at, ok, pool_vars, reg_vars, link_vars, info, host_vars>>

\* Then the prior block would be connected to this one, but the connection of
\* this block to the prior one has failed before: no block gets there but the
\* first.
TellLocal ==
  /\ pc = "tell_local"
  /\ sent' = SendMsg("local")
  /\ pc' = "visit" /\ at' = at + 1
  /\ UNCHANGED <<setup, order, ok, pool_vars, reg_vars, link_vars, info, host_vars>>

\* The final check looks at the flags, and the sockets are closed.
Verify ==
  /\ pc = "visit" /\ at > N
  /\ \/ tied = Hosts /\ Goto("start") /\ UNCHANGED <<ok, qp>>
     \/ tied # Hosts /\ ConnectionFails(qp)
  /\ UNCHANGED <<setup, order, pool_vars, reg_vars, tied, todo, tcp_vars, host_vars>>

----------------------------------------------------------------------------
(* Starting the blocks.                                                    *)

\* A SoC block starts a thread; the event handler of a DPA block may fail to
\* start.
MayFailToStart(b) == setup.kind[b] = "DPA"

\* Then the constructor returns with its blocks.
Start ==
  /\ pc = "start" /\ at <= N
  /\ \/ at' = at + 1 /\ UNCHANGED <<pc, qp>>
     \/ MayFailToStart(at) /\ Goto("not_started") /\ qp' = NoQps
  /\ UNCHANGED <<setup, order, ok, pool_vars, reg_vars, tied, todo, tcp_vars, host_vars>>

AllStarted ==
  /\ pc = "start" /\ at > N
  /\ Goto("running")
  /\ UNCHANGED <<setup, order, ok, pool_vars, reg_vars, link_vars, tcp_vars, host_vars>>

----------------------------------------------------------------------------
(* The hosts, as the run-time system's calls presume them.                 *)

Listening == pc \in {"dial", "hear_local", "accept"}

\* Both sockets have a linger time of zero: when they are closed, what the
\* host has not received yet may be gone. The connection accepted from the
\* remote host lives as long as the process.
Closed(h) ==
  \/ pc \in Final
  \/ h = "local" /\ pc \in {"start", "deallocate", "running"}

host_only == <<setup, order, pc, at, ok, pool_vars, reg_vars, link_vars, tcp_vars>>

RemoteConnects ==
  /\ host["remote"] = "waiting" /\ Listening
  /\ host' = [host EXCEPT !["remote"] = "open"]
  /\ UNCHANGED <<host_only, partner>>

Greet(h) ==
  /\ host[h] = "open"
  /\ host' = [host EXCEPT ![h] = "greeted"]
  /\ UNCHANGED <<host_only, partner>>

\* The host connects its queue pair to the one it is told of and may send.
TakeParameters(h) ==
  /\ host[h] = "greeted" /\ sent[h] # <<>>
  /\ host' = [host EXCEPT ![h] = "ready"]
  /\ partner' = [partner EXCEPT ![h] = Head(sent[h])]
  /\ UNCHANGED host_only

NoticeClosed(h) ==
  /\ host[h] = "greeted" /\ Closed(h)
  /\ host' = [host EXCEPT ![h] = "left"]
  /\ UNCHANGED <<host_only, partner>>

\* A host ends before it has connected, before it has sent its parameters, or
\* before it has received the others.
HostLeaves(h) ==
  /\ \/ host[h] = "waiting" /\ host' = [host EXCEPT ![h] = "absent"]
     \/ host[h] = "open" /\ host' = [host EXCEPT ![h] = "gone"]
     \/ host[h] = "greeted" /\ host' = [host EXCEPT ![h] = "left"]
  /\ UNCHANGED <<host_only, partner>>

HostGoesOn(h) == Greet(h) \/ TakeParameters(h) \/ NoticeClosed(h)

----------------------------------------------------------------------------

Constructor ==
  \/ LoadRules \/ Allocate \/ AllAllocated \/ GiveBack \/ CleanedUp \/ Deallocated
  \/ Register \/ AllRegistered \/ Unregister \/ Unregistered
  \/ Route \/ AllRouted \/ Dial \/ HearLocal \/ Accept \/ HearRemote
  \/ Visit \/ ConnectQp \/ Connected \/ TellRemote \/ TellLocal \/ Verify
  \/ Start \/ AllStarted

Next ==
  \/ Constructor
  \/ RemoteConnects
  \/ \E h \in Hosts : HostGoesOn(h) \/ HostLeaves(h)

Spec == Init /\ [][Next]_vars

\* The process runs on, and a host that has come so far answers or goes away.
FairSpec ==
  /\ Spec
  /\ WF_vars(Constructor)
  /\ WF_vars(RemoteConnects)
  /\ \A h \in Hosts : WF_vars(HostGoesOn(h))

----------------------------------------------------------------------------
(* Properties.                                                             *)

\* What the blocks of a component hold: the sum of their quotas.
Share(k) ==
  [b \in Blocks |-> IF block[b] = "held" /\ setup.kind[b] = k THEN setup.quota[b] ELSE 0]

\* Whatever fails, and in whatever order the map is walked, a component's
\* remaining quota and what its blocks hold add up to what it started with:
\* no block is returned twice or not charged (__allocate_component_blocks,
\* __deallocate_component_blocks, Component_*::allocate_block).
QuotaConserved ==
  \A k \in DOMAIN setup.total : pool[k] + SumTo(Share(k), N) = setup.total[k]

\* When the constructor gives up, the pool has got everything back; only when
\* a block failed to start does it leave with blocks (DatapathPipeline::
\* DatapathPipeline, deallocate_cb and exit).
GaveBack == pc = "returned" => pool = setup.total

\* A single SoC block as main.cc builds it, listed by both hosts.
MainSetup ==
  /\ setup.kind = <<"SoC">>
  /\ \A h \in Hosts : setup.wires[h] = {1}

\* A host that acts on the parameters it was sent finds a queue pair that is
\* connected to itself and whose receive queue is filled: its first packet
\* does not meet a queue pair without buffers. Of main.cc's application that is
\* so for good; another one, of several blocks or wired to one host, may fail
\* after a host was told, and then it is so only until the process is over
\* (__build_channel_connections, Channel_SoC::connect_qp).
ParamsAreLive ==
  \A h \in Hosts : host[h] = "ready" =>
    \/ qp[partner[h]][Side(h)] = [st |-> "RTS", peer |-> h, filled |-> TRUE, connected |-> TRUE]
    \/ pc \in Final /\ ~MainSetup

\* A running pipeline has told each host of one block, which that host lists,
\* whose queue pair towards it is up, and whose channel the router knows.
RunningIsWired ==
  pc = "running" =>
    \A h \in Hosts :
      \E b \in setup.wires[h] :
        /\ sent[h] = <<b>>
        /\ qp[b][Side(h)].st = "RTS" /\ qp[b][Side(h)].filled
        /\ info[h] = "real" => qp[b][Side(h)].peer = h
        /\ setup.kind[b] = "SoC" => b \in routed

\* The two readings of a description agree on every number that is an int: a
\* block's router has a channel of its own for exactly the return values that
\* the pipeline's rules for the same component forward on, those beyond 8 bits
\* included. (Of a larger number only the pipeline makes a rule.) Any other
\* return value finds the block's channel as well (__init_retval_mappings
\* against load_from_app_dag, lookup_channel).
RoutesAgree ==
  \A b \in routed :
    /\ setup.name[b] \in KnownNames =>
         DOMAIN routes[b].map =
           {rules[i].kernel_retval : i \in {j \in DOMAIN rules :
              /\ rules[j].source = setup.name[b]
              /\ Numeric(rules[j].condition) /\ IsInt(rules[j].condition.value)}}
    /\ \A r \in Retvals : LookupChannel(routes[b], r) = b

\* The exchange with the two hosts cannot deadlock: unless the remote host
\* never connects, the constructor comes to an end or the pipeline runs.
StartupSettles == <>(pc \in Final \cup {"running"} \/ host["remote"] = "absent")

\* Both queue pairs are connected before either host is told, so that in the
\* program as it is nothing can fail any more once a host may have acted: no
\* host is left with a queue pair that leads nowhere.
NoHostStranded == (MainSetup /\ \E h \in Hosts : sent[h] # <<>>) ~> (pc = "running")

\* A host that stays gets the parameters once the pipeline runs: the remote
\* one for certain, the local one unless the closed socket takes them along.
HostsLearn ==
  /\ (pc = "running" /\ host["remote"] = "greeted") ~> (host["remote"] \in {"ready", "left"})
  /\ (pc = "running") ~> (host["local"] \notin {"open", "greeted"})

\* A function is registered only onto a block that is still allocated: what
\* soc.cc:18 requires ("register func must be after component block
\* alloaction").
RegisterAfterAllocation ==
  pc = "register" /\ Rest(Mapped) # {} => block[order[Position(Mapped)]] = "held"

\* A block is connected to a host only if the host's connect_to names it: what
\* datapath_pipeline.cc:506 and :511 say they check.
ConnectsAsListed ==
  \A b \in Blocks, h \in Hosts : qp[b][Side(h)].peer = h => b \in setup.wires[h]

=============================================================================
