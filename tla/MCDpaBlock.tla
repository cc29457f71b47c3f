----------------------------- MODULE MCDpaBlock -----------------------------
(***************************************************************************)
(* The channels DpaBlock is checked with: the one the block is built with, *)
(* RDMA on both sides, and the one its constructor is meant for as well,   *)
(* Ethernet towards the prior block.                                       *)
(***************************************************************************)
EXTENDS DpaBlock

Typed(prior, next) == [s \in {"prior", "next"} |-> IF s = "prior" THEN prior ELSE next]

MCChannelTypes == {Typed("RDMA", "RDMA"), Typed("ETHERNET", "RDMA")}

=============================================================================
