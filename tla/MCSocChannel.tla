---------------------------- MODULE MCSocChannel ----------------------------
(***************************************************************************)
(* The sizes SocChannel is checked with, for classes of 2, 4 and 8 bytes.  *)
(* The first has the proportions of the program: a ring takes a buffer of  *)
(* the largest class, and the region holds four. With others the first     *)
(* ring makes alloc split once or twice.                                   *)
(***************************************************************************)
EXTENDS SocChannel

Sized(rq, sq, mbuf) == [rq |-> rq, sq |-> sq, mbuf |-> mbuf]

MCSizings ==
  {Sized(4, 4, 2), Sized(2, 2, 2), Sized(1, 1, 2), Sized(2, 2, 1), Sized(4, 4, 1),
   Sized(2, 4, 2), Sized(1, 1, 4), Sized(4, 8, 2)}

=============================================================================
