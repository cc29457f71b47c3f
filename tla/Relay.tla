------------------------------- MODULE Relay -------------------------------
(***************************************************************************)
(* What a SoC component block promises its neighbours: in each direction   *)
(* the packets it has received and not yet passed on form a queue, and     *)
(* leave from its head, in batches. Nothing is lost, duplicated, reordered *)
(* or made up, and a packet keeps its buffer until it has left.            *)
(***************************************************************************)
EXTENDS Naturals, Sequences

CONSTANTS
  Directions,
  Packets       \* the buffers packets are kept in

VARIABLE pending  \* for each direction, the packets inside, oldest first

TypeOK == pending \in [Directions -> Seq(Packets)]

Held(d) == {pending[d][i] : i \in 1 .. Len(pending[d])}

Init == pending = [d \in Directions |-> << >>]

Arrive(d) ==
  \E p \in Packets \ UNION {Held(e) : e \in Directions} :
    pending' = [pending EXCEPT ![d] = Append(@, p)]

\* The n oldest packets leave.
Pass(d) ==
  \E n \in 1 .. Len(pending[d]) :
    pending' = [pending EXCEPT ![d] = SubSeq(@, n + 1, Len(@))]

Next == \E d \in Directions : Arrive(d) \/ Pass(d)

Spec == Init /\ [][Next]_pending
=============================================================================
