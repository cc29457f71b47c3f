-------------------------------- MODULE Sums --------------------------------
(***************************************************************************)
(* Sums of natural numbers, as conservation laws need them.                *)
(***************************************************************************)
EXTENDS Integers

\* The first n shares together.
SumTo(share, n) ==
  LET sum[i \in 0 .. n] == IF i = 0 THEN 0 ELSE sum[i - 1] + share[i] IN sum[n]

=============================================================================
