------------------------------ MODULE MCStaking ------------------------------
(***************************************************************************)
(* Staking on a small instance: services that can migrate between two  *)
(* indexed contracts of different stakes; the third contract is created by *)
(* the same factory with an implementation that is not allow-listed.       *)
(***************************************************************************)
EXTENDS Staking, TLC

CONSTANTS c1, c2, c3

MCStakeOf == [c \in Contracts |-> CASE c = c1 -> 1 [] c = c2 -> 2 [] OTHER -> 5]
Symmetry == Permutations(Services)
=============================================================================
