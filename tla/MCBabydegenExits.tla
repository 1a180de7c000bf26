-------------------------- MODULE MCBabydegenExits --------------------------
(***************************************************************************)
(* BabydegenPositions with one Safe that holds LP tokens, for what the     *)
(* schema says of the exit of a position.                                  *)
(***************************************************************************)
EXTENDS BabydegenPositions

=============================================================================
