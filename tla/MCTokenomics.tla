---------------------------- MODULE MCTokenomics ----------------------------
(***************************************************************************)
(* TokenomicsEpochs on a small instance.  No action names a nominee.       *)
(***************************************************************************)
EXTENDS TokenomicsEpochs, TLC

Symmetry == Permutations(Nominees)
=============================================================================
