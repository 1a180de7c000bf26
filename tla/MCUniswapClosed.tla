--------------------------- MODULE MCUniswapClosed ---------------------------
(***************************************************************************)
(* OptimismPositions with one Safe and one NFT of Uniswap V3, for what the *)
(* handler of its transfers says it does.                                  *)
(***************************************************************************)
EXTENDS OptimismPositions

=============================================================================
