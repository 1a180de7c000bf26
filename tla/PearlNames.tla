----------------------------- MODULE PearlNames -----------------------------
(***************************************************************************)
(* What the modules of pearl-transactions about bonds and funds speak of   *)
(* alike.                                                                  *)
(***************************************************************************)

CONSTANTS
    Services,       \* service ids of the registry
    None            \* no row, no service, no Safe
=============================================================================
