------------------------- MODULE MCPredictOmenCases -------------------------
(***************************************************************************)
(* PredictOmen on two instances, of which a behaviour takes one: each has  *)
(* some of the constants of the cfg, which the properties speak of.        *)
(* "ledger": two traders, one market, answers that change, repeat, are     *)
(* invalid or come by commitment.  "final": one trader, two questions with *)
(* a market each, one more tick; no answer is repeated or committed to     *)
(* (MCPredictOmenAgain.cfg and the README say why).                        *)
(***************************************************************************)
EXTENDS MCPredictOmen, TLC

CONSTANTS a1, a2, a3, q1, q2, q3, f1, f2, f3

VARIABLE subject

Symmetry == Permutations({a1, a2}) \cup Permutations({q2, q3}) \cup Permutations({f2, f3})

Ledger == INSTANCE PredictOmen WITH
    Safes <- {a1, a2}, Questions <- {q1}, Markets <- {f1}, MaxNow <- 1

Final == INSTANCE PredictOmen WITH
    Safes <- {a3}, Questions <- {q2, q3}, Markets <- {f2, f3}, Answers <- {0, 1},
    Sells <- MCNoSells, SameAnswerAgain <- FALSE, Commitments <- FALSE,
    MaxBets <- 1, MaxRedemptions <- 0

MCInit == \/ subject = "ledger" /\ Ledger!Init
          \/ subject = "final" /\ Final!Init

MCNext == /\ \/ subject = "ledger" /\ Ledger!Next
             \/ subject = "final" /\ Final!Next
          /\ UNCHANGED subject

MCSpec == MCInit /\ [][MCNext]_<<vars, subject>>
=============================================================================
