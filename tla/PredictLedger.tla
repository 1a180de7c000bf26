---------------------------- MODULE PredictLedger ----------------------------
(***************************************************************************)
(* What the ledgers of predict-omen and predict-polymarket share besides  *)
(* counters: the payout expected from the outcome tokens of a participant. *)
(* Each keeps its own copy of this code.                                   *)
(***************************************************************************)
EXTENDS Counters

\* The answers of an oracle: outcome 0, outcome 1, anything else is invalid.
IsInvalid(answer) == answer \notin {0, 1}

Positive(balance) == IF balance > 0 THEN balance ELSE 0

\* What the outcome tokens are worth under an answer.
ExpectedPayout(balance, answer) ==
    IF IsInvalid(answer)
    THEN Positive(balance[0]) \div 2 + Positive(balance[1]) \div 2
    ELSE Positive(balance[answer])

=============================================================================
