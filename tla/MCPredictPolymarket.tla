------------------------- MODULE MCPredictPolymarket -------------------------
(***************************************************************************)
(* PredictPolymarket on two instances, of which a behaviour takes one: each *)
(* has some of the constants of the cfg, which the properties speak of.    *)
(* "ledger": one service; two traders buy 3 shares for 2 and sell 1 share  *)
(* for 1 on two conditions that may share a question.                      *)
(* "cohorts": two services and two Safes registered and deployed in every  *)
(* order.                                                                  *)
(***************************************************************************)
EXTENDS PredictPolymarket, TLC

CONSTANTS a1, a2, s1

VARIABLE subject

MCFills == {[amount |-> 2, shares |-> 3], [amount |-> -1, shares |-> -1]}

Symmetry == Permutations(Conditions) \cup Permutations(Safes)

Ledger == INSTANCE PredictPolymarket WITH Services <- {s1}, AgentIds <- {}

Cohorts == INSTANCE PredictPolymarket WITH
    Conditions <- {}, Questions <- {}, MaxNow <- 0, MaxBets <- 0, MaxRedemptions <- 0,
    MaxResolutions <- 0

MCInit == \/ subject = "ledger" /\ Ledger!Init
          \/ subject = "cohorts" /\ Cohorts!Init

MCNext == /\ \/ subject = "ledger" /\ Ledger!Next
             \/ subject = "cohorts" /\ Cohorts!Next
          /\ UNCHANGED subject

MCSpec == MCInit /\ [][MCNext]_<<vars, subject>>
=============================================================================
