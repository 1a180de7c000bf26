---------------------------- MODULE MCPredictOmen ----------------------------
(***************************************************************************)
(* PredictOmen on small instances.  Probability 1 is 4 in fixed point: the *)
(* buy is a forecast of one quarter.                                       *)
(***************************************************************************)
EXTENDS PredictOmen

CheapBuy == [amount |-> 1, fee |-> 1, tokens |-> 4]
SmallSell == [amount |-> 1, fee |-> 0, tokens |-> 1]

MCBuys == {CheapBuy}
MCSells == {SmallSell}
MCNoSells == {}
=============================================================================
