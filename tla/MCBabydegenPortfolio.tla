------------------------ MODULE MCBabydegenPortfolio ------------------------
(***************************************************************************)
(* BabydegenPortfolio on three instances, of which a behaviour takes one;  *)
(* each has some of the constants of the cfg, which the properties speak   *)
(* of.  "days": two services in a row that own two Safes, over four days   *)
(* and a bit.  "values": the same over two days, at prices that move.      *)
(* "money": two Safes, an operator with code, an EOA and a contract, and   *)
(* prices that move.                                                       *)
(***************************************************************************)
EXTENDS BabydegenPortfolio

CONSTANTS x1, y1, e1, p1, k1

VARIABLE subject

MCIds == {1}
MCSafes == {x1, y1}
MCOperators == {e1, p1}
MCOutsiders == {k1}
MCContracts == {p1, k1}

Days == INSTANCE BabydegenPortfolio WITH
    Operators <- {e1}, Outsiders <- {}, Contracts <- {}, Prices <- {1}, MaxFlows <- 1

Values == INSTANCE BabydegenPortfolio WITH
    Operators <- {e1}, Outsiders <- {}, Contracts <- {}, MaxNow <- 4, MaxFlows <- 1

Money == INSTANCE BabydegenPortfolio WITH
    MaxNow <- 2, MaxPositions <- 0

ASSUME InstancesAssumption ==
    Days!PortfolioAssumption /\ Values!PortfolioAssumption /\ Money!PortfolioAssumption

MCInit == \/ subject = "days" /\ Days!Init
          \/ subject = "values" /\ Values!Init
          \/ subject = "money" /\ Money!Init

MCNext == /\ \/ subject = "days" /\ Days!Next
             \/ subject = "values" /\ Values!Next
             \/ subject = "money" /\ Money!Next
          /\ UNCHANGED subject

MCSpec == MCInit /\ [][MCNext]_<<vars, subject>> /\ (subject = "days" => Days!BlocksGoOn)

\* Over the days, snapshots go on (portfolioScheduler.ts).
GoesOnSnapshotting == subject = "days" => Days!EventuallySnapshotted
=============================================================================
