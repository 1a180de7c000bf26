------------------------------- MODULE MCPearl -------------------------------
(***************************************************************************)
(* PearlSafes on two small instances, of which a behaviour takes one: each *)
(* has some of the constants of the cfg, which the properties speak of.    *)
(* "structure": two services, one of them minted before the first indexed  *)
(* block, and two Safes that may each play Master Safe, Agent Safe or      *)
(* both.  "owners": one service and one Safe whose owners change, an       *)
(* indexed and an unindexed staking proxy, rewards on two days.            *)
(***************************************************************************)
EXTENDS PearlSafes, TLC

CONSTANTS m1, m2, e1, e2, s1, s2, p1, p2

VARIABLE subject

MCInitialOwners == [m \in Safes |-> <<e1>>]

Structure == INSTANCE PearlSafes WITH
    Eoas <- {e1}, Proxies <- {p1}, Operators <- {m1}, PreExisting <- {s2},
    RewardAmounts <- {}, MaxPaid <- 0, MaxDay <- 0, MaxOwnerLogs <- 0

Owners == INSTANCE PearlSafes WITH
    Services <- {s1}, Safes <- {m1}, PreExisting <- {s1}, InitialOwners <- [m \in {m1} |-> <<e1>>]

MCInit == \/ subject = "structure" /\ Structure!Init
          \/ subject = "owners" /\ Owners!Init

MCNext == /\ \/ subject = "structure" /\ Structure!Next
             \/ subject = "owners" /\ Owners!Next
          /\ UNCHANGED subject

MCSpec == MCInit /\ [][MCNext]_<<vars, subject>>
=============================================================================
