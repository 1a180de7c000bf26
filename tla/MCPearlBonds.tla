---------------------------- MODULE MCPearlBonds ----------------------------
(***************************************************************************)
(* The two halves of what pearl-transactions makes of a bond, of which a   *)
(* behaviour takes one.  "bonds": PearlBonds with one token-secured        *)
(* service bonded by a Master Safe and one native-secured service, whose   *)
(* registry events meet an empty queue.  "funds": PearlFunds with one      *)
(* account per role and a second Master Safe without an EOA of its own.    *)
(***************************************************************************)
EXTENDS PearlBonds, PearlFunds

CONSTANTS s1, s2, m1, m2, e1, a1, ae, eoa

VARIABLE subject

MCPayer == [s \in Services |-> IF s = s1 THEN m1 ELSE eoa]

MCRoleOf == [a \in Accounts |->
    CASE a \in {m1, m2} -> "MASTER" [] a = e1 -> "MASTER_EOA" [] a = a1 -> "AGENT"
      [] a = ae -> "AGENT_EOA" [] OTHER -> None]

MCMasterOf == [a \in Accounts |->
    CASE a \in {m1, e1, a1, ae} -> m1 [] a = m2 -> m2 [] OTHER -> None]

MCServiceOf == [a \in Accounts |-> IF a \in {a1, ae} THEN s1 ELSE None]

MCInit ==
    /\ subject \in {"bonds", "funds"}
    /\ Init /\ FundsInit

MCNext ==
    /\ \/ subject = "bonds" /\ Next /\ UNCHANGED fundsVars
       \/ subject = "funds" /\ FundsNext /\ UNCHANGED vars
    /\ UNCHANGED subject

MCSpec == MCInit /\ [][MCNext]_<<subject, vars, fundsVars>>
=============================================================================
