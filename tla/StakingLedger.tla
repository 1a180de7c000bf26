---------------------------- MODULE StakingLedger ----------------------------
(***************************************************************************)
(* What the Service rows promise a consumer of the staking subgraph,       *)
(* without epochs, trackers, history or totals: each service is at home in *)
(* at most one contract at a time, earns only where it is at home, never   *)
(* claims more than it earned, and leaves with everything claimed.         *)
(***************************************************************************)
EXTENDS Integers

CONSTANTS Services, Contracts, None

VARIABLES home, earned, claimed

vars == <<home, earned, claimed>>

Init ==
    /\ home = [s \in Services |-> None]
    /\ earned = [s \in Services |-> 0]
    /\ claimed = [s \in Services |-> 0]

Stake(s, c) ==
    /\ home[s] = None
    /\ home' = [home EXCEPT ![s] = c]
    /\ UNCHANGED <<earned, claimed>>

\* A checkpoint of c pays some of the services at home in c.
Pay(c) ==
    /\ earned' \in [Services -> Nat]
    /\ \A s \in Services : \/ earned'[s] = earned[s]
                           \/ home[s] = c /\ earned'[s] > earned[s]
    /\ UNCHANGED <<home, claimed>>

Settle(s) ==
    /\ home[s] # None
    /\ claimed' = [claimed EXCEPT ![s] = earned[s]]
    /\ UNCHANGED earned

Claim(s) == Settle(s) /\ earned[s] > claimed[s] /\ UNCHANGED home
Leave(s) == Settle(s) /\ home' = [home EXCEPT ![s] = None]

Next == \/ \E s \in Services, c \in Contracts : Stake(s, c)
        \/ \E c \in Contracts : Pay(c)
        \/ \E s \in Services : Claim(s) \/ Leave(s)

Spec == Init /\ [][Next]_vars
=============================================================================
