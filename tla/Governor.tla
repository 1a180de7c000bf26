------------------------------ MODULE Governor ------------------------------
(***************************************************************************)
(* governance: the proposals of the OLAS governor, the votes added up for  *)
(* and against them, and their quorum, which the code reads from the       *)
(* contract only when a later log makes it look.                           *)
(*                                                                         *)
(* The governor contract is external: `phase' and `tally' are its own.     *)
(***************************************************************************)
EXTENDS Counters

CONSTANTS
    Proposals, Voters, Weights, Quorums,
    VotingDelay, VotingPeriod, MaxBlock,    \* blocks; bound
    None

\* What the constants must satisfy (MCLedgers assumes it of its instances).
GovernorAssumption == /\ VotingDelay \in Nat /\ VotingPeriod \in Nat \ {0} /\ MaxBlock \in Nat
                      /\ None \notin Nat /\ Quorums \subseteq Nat /\ Weights \subseteq Nat

VARIABLES
    \* The contract (external).
    block, phase, quorumAt, voted,
    tally,              \* proposal -> weights cast for it
    paramsTally,        \* of those, cast with parameters
    \* The store: ProposalCreated rows, and how much each VoteCast row added up to.
    proposal, voteCast

chain == <<block, phase, quorumAt, voted, tally, paramsTally>>
vars == <<chain, proposal, voteCast>>

Supports == {"against", "for", "abstain"}

-----------------------------------------------------------------------------
handleProposalCreated(p) ==
    /\ phase[p] = "none"
    /\ phase' = [phase EXCEPT ![p] = "open"]
    /\ proposal' = Put(proposal, p, [startBlock |-> block + VotingDelay, votesFor |-> 0,
                                     votesAgainst |-> 0, quorum |-> None, isQueued |-> FALSE,
                                     isExecuted |-> FALSE, isCancelled |-> FALSE])
    /\ UNCHANGED <<block, quorumAt, voted, tally, paramsTally, voteCast>>

StartOf(p) == proposal[p].startBlock
Voting(p) == phase[p] = "open" /\ block > StartOf(p) /\ block <= StartOf(p) + VotingPeriod

\* Seeded fault: the answer is read from the first log on, when there is no quorum yet.
QuorumAtOnce(p, row) == IF row.quorum = None THEN [row EXCEPT !.quorum = quorumAt[block]] ELSE row

\* The quorum at the start block, once that block is past.
updateProposalQuorum(p, row) ==
    IF row.quorum = None /\ block > row.startBlock
    THEN [row EXCEPT !.quorum = quorumAt[row.startBlock]] ELSE row

\* Seeded fault: an abstention counts against.
TalliedAbstain(row, support, weight) ==
    Add(row, IF support = "for" THEN [votesFor |-> weight] ELSE [votesAgainst |-> weight])

Tallied(row, support, weight) ==
    Add(row, IF support = "against" THEN [votesAgainst |-> weight]
             ELSE IF support = "for" THEN [votesFor |-> weight] ELSE [votesFor |-> 0])

Cast(p, v, support, weight) ==
    /\ Voting(p) /\ <<p, v>> \notin voted
    /\ voted' = voted \cup {<<p, v>>}
    /\ tally' = [tally EXCEPT ![<<p, support>>] = @ + weight]
    /\ UNCHANGED <<block, phase, quorumAt>>

handleVoteCast(p, v, support, weight) ==
    /\ Cast(p, v, support, weight)
    /\ proposal' = [proposal EXCEPT ![p] = Tallied(@, support, weight)]
    /\ voteCast' = [voteCast EXCEPT ![<<p, support>>] = @ + weight]
    /\ UNCHANGED paramsTally

\* A vote with parameters only leaves its own row.
handleVoteCastWithParams(p, v, support, weight) ==
    /\ Cast(p, v, support, weight)
    /\ paramsTally' = [paramsTally EXCEPT ![<<p, support>>] = @ + weight]
    /\ UNCHANGED <<proposal, voteCast>>

Mark(row, mark) == [x \in DOMAIN row |-> IF x = mark THEN TRUE ELSE row[x]]

Moved(p, to, mark) ==
    /\ phase' = [phase EXCEPT ![p] = to]
    /\ proposal' = [proposal EXCEPT ![p] = updateProposalQuorum(p, Mark(@, mark))]
    /\ UNCHANGED <<block, quorumAt, voted, tally, paramsTally, voteCast>>

handleProposalQueued(p) ==
    /\ phase[p] = "open" /\ block > StartOf(p) + VotingPeriod
    /\ Moved(p, "queued", "isQueued")

handleProposalExecuted(p) ==
    /\ phase[p] = "queued"
    /\ Moved(p, "executed", "isExecuted")

handleProposalCanceled(p) ==
    /\ phase[p] \in {"open", "queued"}
    /\ Moved(p, "canceled", "isCancelled")

NextBlock ==
    /\ block < MaxBlock
    /\ block' = block + 1
    /\ UNCHANGED <<phase, quorumAt, voted, tally, paramsTally, proposal, voteCast>>

Init ==
    /\ block = 0
    /\ phase = [p \in Proposals |-> "none"]
    /\ quorumAt \in [0..(MaxBlock + VotingDelay) -> Quorums]
    /\ voted = {}
    /\ tally = [x \in Proposals \X Supports |-> 0] /\ paramsTally = tally
    /\ proposal = NoRows /\ voteCast = tally

Next ==
    \/ NextBlock
    \/ \E p \in Proposals :
          \/ handleProposalCreated(p) \/ handleProposalQueued(p)
          \/ handleProposalExecuted(p) \/ handleProposalCanceled(p)
          \/ \E v \in Voters, s \in Supports, w \in Weights :
                handleVoteCast(p, v, s, w) \/ handleVoteCastWithParams(p, v, s, w)

Spec == Init /\ [][Next]_vars

-----------------------------------------------------------------------------
(* Properties. *)

\* A proposal whose vote is over and that was queued, executed or cancelled has the
\* quorum of its start block, and no proposal has another one.
QuorumOfStart ==
    \A p \in DOMAIN proposal :
       /\ proposal[p].quorum \in {None, quorumAt[StartOf(p)]}
       /\ proposal[p].isQueued \/ proposal[p].isExecuted => proposal[p].quorum # None

\* The tallies are the contract's, less what was cast with parameters.
TalliesMirrorChain ==
    \A p \in DOMAIN proposal :
       /\ proposal[p].votesFor + paramsTally[<<p, "for">>] = tally[<<p, "for">>]
       /\ proposal[p].votesAgainst + paramsTally[<<p, "against">>] = tally[<<p, "against">>]
       /\ \A s \in Supports : voteCast[<<p, s>>] + paramsTally[<<p, s>>] = tally[<<p, s>>]
       /\ proposal[p].isExecuted <=> phase[p] = "executed"
       /\ proposal[p].isCancelled <=> phase[p] = "canceled"

ProposalsMirrorChain == QuorumOfStart /\ TalliesMirrorChain
=============================================================================
