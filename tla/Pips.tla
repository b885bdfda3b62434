-------------------------------- MODULE Pips --------------------------------
(***************************************************************************)
(* Governance proposals and the votes on them                              *)
(* (src/mappings/entities/pips/mapProposal.ts).                            *)
(***************************************************************************)
EXTENDS Store, Functions, FiniteSets

CONSTANTS
  Pip, Voter,
  MaxWeight     \* bound on the deposit behind a vote

States == {"Pending", "Rejected", "Scheduled", "Failed", "Executed", "Expired"}

VARIABLES
  cState,       \* the pallet: the state of each proposal
  cVote,        \* the pallet: who votes on it, which way and with what weight
  proposal,     \* Proposal rows: [state, aye, nay, snapshotted]
  vote          \* ProposalVote rows: [vote, weight], by <<pip, account>>

vars == <<cState, cVote, proposal, vote>>

Ballot == [vote : BOOLEAN, weight : 1..MaxWeight]

Init ==
  /\ cState = [p \in Pip |-> "None"]
  /\ cVote = [p \in Pip |-> NoTable]
  /\ proposal = NoTable /\ vote = NoTable

handleProposalCreated(p) ==
  /\ cState[p] = "None"
  /\ cState' = [cState EXCEPT ![p] = "Pending"]
  /\ proposal' = Save(proposal, p, [state |-> "Pending", aye |-> 0, nay |-> 0,
                                    snapshotted |-> FALSE])
  /\ UNCHANGED <<cVote, vote>>

handleProposalStateUpdated(p, state) ==
  /\ cState[p] \in {"Pending", "Scheduled"} /\ Has(proposal, p)
  /\ cState' = [cState EXCEPT ![p] = state]
  /\ proposal' = [proposal EXCEPT ![p].state = state]
  /\ UNCHANGED <<cVote, vote>>

Weigh(row, ballot, sign) ==
  IF ballot.vote THEN [row EXCEPT !.aye = @ + sign * ballot.weight]
                 ELSE [row EXCEPT !.nay = @ + sign * ballot.weight]

\* Mutant: the previous weight goes on counting.
Revised_Kept(row, p, v) == row

\* When a vote is changed, the previous weight is taken back first.
Revised(row, p, v) ==
  IF Has(vote, <<p, v>>) THEN Weigh(row, vote[<<p, v>>], -1) ELSE row

handleVoted(p, v, ballot) ==
  /\ cState[p] = "Pending" /\ Has(proposal, p)
  /\ cVote' = [cVote EXCEPT ![p] = Save(@, v, ballot)]
  /\ proposal' = [proposal EXCEPT ![p] = Weigh(Revised(@, p, v), ballot, 1)]
  /\ vote' = Save(vote, <<p, v>>, ballot)
  /\ UNCHANGED cState

\* One read-modify-write per proposal, all at once: they are distinct rows.
handleSnapshotTaken(pips) ==
  /\ \A p \in pips : cState[p] = "Pending" /\ Has(proposal, p)
  /\ proposal' = SaveAll(proposal, [p \in pips |-> [proposal[p] EXCEPT !.snapshotted = TRUE]])
  /\ UNCHANGED <<cState, cVote, vote>>

Next ==
  \/ \E p \in Pip :
       \/ handleProposalCreated(p)
       \/ \E state \in States : handleProposalStateUpdated(p, state)
       \/ \E v \in Voter, ballot \in Ballot : handleVoted(p, v, ballot)
  \/ \E pips \in (SUBSET Pip) \ {{}} : handleSnapshotTaken(pips)

Spec == Init /\ [][Next]_vars

-----------------------------------------------------------------------------
Weight(p, side) ==
  SumFunction([v \in {u \in DOMAIN cVote[p] : cVote[p][u].vote = side}
                 |-> cVote[p][v].weight])

\* However often voters change sides or weights, and whatever else happens to
\* the proposal in between, its totals are the weights of the standing votes.
WeightsMatchVotes ==
  \A p \in DOMAIN proposal :
    /\ proposal[p].aye = Weight(p, TRUE)
    /\ proposal[p].nay = Weight(p, FALSE)
    /\ proposal[p].state = cState[p]
=============================================================================
