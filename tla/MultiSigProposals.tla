-------------------------- MODULE MultiSigProposals --------------------------
(***************************************************************************)
(* Proposals of a multisig, the votes on them, and what a chain upgrade    *)
(* does to them (src/mappings/entities/multiSig/mapMultiSigProposal.ts and *)
(* block/mapChainUpgrade.ts).  Each step is one event of the multiSig      *)
(* pallet, or CodeUpdated, together with its handler: the engine awaits a  *)
(* handler before the next event.                                          *)
(*                                                                         *)
(* A spec version is counted in millions (7 is 7.0.0); TxVersion gives the *)
(* transaction version of each.  The block of CodeUpdated has the new      *)
(* versions and its parent the old ones, as mapChainUpgrade takes it.      *)
(***************************************************************************)
EXTENDS Store, Paging

CONSTANTS
  Proposal,     \* proposal ids
  Signer,       \* signer ids
  Spec0,        \* the spec version of the first block
  SpecLast,     \* bound: the last spec version of the chain
  TxVersion     \* the transaction version of a spec version, from 1

VARIABLES
  cStatus,          \* the pallet: the state of each proposal
  cVote,            \* the pallet: what each signer's vote is
  spec,             \* the spec version of the current block
  proposal,         \* MultiSigProposal rows
  vote,             \* MultiSigProposalVote rows, by <<proposal, signer>>
  oldSpecVersion,   \* module variables of mapChainUpgrade
  oldTxVersion,
  missed            \* history: what was dropped by upgrades whose queries may miss it

pallet == <<cStatus, cVote, spec>>
upgrade == <<oldSpecVersion, oldTxVersion>>
vars == <<pallet, proposal, vote, upgrade, missed>>

Actions == {"Approved", "Rejected"}
Closed == {"Success", "Failed", "Rejected", "Deleted"}

Init ==
  /\ cStatus = [p \in Proposal |-> "None"]
  /\ cVote = [p \in Proposal |-> [s \in Signer |-> "None"]]
  /\ spec = Spec0
  /\ proposal = NoTable /\ vote = NoTable
  /\ oldSpecVersion = 0 /\ oldTxVersion = 0 /\ missed = {}

\* Mutant: the boundary is one version off.
is7xChain_Early == spec >= 6
is7xChain == spec >= 7

-----------------------------------------------------------------------------
handleMultiSigProposalAdded(p) ==
  /\ cStatus[p] = "None"
  /\ cStatus' = [cStatus EXCEPT ![p] = "Active"]
  /\ proposal' = Save(proposal, p, [status |-> "Active", approvalCount |-> 0,
                                    rejectionCount |-> 0])
  /\ UNCHANGED <<cVote, spec, vote, upgrade, missed>>

\* The counts after a vote that replaces the signer's previous one, if any.
Recount(row, previous, action) ==
  [row EXCEPT
     !.approvalCount = @ - (IF previous = "Approved" THEN 1 ELSE 0)
                         + (IF action = "Approved" THEN 1 ELSE 0),
     !.rejectionCount = @ - (IF previous = "Rejected" THEN 1 ELSE 0)
                          + (IF action = "Approved" THEN 0 ELSE 1)]

PreviousVote(p, s) == IF Has(vote, <<p, s>>) THEN vote[<<p, s>>] ELSE "None"

\* handleMultiSigProposalVoteAction
VoteAction(p, s, action) ==
  /\ Has(proposal, p)
  /\ proposal' = [proposal EXCEPT ![p] = Recount(@, PreviousVote(p, s), action)]
  /\ vote' = Save(vote, <<p, s>>, action)

SetStatus(p, status) ==
  /\ Has(proposal, p)
  /\ proposal' = [proposal EXCEPT ![p].status = status]
  /\ UNCHANGED vote

\* handleMultiSigProposalApproved: up to 7.0.0 the event is a signer's vote,
\* from 7.0.0 on it closes the vote and votes have events of their own.
ApprovedEvent(p, s) ==
  IF is7xChain THEN SetStatus(p, "Approved") ELSE VoteAction(p, s, "Approved")

\* A signer votes, or changes its vote, on an active proposal.
Vote(p, s, action) ==
  /\ cStatus[p] = "Active" /\ cVote[p][s] # action
  /\ cVote' = [cVote EXCEPT ![p][s] = action]
  /\ UNCHANGED <<cStatus, spec, upgrade, missed>>
  /\ IF action = "Approved" /\ spec < 7
     THEN ApprovedEvent(p, s)
     ELSE VoteAction(p, s, action)

\* Chain 7.x: enough signers approved.
handleMultiSigProposalApproved(p, s) ==
  /\ spec >= 7 /\ cStatus[p] = "Active" /\ cVote[p][s] = "Approved"
  /\ cStatus' = [cStatus EXCEPT ![p] = "Approved"]
  /\ ApprovedEvent(p, s)
  /\ UNCHANGED <<cVote, spec, upgrade, missed>>

handleMultiSigProposalRejected(p) ==
  /\ cStatus[p] = "Active" /\ \E s \in Signer : cVote[p][s] = "Rejected"
  /\ cStatus' = [cStatus EXCEPT ![p] = "Rejected"]
  /\ SetStatus(p, "Rejected")
  /\ UNCHANGED <<cVote, spec, upgrade, missed>>

handleMultiSigProposalExecuted(p, success) ==
  /\ cStatus[p] = IF spec >= 7 THEN "Approved" ELSE "Active"
  /\ \E s \in Signer : cVote[p][s] = "Approved"
  /\ LET status == IF success THEN "Success" ELSE "Failed"
     IN /\ cStatus' = [cStatus EXCEPT ![p] = status]
        /\ SetStatus(p, status)
  /\ UNCHANGED <<cVote, spec, upgrade, missed>>

-----------------------------------------------------------------------------

ActiveRows == {p \in DOMAIN proposal : proposal[p].status = "Active"}

\* handleMultiSigProposalDeleted: those of the active rows found that the
\* chain's storage has no proposal for.
MarkDeleted(found, stored) ==
  proposal' = [p \in DOMAIN proposal |->
                 IF p \in found \ stored THEN [proposal[p] EXCEPT !.status = "Deleted"]
                                         ELSE proposal[p]]

\* A runtime upgrade: the spec version grows, and with a new transaction
\* version the pallet may drop proposals, whose calls no longer decode.  The
\* handler runs on CodeUpdated.  An error of one of its queries is logged and
\* dropped, before or after the versions of the parent block are known.
handleMigration(dropped) ==
  LET new == spec + 1
      knownSpec == IF oldTxVersion = 0 THEN spec ELSE oldSpecVersion
      knownTx == IF oldTxVersion = 0 THEN TxVersion[spec] ELSE oldTxVersion
      stored == {p \in Proposal : cStatus'[p] = "Active"}
  IN /\ spec < SpecLast
     /\ dropped \subseteq {p \in Proposal : cStatus[p] = "Active"}
     /\ TxVersion[new] = TxVersion[spec] => dropped = {}
     /\ spec' = new
     /\ cStatus' = [p \in Proposal |-> IF p \in dropped THEN "Deleted" ELSE cStatus[p]]
     /\ UNCHANGED <<cVote, vote>>
     /\ \/ /\ IF knownSpec # new /\ TxVersion[new] # knownTx
              THEN /\ \E found \in getPaginatedData(ActiveRows) : MarkDeleted(found, stored)
                   /\ missed' = IF Crowded(ActiveRows) THEN missed \union dropped ELSE missed
                   /\ oldTxVersion' = TxVersion[new]
              ELSE UNCHANGED <<proposal, missed>> /\ oldTxVersion' = knownTx
           /\ oldSpecVersion' = IF knownSpec # new THEN new ELSE knownSpec
        \/ /\ missed' = missed \union dropped
           /\ UNCHANGED proposal
           /\ \/ oldSpecVersion' = knownSpec /\ oldTxVersion' = knownTx
              \/ UNCHANGED upgrade

\* A new process: fresh module variables.
Restart ==
  /\ oldSpecVersion' = 0 /\ oldTxVersion' = 0
  /\ UNCHANGED <<pallet, proposal, vote, missed>>

Next ==
  \/ \E p \in Proposal :
       \/ handleMultiSigProposalAdded(p)
       \/ \E s \in Signer : \/ \E action \in Actions : Vote(p, s, action)
                            \/ handleMultiSigProposalApproved(p, s)
       \/ handleMultiSigProposalRejected(p)
       \/ \E success \in BOOLEAN : handleMultiSigProposalExecuted(p, success)
  \/ \E dropped \in SUBSET Proposal : handleMigration(dropped)
  \/ Restart

Spec == Init /\ [][Next]_vars

-----------------------------------------------------------------------------
(* Properties.                                                             *)

Voters(p, action) == {s \in Signer : cVote[p][s] = action}

\* However often signers change their minds, and whichever of the two event
\* schemes the chain uses, a proposal's counts are the numbers of signers
\* whose last vote was to approve or to reject it.
CountsMatchVotes ==
  \A p \in DOMAIN proposal :
    /\ proposal[p].approvalCount = Cardinality(Voters(p, "Approved"))
    /\ proposal[p].rejectionCount = Cardinality(Voters(p, "Rejected"))

\* The vote rows are the votes of the chain, one for each signer that voted.
VotesMirrorChain ==
  \A p \in Proposal, s \in Signer : PreviousVote(p, s) = cVote[p][s]

\* A proposal's row exists once it was added, with the status it has on the
\* chain; a proposal that an upgrade dropped is "Deleted", although no event
\* says so and the process may have restarted before the upgrade, unless the
\* queries of that very upgrade failed or the active proposals filled more than
\* a page.
StatusMirrorsChain ==
  \A p \in Proposal :
    IF cStatus[p] = "None" THEN ~Has(proposal, p)
    ELSE /\ Has(proposal, p)
         /\ proposal[p].status \in {cStatus[p]} \union
                                   IF p \in missed THEN {"Active"} ELSE {}

\* All of that, across upgrades, restarts, failing and paged queries.
ProposalsMirrorChain == CountsMatchVotes /\ VotesMirrorChain /\ StatusMirrorsChain
=============================================================================
