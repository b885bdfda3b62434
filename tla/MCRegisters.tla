----------------------------- MODULE MCRegisters -----------------------------
(***************************************************************************)
(* The registers: components of a few tables each, which no handler of     *)
(* another component reads or writes.  One run checks them all, one after  *)
(* the other: the first state picks the component that moves and the       *)
(* others stay where they are, since interleaving them shows nothing.      *)
(***************************************************************************)
EXTENDS Integers, FiniteSets

CONSTANTS
  Venue, Signer, Owner, Text,
  MaxNumber, Name, NoName, Custodian, NoCustodian,
  Admin,
  Proposal, Spec0, SpecLast,
  Pip, Voter, MaxWeight,
  Target, Issuer, Kind, Scope, NoScope,
  Did, NoDid, Fixed, Custom, Perms, NoGroup,
  Nft,
  Tx,
  ConfAsset, ConfAccount, ConfVenue, MaxConfSupply,
  Ticker, Asset, NoAsset, MaxEvents,
  Payer, Treasury, NoOne, Committee, Amount, TxFee, MaxMoves,
  Entity, Value, BuiltIn, CustomId, MaxIssued,
  Sto, NoEnd, MaxTime,
  Data, Trusted, MaxId, PageSize,
  ShortPage,    \* a page that few rows fill, for the registers with few of them
  Dist, Benefit, TaxRate, Million,
  GcDid, SystemDid, Key, NoKey, MultiSig, GenesisSigner

ASSUME RegistersAssumption ==
  /\ {MaxNumber, MaxWeight, MaxEvents, MaxMoves, MaxIssued, MaxTime, MaxId} \subseteq Nat
  /\ NoName \notin Name /\ NoCustodian \notin Custodian
  /\ NoScope \notin Scope /\ NoDid \notin Did
  /\ Fixed \cap Custom = {} /\ NoGroup \notin Fixed \union Custom
  /\ NoAsset \notin Asset /\ NoKey \notin Key /\ NoEnd \notin Nat
  /\ "undefined" \notin CustomId /\ BuiltIn \cap {"None", "Custom"} = {}
  /\ {Treasury, NoOne, Committee} \cap Payer = {} /\ Treasury # NoOne
  /\ Amount \union TxFee \subseteq Nat
  /\ Spec0 \in 6..8 /\ SpecLast \in 6..8 /\ {PageSize, ShortPage} \subseteq Nat \ {0}
  /\ Million \in Nat \ {0} /\ TaxRate \subseteq 0..Million /\ Benefit \subseteq Nat
  /\ GcDid \cap SystemDid = {}
  /\ IsFiniteSet(Issuer) /\ IsFiniteSet(Voter) /\ IsFiniteSet(Target)
  /\ IsFiniteSet(Benefit) /\ Benefit # {} /\ IsFiniteSet(Nft)

VARIABLES
  focus,
  cVenue, venue,
  portfolios7x, cPortfolio, ownerKnown, portfolio, leg,
  multiSig7x, cSigner, cAdmin, cRequired, multiSig, signer, admin,
  cStatus, cMultiSigVote, spec, multiSigProposal, multiSigVote,
  oldSpecVersion, oldTxVersion, missed,
  cState, cVote, proposal, vote,
  cClaim, claim, claimScope, identity,
  cAgent, cPerms, agent, group, membership, history, elsewhere, crowded, untold,
  cOwner, supply, holder,
  cTx, tx, affirmation,
  cAsset, cAccount, cFrozen, cBalance, confAsset, confAccount, confHolder,
  cReserver, cLinked, log, missing, reservation, closed, ticker,
  migrated,
  splitFees, cExists, primary, cMoves, cDone, polyxRows,
  rulesChain, cManager, cExempt, cStat, cCondition, cSupply, shared, conditionsTied,
  manager, exemption, stat, compliance, totalSupply,
  era, cNow, cSto, sto, invested, stoStopped, misread,
  cRule, cTrusted, cPaused, rule, trusted, isCompliancePaused, changed, tied,
  cDist, distribution, payment, distStopped,
  is7xChainAtGenesis, cPrimary, cSecondary, cCreator, dids, sigs, todo, current,
  flight, genesisRows, outcome

\* A leg with a mediator that is its receiver too, and two legs in which an
\* identity has the same role twice or different roles.
ConfLeg(s, r, ms) == [sender |-> s, receiver |-> r, mediators |-> ms]
ConfLegLists ==
  UNION {UNION {{<<ConfLeg(a, b, {b})>>,
                 <<ConfLeg(a, b, {}), ConfLeg(a, b, {})>>,
                 <<ConfLeg(a, b, {a}), ConfLeg(b, a, {b})>>} : b \in Did \ {a}} : a \in Did}

\* 6.x to 7.x is a major upgrade, 7.x to 8.x keeps the transaction version.
TxVersions == [v \in 6..8 |-> IF v = 6 THEN 1 ELSE 2]

V == INSTANCE Venues
P == INSTANCE Portfolios WITH is7xChain <- portfolios7x, identity <- ownerKnown
M == INSTANCE MultiSigSigners WITH is7xChain <- multiSig7x
U == INSTANCE MultiSigProposals
       WITH Signer <- Voter, TxVersion <- TxVersions, cVote <- cMultiSigVote,
            proposal <- multiSigProposal, vote <- multiSigVote, PageSize <- ShortPage
G == INSTANCE Pips
C == INSTANCE Claims
A == INSTANCE Agents WITH PageSize <- ShortPage
N == INSTANCE NftLedger
T == INSTANCE ConfidentialTransactions WITH LegLists <- ConfLegLists
K == INSTANCE ConfidentialAssets
       WITH Asset <- ConfAsset, Account <- ConfAccount, Venue <- ConfVenue,
            MaxSupply <- MaxConfSupply, asset <- confAsset,
            account <- confAccount, holder <- confHolder
I == INSTANCE Tickers WITH cOwner <- cReserver
L == INSTANCE PolyxLedger WITH rows <- polyxRows
R == INSTANCE TransferRules
       WITH PageSize <- ShortPage, chain <- rulesChain, tied <- conditionsTied
O == INSTANCE Offerings WITH stopped <- stoStopped
Q == INSTANCE Compliance
D == INSTANCE Distributions WITH stopped <- distStopped
E == INSTANCE Genesis WITH Signer <- GenesisSigner, rows <- genesisRows

Rules == {"supply", "managers", "conditions", "exemptions"}
Components ==
  {"venues", "portfolios", "multisig", "multisig proposals", "pips",
   "claims", "agents", "nfts", "transactions", "confidential", "tickers",
   "polyx", "offerings", "compliance", "distributions", "genesis"} \union Rules

\* Which keys the genesis identities have does not matter.
KeyOf ==
  CHOOSE of \in [GcDid \union SystemDid -> Key] :
    \A d, e \in GcDid \union SystemDid : d # e => of[d] # of[e]

\* A component that stays where it is has one initial state.
Init ==
  /\ focus \in Components
  /\ V!Init
  /\ P!Init
  /\ M!Init /\ (focus # "multisig" =>
         ~multiSig7x)
  /\ U!Init
  /\ G!Init
  /\ C!Init
  /\ A!Init
  /\ N!Init
  /\ T!Init
  /\ K!Init /\ (focus # "confidential" =>
         cAccount = {})
  /\ I!Init /\ (focus # "tickers" =>
         cReserver = [t \in Ticker |-> NoDid] /\ missing = {})
  /\ L!Init /\ (\E a \in Payer : primary[a] = a) /\ (focus # "polyx" =>
         ~splitFees /\ cExists = Payer /\ primary = [a \in Payer |-> a])
  /\ R!Init /\ (focus \notin Rules =>
         rulesChain = "since 5")
  /\ O!Init /\ (focus # "offerings" =>
         era = 1)
  /\ Q!Init
  /\ D!Init
  /\ E!Init /\ (\A d \in E!Known : cPrimary[d] = KeyOf[d]) /\ (focus # "genesis" =>
         /\ ~is7xChainAtGenesis /\ cPrimary = KeyOf
         /\ cSecondary = [d \in GcDid |-> {}]
         /\ \A m \in MultiSig : cCreator[m] \in SystemDid)

venueVars == <<cVenue, venue>>
portfolioVars == <<portfolios7x, cPortfolio, ownerKnown, portfolio, leg>>
multiSigVars ==
  <<multiSig7x, cSigner, cAdmin, cRequired, multiSig, signer, admin>>
multiSigProposalVars ==
  <<cStatus, cMultiSigVote, spec, multiSigProposal, multiSigVote,
    oldSpecVersion, oldTxVersion, missed>>
pipVars == <<cState, cVote, proposal, vote>>
claimVars == <<cClaim, claim, claimScope, identity>>
agentVars ==
  <<cAgent, cPerms, agent, group, membership, history, elsewhere, crowded, untold>>
nftVars == <<cOwner, supply, holder>>
transactionVars == <<cTx, tx, affirmation>>
confidentialVars ==
  <<cAsset, cAccount, cFrozen, cBalance, confAsset, confAccount, confHolder>>
tickerVars ==
  <<cReserver, cLinked, log, missing, reservation, closed, ticker,
    migrated>>
polyxVars == <<splitFees, cExists, primary, cMoves, cDone, polyxRows>>
ruleVars ==
  <<rulesChain, cManager, cExempt, cStat, cCondition, cSupply, shared, conditionsTied,
    manager, exemption, stat, compliance, totalSupply>>
offeringVars == <<era, cNow, cSto, sto, invested, stoStopped, misread>>
complianceVars ==
  <<cRule, cTrusted, cPaused, rule, trusted, isCompliancePaused, changed, tied>>
distributionVars == <<cDist, distribution, payment, distStopped>>
genesisVars ==
  <<is7xChainAtGenesis, cPrimary, cSecondary, cCreator, dids, sigs, todo, current,
    flight, genesisRows, outcome>>

Only(component) ==
  /\ focus = component /\ UNCHANGED focus
  /\ component # "venues" => UNCHANGED venueVars
  /\ component # "portfolios" => UNCHANGED portfolioVars
  /\ component # "multisig" => UNCHANGED multiSigVars
  /\ component # "multisig proposals" => UNCHANGED multiSigProposalVars
  /\ component # "pips" => UNCHANGED pipVars
  /\ component # "claims" => UNCHANGED claimVars
  /\ component # "agents" => UNCHANGED agentVars
  /\ component # "nfts" => UNCHANGED nftVars
  /\ component # "transactions" => UNCHANGED transactionVars
  /\ component # "confidential" => UNCHANGED confidentialVars
  /\ component # "tickers" => UNCHANGED tickerVars
  /\ component # "polyx" => UNCHANGED polyxVars
  /\ component \notin Rules => UNCHANGED ruleVars
  /\ component # "offerings" => UNCHANGED offeringVars
  /\ component # "compliance" => UNCHANGED complianceVars
  /\ component # "distributions" => UNCHANGED distributionVars
  /\ component # "genesis" => UNCHANGED genesisVars

Next ==
  \/ Only("venues") /\ V!Next
  \/ Only("portfolios") /\ P!Next
  \/ Only("multisig") /\ M!Next
  \/ Only("multisig proposals") /\ U!Next
  \/ Only("pips") /\ G!Next
  \/ Only("claims") /\ C!Next
  \/ Only("agents") /\ A!Next
  \/ Only("nfts") /\ N!Next
  \/ Only("transactions") /\ T!Next
  \/ Only("confidential") /\ K!Next
  \/ Only("tickers") /\ I!Next
  \/ Only("polyx") /\ L!Next
  \/ Only("supply") /\ R!NextSupply
  \/ Only("managers") /\ R!NextManagers
  \/ Only("conditions") /\ R!NextConditions
  \/ Only("exemptions") /\ R!NextExemptions
  \/ Only("offerings") /\ O!Next
  \/ Only("compliance") /\ Q!Next
  \/ Only("distributions") /\ D!Next
  \/ Only("genesis") /\ E!Next

vars ==
  <<focus, venueVars, portfolioVars, multiSigVars, multiSigProposalVars,
    pipVars, claimVars, agentVars, nftVars, transactionVars,
    confidentialVars, tickerVars, polyxVars, ruleVars, offeringVars,
    complianceVars, distributionVars, genesisVars>>

Spec == Init /\ [][Next]_vars

-----------------------------------------------------------------------------
(* The invariants of the components, stated and explained in their modules. *)

\* Venues: no signer is listed that the chain does not know, and none twice.
VenueSignersSound == V!SignersSound

\* Portfolios: the chain's have their rows, up to date, and others are empty.
PortfoliosMirrorChain == P!PortfoliosMirrorChain

\* MultiSigSigners: each signer and admin has the status the chain gives it.
SignersMirrorChain == M!SignersMirrorChain

\* MultiSigProposals: counts, votes and status of a proposal are the chain's.
ProposalsMirrorChain == U!ProposalsMirrorChain

\* Pips: the totals of a proposal are the weights of the standing votes.
WeightsMatchVotes == G!WeightsMatchVotes

\* Claims: a claim made by one issuer is shown as it stands.
SoleClaimsMirrorChain == C!SoleClaimsMirrorChain

\* Agents: no false member of a group, and histories that tell the permissions.
AgentsSound == A!AgentsSound

\* NftLedger: the lists of ids and the supply are those of the chain.
NftsMirrorChain == N!NftsMirrorChain

\* ConfidentialTransactions: pending count and affirmations are the chain's.
PendingExplained == T!PendingExplained

\* ConfidentialAssets: assets, holders and frozen accounts are the chain's.
ConfidentialMirrorsChain == K!ConfidentialMirrorsChain

\* Tickers: reservations and tickers are the chain's, before and after a replay.
TickersMirrorChain == I!TickersMirrorChain

\* PolyxLedger: no movement of POLYX is lost, and a simple one told once.
MovesTold == L!MovesTold

\* TransferRules: managers, conditions and exemptions are those of the chain.
RulesMirrorChain == R!RulesMirrorChain

\* Offerings: status and window of an offering, until the indexer stops.
OfferingsMirrorChain == O!OfferingsMirrorChain

\* Compliance: no requirement is lost, and none left that was replaced.
ComplianceMirrorsChain == Q!ComplianceMirrorsChain

\* Distributions: taxes and payments add up to what the chain has paid.
DistributionsAddUp == D!DistributionsAddUp

\* Genesis: an import without an error is complete, and none is wrong.
GenesisImported == E!GenesisImported
=============================================================================
