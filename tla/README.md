# A verification development of the Polymesh SubQuery indexer

The repository indexes the Polymesh chain. An engine (`@subql/node`) fetches
finalized blocks and calls, for each event that a filter of `project.ts`
selects, the handlers of that event's component (`src/mappings/entities/**`) and
`handleEvent` (`src/mappings/mappingHandlers.ts`), in the order in which
`project.ts` lists them. Handlers read
and write rows of a store; the engine writes the rows of whole blocks to
PostgreSQL, from which a GraphQL service answers. Its container first brings the
schema of the database up to date (`db/`).

The indexer has no state machine of its own to protect. What it owes its
readers is that **the tables say what the chain says**. So nearly every module
puts next to each other the state of the *chain* (variables that start with
`c`: what the pallet that emits the events keeps) and the *rows* that the
handlers derive from the events, and the invariants relate the two. The chain's
side follows what the handlers rely on; it is marked external in the map.

Paths below are those of the repository; those without a prefix are under
`src/mappings`.

## Inventory

### Components, their state, operations and promises

| component | state | operations | what makes it correct |
|---|---|---|---|
| event pipeline (`mappingHandlers.ts`, `entities/block`, `events/mapEvent.ts`, `common.ts`, `project.ts`) | tables Block, Extrinsic, Event, SubqueryVersion; module variables `lastBlockHash`, `lastEventIdx`, `startupHandled` | `handleGenesis`, `handleStartup`, `handleEvent` | every block, extrinsic and event once, whatever crashes; links resolve; every version that works is recorded |
| chain upgrade (`block/mapChainUpgrade.ts`) | module variables `oldSpecVersion`, `oldTxVersion` | `mapChainUpgrade` on `CodeUpdated` | proposals that an upgrade drops are shown as deleted, and no other |
| genesis import (`migrations/genesisHandler.ts`) | the first rows of Block, Identity, Account, Portfolio, MultiSig and theirs | three concurrent branches | everything of the genesis state is there, or an error was logged; a row tells a fact |
| schema migrations (`db/`, `docker/docker-entrypoint.sh`, `scripts/run-*.ts`) | the table `migrations`; the schema; rows the files rewrite | collect, apply and record files; wait for the database | no file skipped, the indexer comes up, the rows stay as designed |
| settlement (`settlements/mapSettlement.ts`) | Instruction, Leg, InstructionParty, InstructionAffirmation, InstructionEvent | thirteen handlers | between blocks the status, parties and standing affirmations are those of the pallet |
| venues (`settlements/mapVenue.ts`) | Venue | create, details, type, signers | the signers of the venue |
| multisig (`multiSig/*`) | MultiSig, MultiSigSigner, MultiSigAdmin, MultiSigProposal, MultiSigProposalVote | creation, admins, signers, proposals, two vote schemes | counts are the numbers of standing votes; statuses are the chain's |
| assets (`assets/mapAsset.ts`) | Asset, AssetHolder, AssetTransaction, Funding, and one table per attribute | issue, redeem, transfer, ownership, attributes | supply = sum of holders = the chain's; transactions explain holdings |
| NFTs (`assets/mapNfts.ts`) | NftHolder, Asset.totalSupply | `handleNftPortfolioUpdates` | lists of ids, and the supply |
| tickers (`assets/mapTickers.ts`) | TickerReservation, Asset.ticker | register, claim, transfer, link, unlink; the backfill of file 11 | owner and asset of a ticker |
| compliance (`assets/mapCompliance.ts`) | Compliance, TrustedClaimIssuer, Asset.isCompliancePaused | create, replace, remove, reset, pause, trust | the requirements as they stand |
| transfer restrictions (`assets/mapStatistics.ts`, `mapTransferManager.ts`) | StatType, TransferCompliance, TransferComplianceExemption, TransferManager | statistics, conditions, exemptions; managers before 5.0.0 | the restrictions as they stand |
| corporate actions (`assets/mapCorporateActions.ts`) | Distribution, DistributionPayment | create, remove, claim, reclaim | payments and taxes add up |
| offerings (`stos/mapSto.ts`, `utils/stos.ts`) | Sto, Investment | create, freeze, close, window, off-chain funding, invest | status, end, investments |
| identities and keys (`identities/mapIdentities.ts`, `mapAuthorization.ts`) | Identity, Account, Permissions, ChildIdentity, Authorization | DIDs, keys joining, leaving, rotating; authorizations | a key is linked to the identity the chain links it to, with its permissions |
| portfolios (`identities/mapPortfolio.ts`) | Portfolio, PortfolioMovement | create, rename, delete, custodian, movements, portfolios made up | each portfolio has its row, and from 7.0.0 on so has one a leg names |
| claims (`identities/mapClaim.ts`) | Claim, ClaimScope | add, revoke | each claim as it stands |
| POLYX ledger (`identities/mapPolyxTransaction.ts`) | PolyxTransaction | merges the events of one extrinsic | each movement told with its payer, and told once |
| external agents (`externalAgents/*`) | TickerExternalAgent, AgentGroup, AgentGroupMembership, TickerExternalAgentHistory, TickerExternalAgentAction | groups, agents, changes, a log of actions | no false member; histories tell the permissions |
| governance (`pips/mapProposal.ts`) | Proposal, ProposalVote | create, state, vote, snapshot | totals are the weights of standing votes |
| confidential assets (`confidentialAssets/*`) | ConfidentialAsset, ConfidentialAccount, ConfidentialAssetHolder, ConfidentialTransaction, ...Affirmation | assets, accounts, venues, transactions | balances, frozen accounts, pending affirmations |
| staking and bridge events | logs | one insert per event | nothing reads them back: not modelled |
| GraphQL schema, SQL views, harvester serialization, scripts for developers | none | declarative, or pure conversion | not modelled; the schema's texts are quoted as promises |

### How they interact

* The engine calls the handlers **one event at a time**, in chain order, and
  awaits each before the next. Inside a handler `Promise.all` may run several
  read-modify-writes at once.
* Handlers share state only through rows of the store; a read sees the writes of
  earlier handlers of the same block. Portfolios are read by settlement legs and
  movements; identities by authorizations and claims; proposals by the upgrade.
* `handleInstructionCreated` is the one handler that reads *other events of its
  block*, and the POLYX handlers read other *rows of their extrinsic*.
  `mapChainUpgrade` and the genesis import query the chain.
* A handler that throws stops the process; the container restarts it
  (`docker-compose.yml:27`), and it starts from the last durable height with fresh
  module variables. At an event that is always thrown on it stops for good.
* Before the node starts, the entrypoint runs `run-sql.ts` in the background and
  `run-migrations.ts` in the foreground; a failure of either ends the container,
  which starts again.
* The same operation emits different events in different spec versions (5.0.0,
  6.1.0, 6.3.1, 7.0.0, 7.3.0, ...): the runtime upgrade is a step of many modules.

### What is hard

Module variables with a shorter life than rows; rows written at the first event
of something only; event orders that changed between spec versions; state the
chain changes without an event, or by one without a handler; votes, affirmations
and memberships that are replaced; lists edited in place; concurrent
read-modify-writes of one row; ids that leave out a part of the key; events told
apart by their amounts; pages of rows in no definite order; files applied in the
order of their names; files applied again. `PROJECT.json` lists each at its line
under "hazards".

## Modules

| module | models | checked by |
|---|---|---|
| `IndexLog` | what the indexer promises: the visible tables are the image of a growing prefix of the chain | abstract specification |
| `EventPipeline` | the pipeline with its memory, crash, restart, flush, and events that are thrown on; refines `IndexLog` | `MCEventPipeline` |
| `Migrations` | the start of the container: entrypoint, scripts, files, the node | itself |
| `Store`, `Common`, `Paging` | a table as a function from ids to rows; the list helpers of `utils/common.ts`; its paged queries | |
| `Settlement` | the settlement pallet, a block of its events, all handlers of `mapSettlement.ts` | `MCSettlement` |
| `AssetLedger` | one fungible asset on both sides of the 7.x upgrade | itself |
| `Identities` | DIDs, keys, permissions, authorizations | itself |
| `Genesis` | the concurrent import, with its queries, lookups, writes and failures | `MCRegisters` |
| `MultiSigProposals` | proposals, votes, upgrades, failing queries and restarts | `MCRegisters` |
| `PolyxLedger` | the movements of one extrinsic and the rows their events are merged into | `MCRegisters` |
| `Tickers` | reservations, the asset's ticker, and the replay of file 11, which reads the events of a block in any order | `MCRegisters` |
| `TransferRules` | managers, statistics, conditions, exemptions of one asset, and another asset whose exemptions have the same ids | `MCRegisters` |
| `Compliance` | requirements and trusted issuers of one asset, with paged queries | `MCRegisters` |
| `Offerings` | offerings and investments across four eras of the chain | `MCRegisters` |
| `Distributions` | distributions, claims and reclaims | `MCRegisters` |
| `Venues`, `Portfolios`, `MultiSigSigners`, `Pips`, `Claims`, `Agents`, `NftLedger`, `ConfidentialTransactions`, `ConfidentialAssets` | a few tables each | `MCRegisters` |
| `MCRegisters` | the registers side by side, one moving at a time | itself |
| `EventPipelineProofs`, `IdentitiesProofs`, `SettlementProofs`, `AssetLedgerProofs`, `MigrationsProofs` | proofs about the module of that name | the prover |
| `AccountRegistersProofs`, `AssetRegistersProofs` | proofs about the registers | the prover |
| `FoldProofs` | lemmas on sums and lists | the prover |

Actions carry the name of the handler they model. In the register modules one
step is one event with its handler; in `AssetLedger` and `PolyxLedger` one step is
one operation of the chain with all its events. `Settlement` produces a block
first and then handles it event by event, since there the order inside the block
matters. In `Genesis` a step is what one branch does between two awaits, or the
landing of one write.

A definition `X_Y` marked "Mutant" stands before the definition `X` it is a
plausible wrong version of. No specification uses it; `PROJECT.json` pairs it
with the property that must catch it.

### Modelling decisions

* **The engine.** A handler is atomic with respect to other handlers: the engine
  awaits it. Rows and height become durable together, between two blocks
  (`Flush`). The process may die at any step (`Crash`), also between two
  handlers of one block.
* **Handlers that throw.** `EventPipeline` has events on which a handler always
  throws: the process stops there, at every restart. `Offerings` and
  `Distributions` say when a handler of theirs does (`stopped`). Elsewhere a row
  the handler needs is a guard; that it is there when it matters is a property of
  its own in `Settlement` (`InstructionKnown`) and `Identities`
  (`DefaultPortfolioKnown`), and in the other modules follows from the invariants
  that keep the rows in step with the chain.
* **Concurrency inside a handler.** Where a handler starts several
  read-modify-writes of one row, every outcome is allowed: `Rescanned` of
  `Settlement`, `handleGroupChanged` of `Agents`, and all of `Genesis`. A removal
  and a creation under one `Promise.all` are handed to the engine's store in the
  order of the program, and take effect in it (`Replaced` of `Compliance`,
  `handleSetTransferCompliance`); two conditions saved under one id may come in
  either order.
* **Queries.** `getPaginatedData` orders pages by the field it filters on, which is
  the same in all rows: what comes beyond the first page may repeat a row and miss
  another. `Paging` says what such a query may find, `PageSize` stands for the 100 of
  the code, and every module whose handlers page uses it: `Compliance`,
  `MultiSigProposals` (the active proposals an upgrade looks at), `Agents` (the
  members of a group; the memberships of an identity in all assets, of which the
  other assets only count), `TransferRules` (conditions, old exemptions) and
  `PolyxLedger`, where `.find` may return any row found that fits (`Lookups`).
* **Rows** keep the columns that some handler reads or some property is about.
  Block references, dates, memos and texts are left out.
* **Spec versions.** `Settlement` has four eras between which the code
  distinguishes, `Offerings` four; `MultiSigProposals` counts the spec version in
  millions (the initial `oldSpecVersion`, 3000 in the code, is below every real
  one, hence 0); `TransferRules` has a public chain before 5.0.0, one since, and a
  private chain, whose versions are below 5000000 although it has the newer
  pallets; elsewhere a Boolean tells on which side of an upgrade the chain is. The
  upgrade to 5.0.0, at which the pallet rewrites its restrictions without an event,
  is no step.
* **Files.** `Migrations` has all eleven files by number and order, and of the data
  the one instruction file 3 may rewrite; `Tickers` has the data of file 11, its rows
  with an empty block range included, which it takes for open ones. A batch of files
  is one query and so applies whole or not at all.
* `HasLink` of `EventPipeline` keeps the code's reading of extrinsic index 0 as "no
  extrinsic" (`entities/common.ts:48`).
* `version` of `EventPipeline` may change at a restart: a deployment.
  `workers`, `revived` of `Settlement`, `missed` of `MultiSigProposals`, `crowded` and
  `untold` of `Agents`, `shared`, `misread`, `changed` and `tied` are history
  variables: no handler reads them, and they mark where the code cannot keep its
  promise.
* `Million` of `Distributions` stands for the 1000000 that tax rates are parts of.
* `ConfidentialAssets` may start after some accounts exist (the chain adds no
  event for them), but no account is frozen before the first indexed block.
* Deadlock checking is off in every run: each model stops where its bounds stop
  the chain, and an indexer that has caught up with the chain waits.

## Runs

| run | instance | what it shows |
|---|---|---|
| `event_pipeline` | 3 blocks of 4 layouts, one with an event that is thrown on, 2 crashes, 2 versions, fairness | type; `RowsMatchChain`: the rows are at every event the image of the events handled; `LinksResolve`; `VersionRecorded`; `RefinesLog`; `EventuallyIndexed` |
| `settlement` | seven setups: all four eras, public and private chains, two instructions, off-chain legs, a mediator, accounts, blocks of up to four operations | statuses, mediators and receipts mirror the chain, and so do single holdings, but for withdrawn ones a handler brought back; parties exist and list their portfolios; one rejection; handlers find their instruction |
| `settlement_withdrawn` | a party with two portfolios | **violation** of `AffirmationsMirrorChain` |
| `settlement_legs` | a party with a portfolio in one leg and an off-chain side in a later one | **violation** of `PartyListsPortfolios` |
| `asset_ledger` | 2 identities, 2 portfolios, 1 account, supply 3, 2 fundings, the upgrade anywhere | supply, holders and books agree with each other and with the chain |
| `asset_ledger_funding` | same | **violation** of `FundingTotals` |
| `identities` | 2 DIDs, 3 keys, 2 permissions, 1 authorization | keys, permissions, default portfolios, children, authorizations mirror the chain |
| `registers` | seventeen registers, each alone | one invariant for each |
| `claims_issuers` | 1 target, 2 issuers | **violation** of `ClaimsMirrorChain` |
| `migrations` | an empty database or one of releases 5 to 11, 3 crashes or failed queries, fairness | `NothingSkipped`; `ComesUp` |
| `migrations_upgrade` | a database of release 1 to 4, no faults | **violation** of `ComesUp` |
| `migrations_restart` | an empty database, 1 crash | **violation** of `StatusSurvives` |

The invariants of `registers`, by register:

| register | invariant | says |
|---|---|---|
| venues | `VenueSignersSound` | no signer is shown that the venue does not have |
| portfolios | `PortfoliosMirrorChain` | every portfolio has an up-to-date row; rows without a portfolio are empty ones a leg made up, from 7.0.0 on |
| multisig accounts | `SignersMirrorChain` | signers, admins and the number of signatures |
| multisig proposals | `ProposalsMirrorChain` | counts, votes and statuses across upgrades 6 -> 7 -> 8, restarts, failing and paged queries |
| governance | `WeightsMatchVotes` | totals are the weights of the standing votes |
| claims | `SoleClaimsMirrorChain` | claims of targets and kinds with one issuer |
| agents | `AgentsSound` | no false member but after a crowded page; the history tells the permissions |
| NFTs | `NftsMirrorChain` | lists of ids and the supply |
| confidential transactions | `PendingExplained` | what is pending is what the chain waits for; the rows are the affirmations given |
| confidential assets | `ConfidentialMirrorsChain` | balances, venues, frozen accounts |
| tickers | `TickersMirrorChain` | owner and asset, before and after the backfill |
| POLYX | `MovesTold` | no movement of an extrinsic is lost, with its payer and amount, none is told twice |
| transfer restrictions | `RulesMirrorChain` | managers, statistics, conditions, exemptions |
| offerings | `OfferingsMirrorChain` | status, end and what is left; where the indexer may stop |
| compliance | `ComplianceMirrorsChain` | requirements, trusted issuers, pause |
| distributions | `DistributionsAddUp` | taxes, payments and what is left |
| genesis | `GenesisImported` | complete unless an error was logged; a row tells a fact of the genesis state, or one of two known blanks |

### What the violations say

1. *Withdrawn affirmations.* `removeIfIncludes` (`utils/common.ts:215`) calls
   `splice(index)`, which removes everything from the index on. Two portfolios of a
   party stand affirmed, automatically at the creation; withdrawing the first
   empties the row.
2. *Legs.* A side of a leg without a portfolio resets the portfolios its party
   has from earlier legs (`mapSettlement.ts:273`).
3. *Fundings.* From 7.x on the total of a funding round is stored as the amount
   of the issuance (`mapAsset.ts:561`).
4. *Claims.* The id of a claim leaves its issuer out (`mapClaim.ts:51`): the claim of
   a second issuer overwrites that of the first.
5. *Upgrades.* The files of a batch are applied in the order of their names, file
   11 before file 5 whose column it selects by (`db/schemaMigrations.ts:53`): a
   database from before file 5 never comes up.
6. *Second start.* A fresh database records no migration, so the second start
   applies every file to rows this release wrote; file 3 then sets an instruction
   that failed and was executed later back to `Failed`.

### Further deviations that the models reproduce

These are not among the runs of `PROJECT.json`. Five have a configuration that TLC
finds violated; the others are reproduced by changing one constant of a
configuration, or by checking a module alone, with the one invariant named:

| configuration | change | invariant that fails | why |
|---|---|---|---|
| `SettlementRescan.cfg` with `MCSettlement` | | `AffirmationsMirrorChain` | the creation of an instruction stores the automatic affirmations of its whole block again (`mapSettlement.ts:304`). The comment (`:299`) means it for the versions that deposit them before the creation; the condition holds on every public chain. An affirmation withdrawn earlier in the block comes back when another instruction is created in it |
| `SettlementUnauthorized.cfg` with `MCSettlement` | | `AffirmationsMirrorChain` | on the oldest chain the withdrawal of an affirmation, `InstructionUnauthorized`, is handled as an affirmation (`project.ts:273`) |
| `PortfolioLegs.cfg` with `Portfolios` | | `LegsResolve` | two comments (`mapSettlement.ts:57`, `mapPortfolio.ts:53`) say that portfolios are made up for chains before 7.0.0, which did not check them; the code does it from 7.0.0 on (`mapSettlement.ts:59`), so an older leg may name a portfolio without a row |
| `GenesisAccounts.cfg` with `Genesis` | | `EveryDidHasAccount` | the import of the genesis state writes no account and no permissions for the systematic issuers, against its comment (`genesisHandler.ts:48`) |
| `TickerUnlinkings.cfg` with `Tickers` | | `UnlinkingsReplayed` | file 11 takes any row opened without an asset in the block of an unlinking for the trace of that unlinking (line 124): a ticker unlinked and transferred in one block, and transferred again, keeps its asset |
| `EventPipeline.cfg` | `StartupMayFail = TRUE` | `VersionRecorded` | `mappingHandlers.ts:35` logs an error of the version insert and goes on, so the version is unrecorded until the next restart |
| `Settlement.cfg` | `Setups <- ConcurrentSetups` | `AffirmationsMirrorChain` | two automatic affirmations of one party, read before either is written |
| `Settlement.cfg` | `Setups <- AccountsSetups` | `AffirmationsMirrorChain` | two accounts of one identity collapse into one entry |
| `AssetLedger.cfg` | `OldAgents = TRUE` | `BooksMatchHoldings` | an old issuance by an agent is booked to the owner |
| `Venues` alone | | `SignersComplete` | `splice`, as above |
| `Agents` alone | | `MembershipComplete` | the old membership is looked up and removed while the new one is added |
| `ConfidentialTransactions` alone, two legs between the same identities | | `EveryAffirmationTold` | the id of an affirmation leaves the leg out |

Others are exceptions that an invariant of a passing run makes, so that it is
stated for the part where the code keeps its promise:

| invariant | exception |
|---|---|
| `SingleHoldingsMirrorChain` | parties with more than one holding, see above; an affirmation that was withdrawn and whose row a rescan, or the handler of `InstructionUnauthorized`, wrote again since (`revived`) |
| `VenueSignersSound` | nothing false is shown, something may be missing |
| `AgentsSound` | a membership may be missing; a false one is shown only of an identity whose memberships in all assets filled more than a page when it left, and the history may miss a change of permissions when the members of a group did |
| `SoleClaimsMirrorChain`, `BooksMatchHoldings` | one issuer; `OldAgents = FALSE` |
| `PendingExplained` | an identity with one role in two legs has a row for one of its affirmations in that role, at least |
| `PortfoliosMirrorChain` | before 7.0.0 a leg may name a portfolio without a row |
| `ProposalsMirrorChain` | proposals dropped by an upgrade whose own queries failed, or passed over by its pages, stay `Active` |
| `LinksMirrorChain` | `AuthorizationRetryLimitReached` has no handler (`project.ts:177`): such an authorization stays pending |
| `TickersMirrorChain` | after the backfill: tickers with two transfers, or two events of links, in one block; registered by another after a transfer; unlinked and transferred in one block and transferred again; or that an older release passed over, with several events in a block or a link before any event of the owner |
| `MovesTold` | before 5.4 a transaction fee is told as paid by the primary account of the identity (`mapPolyxTransaction.ts:82`), grossed up from its share; amounts that coincide in one extrinsic; the free balance set together with a reserved one, whose row the second save overwrites (`mapPolyxTransaction.ts:395`); a repeated transfer or fee, or more rows than a page, which may be told twice, and before 5.4.1 a protocol fee that is not a multiple of five: its rounded share of four fifths does not lead back to it |
| `RulesMirrorChain` | custom claim types: their statistics are never removed (`mapStatistics.ts:226`), and they share ids of conditions and exemptions; before 5.0.0 an exemption's id is the entity alone (`:387`), so that a second manager or another asset takes the row; what is removed while the rows fill more than a page may stay; on a private chain an issuance adds a count nobody asked for (`:436`, without the test of `:452`) |
| `OfferingsMirrorChain` | offerings from an account have no row, and an event about one stops the indexer; before 7.3.0 a nested call is read as one about another asset, or, before 7.0.0, stops the indexer, for its argument is no ticker (`utils/assets.ts:96`); a window changed by such a call leaves an end that is stale when the offering is closed |
| `ComplianceMirrorsChain` | a requirement changed by `ComplianceRequirementChanged`, which has no handler (`project.ts:118`); more rows than a page when requirements are replaced or reset |
| `DistributionsAddUp` | distributions from an account have no row, and the first claim of one stops the indexer; `remaining` of a row is what it was at first, never what is left (as in `Sto`) |
| `GenesisImported` | the account of a multisig's creator is empty when it is read before the identity is written; identities looked up that the chain does not have get a row and a portfolio; systematic issuers get no account; admin rows are not awaited |

Seen while modelling and outside of any invariant: the genesis import makes the
creator of a multisig its admin on a 7.x chain only (`genesisHandler.ts:191`), the
live handler on an older one only (`mapMultiSig.ts:141`); `mapSettlement.ts:327` awaits
an array of an array, and so none of the saves it has started, which the engine's
store takes in their order all the same; an offering's creation before 7.3.0 is logged as
an agent's action on the text of a ticker (`utils/stos.ts`).

### Bounds, and why they are enough

* **EventPipeline**: 3 blocks give a block handled, a block in work and a block
  to come; 2 crashes give a crash during the recovery from a crash. The layouts
  have a block nobody selects anything of, an event of the block before any
  extrinsic, two events of one extrinsic, extrinsic 0, an unselected event
  between selected ones, and an event that is thrown on between two that are not.
  The proofs cover all other bounds and layouts.
* **Migrations**: `MaxFaults` bounds crashes and failed queries together; 3 allow a
  batch that fails, the loss of the last number, and a crash. Files 1 to 11 and
  their order are the real ones.
* **Settlement**: `MaxBlock` bounds the events after which a block takes no more
  operations; 1 means one operation per block (a creation may still bring several
  events), 2 and 3 allow that many events of different operations. Two
  instructions are the fewest for an event of one in the block of another.
* **AssetLedger**: two identities, two holdings of each kind per identity, and a
  supply of 3 allow partial transfers within and between them.
* **Identities**: three keys allow a primary key, a secondary key, and one that
  takes over; two DIDs let a key go from one to the other.
* **Registers**: the components share no table, so the run lets one of them move
  and keeps the others still; an interleaving would only multiply the states. The
  sets are the smallest in which two of each kind differ:
  * three signers for a list in which an item has a neighbour on both sides, two
    custom groups and a fixed one, three NFT ids for batches and remainders;
  * two multisig voters can disagree and change sides, two proposals let an
    upgrade drop one and keep the other, three spec versions have an upgrade with
    and one without a new transaction version;
  * `MaxEvents` = 5 ticker events, in blocks of their own or together: a transfer, what
    was before it, what comes after it, a link and an unlinking;
  * `MaxMoves` = 3 movements in an extrinsic, of 5 or 9 (one a multiple of five, one
    not), and a fee of 8 whose share is rounded;
  * a supply up to `MaxIssued` = 2 falls to 1 and to 0;
  * `MaxTime` = 3 has an offering that starts, ends, and is closed before and after;
  * `MaxId` = 3 requirements with `PageSize` = 2 fill more than a page, and so do the
    rows of three movements; `ShortPage` = 1 is the page of the registers with at most
    two rows to find (proposals, members and memberships, conditions and exemptions),
    so that one row fits and two do not;
  * two distributions, two claimers, taxes of none and half of `Million` = 10;
  * two multisigs whose import overlaps with one identity found by a query.

### Fairness

* `EventuallyIndexed`: weak fairness of `Flush`, `BeginBlock`, `HandleEvent`,
  `HandlerThrows`, `SkipEvent`, `FinishBlock` (the engine's loop keeps calling
  handlers and writing blocks while the process runs) and of `Restart`
  (`restart: always`, `docker-compose.yml:27`). Nothing is assumed of `Produce`, and
  `Crash` is not fair; it is bounded by `MaxCrashes`, for a process that crashes
  forever indexes nothing. An event that is thrown on excuses what is not visible
  yet, also of blocks before it: each restart may come to it before the next flush.
* `ComesUp`: weak fairness of `Start` (the same restart policy), of the migration
  script and of `NodeStarts`: each process of the entrypoint goes on. Nothing is
  assumed of the script that applies `compat.sql` beside them. Faults are bounded.

## Proofs

Eight modules hold proofs. What they prove holds for every value of the constants
that the assumptions of the modules admit, so for every bound, and of sets, lists
and amounts of any size.

| module | proves, as `Spec => []...` |
|---|---|
| `EventPipelineProofs` | `TypeOK`, `RowsMatchChain`, `LinksResolve`; `VersionRecorded`, provided `StartupMayFail = FALSE`; and `Spec => RefinesLog`: what readers see implements `IndexLog` |
| `IdentitiesProofs` | `KeysMirrorChain`, `PermissionsMirrorChain`, `DefaultPortfolioKnown`, `LinksMirrorChain` |
| `SettlementProofs` | `StatusMirrorsChain`, `InstructionKnown`, `AffirmationHasParty`, `MediatorsMirrorChain`, `OneRejection`; `PartyListsPortfolios`, provided no leg resets a portfolio |
| `AssetLedgerProofs` | `SupplyIsHeld`, `HoldersMirrorChain`; `BooksMatchHoldings`, provided `~OldAgents` |
| `AccountRegistersProofs` | `PortfoliosMirrorChain`, `SignersMirrorChain`, `SoleClaimsMirrorChain`, `ProposalsMirrorChain`, `GenesisImported`, `WeightsMatchVotes`, `VenueSignersSound`, `PendingExplained`, `MovesTold` |
| `AssetRegistersProofs` | `AgentsSound`, `ComplianceMirrorsChain`, `OfferingsMirrorChain`, `RulesMirrorChain`, `DistributionsAddUp`, `NftsMirrorChain`, `ConfidentialMirrorsChain` |
| `MigrationsProofs` | `NothingSkipped` |
| `FoldProofs` | lemmas only: what the folds and list helpers of the models return |

The theorem about a property `X...` is named `XAlways...` or so; `PROJECT.json` pairs
each with the property. A register is proved in `MCRegisters`, where it is checked:
its own steps keep its invariant, every other register's steps leave its variables
alone.

### Assumptions

* `LayoutsAssumption`: a block is a sequence of events in the order of the extrinsics
  that emit them. The chain guarantees it, and the code relies on it: it compares
  an extrinsic's index with the last one only.
* `SetupAssumption`, `LedgerAssumption`, `IdentitiesAssumption`, `RegistersAssumption`
  say that the sentinels for "no DID", "no key", "no end" are none of the things
  they stand in for, that what is counted or summed (the sides of a leg, the
  voters, targets and issuers, the ids of a collection, identities, portfolios)
  is finite, and that bounds and amounts are natural numbers. Spec versions are those the
  chain had between 6.x and 8.x; a page holds at least one row; a tax rate is a
  part of a million. Nothing is assumed about how many of anything there are.
* `MigrationsAssumption`: a database comes from one of the releases that were shipped.

Three theorems have a hypothesis, and a run or a configuration named above shows
for each that the property fails without it: `StartupMayFail = FALSE`;
`~OldAgents` (an old issuance by an agent is booked to the owner); and
`KeepsPortfolios`, for every list of legs: no side without a portfolio number comes
in the leg of a portfolio of the same party or later (run `settlement_legs`).
`KeepsPortfolios` does not ask for more: legs between portfolios only satisfy it,
and so do off-chain sides that come before.

### Inductive invariants

None of the properties is proved by itself alone; each module states the invariant
it needs, in named parts.

* **EventPipeline**, `RowsInv`. A crash throws the rows back to the durable ones and
  forgets the cursor; a step decides by the cursor which rows to write. So
  `DiskMatches` says that the durable rows are the image of the first `flushed`
  blocks, which makes a restart preserve `RowsMatchChain`; `MemoryMatches`, that the
  cursor's hash is that of the current block exactly when an event of this block
  was handled, and its index then the largest extrinsic index among them, so
  that "the index is larger" is the same as "this extrinsic has no row";
  `LinksHandled`, that an event saved with a link was handled and has an extrinsic.
  The refinement follows: a flush is a `Reveal` of `IndexLog`, every other step but
  `Produce` a stutter. `VersionInv` says that a started process has its version
  among the rows.
* **Identities**, `IInv`: a primary key belongs to the identity it is the key of
  (`PrimaryKeysBelong`), or else the key left behind by a rotation could be another
  identity's; an identity has a row exactly when the chain has it.
* **Settlement**, `IInv`. The pallet is ahead of the handlers by the rest of the
  block, so every part speaks of the events that are `Coming`: the *last* status
  event to come leads to the chain's status, and if none is to come the row has it
  (`StatusTold`); likewise the last affirmation of a mediator (`MediatorsTold`); an
  instruction's row exists or its creation is to come, once, and before whatever
  reads the row (`Opened`); an instruction is complete before it is rejected
  (`Introduced`), since the handler tells by the row whether a mediator rejects.
  Nothing is assumed of how many events a block has. `RejectionTold` says of each
  instruction that its rejection is the last of its events to come and no row shows
  it yet, or that nothing of it is to come and exactly one row does; the rows need
  their type for it, since a rescan must keep the status of those it rewrites.
* **AssetLedger**, `LedgerInv`: supply, holders and owner together, and nothing is held
  before the creation. Each operation moves an amount between two holdings
  (`Shifted`), and a lemma on sums turns this into what happens to the rows.
* **Multisig proposals**, `ProposalInv`: what a process remembers of the versions is
  never ahead of the chain (`KnownVersions`), so that an upgrade with a new
  transaction version is seen as one; nobody has voted on a proposal that does not
  exist, and one whose deletion was missed stays deleted (`ProposalHistory`). Counts
  are cardinalities of the voters of one side, which one vote changes by one.
* **Genesis**, `GenesisInv`: what each branch has *started*, landed or in flight, by the
  place it is at, that nothing is started but facts of the genesis state and the two
  blanks, and what has landed when it is done (`BranchesSound`); a multisig
  is written once, after it was read (`WrittenOnce`). So the order in which writes
  land does not matter.
* **Claims**, `ClaimInv`: said of each claim rather than by counting issuers.
* **Pips, Distributions, NFTs, confidential transactions**: the rows are the sums, lists
  or cardinalities over what the pallet keeps, and lemmas say what one vote, claim,
  batch of ids or affirmation changes.
* **Venues, confidential assets**: the lists have no duplicates and the members the
  chain has (for venues no others: `splice` loses some).
* **Transfer rules**, `RulesInv`: the old and the new kind of rule never exist on one
  chain (`RulesApart`); a row of a condition is one of those that share its id
  (`ConditionsInv`); whom one rule only exempted has one row, whose id names it
  (`ExemptionsInv`), so that a page that is not crowded finds it when it is lifted.
* **Agents**, `AgentInv`: removing the memberships of an identity leaves none of its own
  but the new one, unless they filled more than a page (`MemberRemoved`).
* **Offerings, Compliance, Portfolios, Signers**: the property, with the types
  and the numbering it rests on (portfolios without gaps; finitely many rules; no
  admin before the multisig).
* **POLYX ledger**, `PolyxInv`: a row that a later event may be merged into has the
  amount of an earlier movement of a kind that brings such rows (`Sourced`), so a
  movement of another amount is not merged away; each movement is told by a row
  no transaction fee replaces (`ToldOf`); in a simple extrinsic rows and movements
  are as many.
* **Migrations**, `MigrationsInv`: what is recorded are the files up to a number. The
  files a start applies, a filter over the eleven names in the order of the
  directory, are shown to be exactly those after the last one recorded.

TLC found each of these invariants to hold on the instances of the runs before it
was proved.

### Sums and lists of any length

The models use folds, of sets (sums of holdings, weights, claims) and of sequences
(filters, batches added to a list). `FoldProofs` proves what they return. The
library's induction theorems take an operator as a parameter; `SetInduction` is
induction for a *set* of numbers instead, proved from the well-foundedness of
`Nat`. With it the recursion under a fold is shown to have a solution and only one
(`AddsExists`, `AddsUnique`); a sum does not depend on the order of its addends, so
that an amount put into a sum or taken from it changes it by as much (`SumTake`,
`SumPut`); a fold over a list keeps what each of its steps keeps (`FoldKeeps`), from
which `FilterOutList`, `BatchAdded`, `BatchRemoved`, `ItemRemoved` follow.

### Only model-checked

* Liveness (`EventuallyIndexed`, `ComesUp`): fairness and `ENABLED` are out of the
  prover's reach.
* `SingleHoldingsMirrorChain`: what a rescan finds depends on the whole block, the part
  already handled included, which no other invariant of `Settlement` speaks of.
* `TickersMirrorChain`: the replay goes through all orders of the events of a block and
  through sets of tables; the instance has every log of five events.
* The negative results: what a run shows violated.

## Plan

Done: the pipeline, settlement, the asset ledger, identities, migrations and
seventeen registers, modelled and checked; their safety
invariants proved but for the two named above, three with a hypothesis.

A theorem worth proving next: `SingleHoldingsMirrorChain`, from an invariant that says
of a block in work which affirmations its creations, those handled and those to come,
find.

Models worth adding: one that joins a block's settlement events with the asset
ledger, for the instruction an old transfer is booked under (`mapAsset.ts:464`);
the logs of confidential assets with their ids.

## Not modelled

* Texts, dates, memos, serialized arguments, and every column no handler reads.
* Tables that only grow by one row per event and that no handler reads: Leg,
  InstructionEvent, agent actions but for the lookup that may throw, staking and
  bridge events, the history logs of confidential assets.
* The instruction an `AssetTransaction` refers to.
* Decoding of event arguments across spec versions, except where it decides
  control (instruction, multisig, asset, offering and transfer rule events).
  `serializeLikeHarvester.ts` and `chainTypes` are conversions without state.
* The data changes of migration files other than 3 and 11. Files 1, 2 and 5 rewrite
  rows: the calls of multisig proposals, the ids of receipts, and the text columns
  that file 5 adds. The others add columns and enum values.
* The engine's own fetching, forks (blocks are final), the GraphQL service, and
  the scripts a developer runs by hand.

## Running

    tlc -workers 2 -config EventPipeline.cfg MCEventPipeline
    tlapm SettlementProofs.tla

The configurations and their modules are listed under "runs" in `PROJECT.json`.
