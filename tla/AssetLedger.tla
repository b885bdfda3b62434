---------------------------- MODULE AssetLedger ----------------------------
(***************************************************************************)
(* The ledger of one fungible asset: its supply, its holders, its fundings *)
(* and the books that explain them, the AssetTransaction and               *)
(* PortfolioMovement rows (src/mappings/entities/assets/mapAsset.ts,       *)
(* identities/mapPortfolio.ts).  Each step is one operation of the chain   *)
(* with the handlers of its events, in their order.                        *)
(*                                                                         *)
(* A holding is a portfolio or an account of an identity.  Holders are     *)
(* kept per identity, the books per holding.                               *)
(***************************************************************************)
EXTENDS Store, FiniteSets, Functions, Sequences

CONSTANTS
  Did, NoDid,
  Portfolio,    \* portfolio numbers; 0 is the default portfolio
  Account,      \* the accounts an identity may hold assets in, from 7.x on
  OldAgents,    \* whether an agent other than the owner issues before 7.x
  MaxSupply,    \* bound on the chain's supply
  MaxFundings   \* bound on the issuances in the funding round

ASSUME LedgerAssumption ==
  /\ NoDid \notin Did /\ 0 \in Portfolio
  /\ IsFiniteSet(Did) /\ IsFiniteSet(Portfolio) /\ IsFiniteSet(Account)
  /\ OldAgents \in BOOLEAN
  /\ MaxSupply \in Nat /\ MaxFundings \in Nat

Holding == Did \X (Portfolio \union Account)
Nowhere == <<NoDid, 0>>    \* the empty DID of an old event, the None of a new

VARIABLES
  cOld,         \* the chain: whether it deposits Issued, Redeemed and Transfer,
                \* or else AssetBalanceUpdated
  cHeld,        \* the chain: what each holding has
  cOwner,       \* the chain: the owner, NoDid before the creation
  cRaised,      \* the chain: what was issued in the funding round
  asset,        \* Asset row: [ownerId, totalSupply], owned by NoDid when absent
  holder,       \* AssetHolder rows: the amounts, by identity
  booked,       \* what the transaction and movement rows book into a holding
  funding       \* Funding rows of the round: [amount, totalFundingAmount]

chain == <<cOld, cHeld, cOwner, cRaised>>
vars == <<chain, asset, holder, booked, funding>>

Init ==
  /\ cOld = TRUE
  /\ cHeld = [h \in Holding |-> 0] /\ cOwner = NoDid /\ cRaised = 0
  /\ asset = [ownerId |-> NoDid, totalSupply |-> 0] /\ holder = NoTable
  /\ booked = [h \in Holding |-> 0] /\ funding = << >>

\* n units out of one holding, or of nowhere, into another.
Moved(f, from, to, n) ==
  [h \in DOMAIN f |-> f[h] - (IF h = from THEN n ELSE 0) + (IF h = to THEN n ELSE 0)]

-----------------------------------------------------------------------------
(* The handlers, as what they leave in the tables.                         *)

\* getAssetHolder: the row, created with nothing when there is none.
Amount(table, did) == IF Has(table, did) THEN table[did] ELSE 0
Credit(table, did, n) == Save(table, did, Amount(table, did) + n)

\* createFunding, when the issuance names a funding round.
Fund(named, n, total) ==
  funding' = IF named THEN Append(funding, [amount |-> n, totalFundingAmount |-> total])
                      ELSE funding

\* The holder is the beneficiary of the event; the transaction row names the
\* default portfolio of the asset's owner.
handleIssued(did, n, named, total) ==
  /\ asset' = [asset EXCEPT !.totalSupply = @ + n]
  /\ holder' = Credit(holder, did, n)
  /\ booked' = Moved(booked, Nowhere, <<asset.ownerId, 0>>, n)
  /\ Fund(named, n, total)

\* Mutant: the supply stays.
handleRedeemed_Supply(did, n) ==
  /\ holder' = Credit(holder, did, -n)
  /\ UNCHANGED asset

handleRedeemed(did, n) ==
  /\ asset' = [asset EXCEPT !.totalSupply = @ - n]
  /\ holder' = Credit(holder, did, -n)

\* Mutant: the receiver is not credited.
handleAssetTransfer_Debit(from, to, n) ==
  /\ booked' = Moved(booked, from, to, n)
  /\ to # Nowhere => holder' = Credit(holder, from[1], -n)

\* Mutant: the transaction row swaps the two sides.
handleAssetTransfer_Swapped(from, to, n) ==
  /\ booked' = Moved(booked, to, from, n)
  /\ to # Nowhere =>
       holder' = Save(Credit(holder, from[1], -n), to[1], Amount(holder, to[1]) + n)

\* Between portfolios both holders are read before either is written.  To
\* nowhere is a redemption: a transaction row, and no holder changes.
handleAssetTransfer(from, to, n) ==
  /\ booked' = Moved(booked, from, to, n)
  /\ to # Nowhere =>
       holder' = Save(Credit(holder, from[1], -n), to[1], Amount(holder, to[1]) + n)

\* One holder after the other, then the supply by the reason of the update; a
\* funding row takes the amount issued for the total of the round.
handleAssetBalanceUpdated(from, to, n, reason, named) ==
  LET debited == IF from = Nowhere THEN holder ELSE Credit(holder, from[1], -n)
  IN /\ holder' = IF to = Nowhere THEN debited ELSE Credit(debited, to[1], n)
     /\ booked' = Moved(booked, from, to, n)
     /\ Fund(reason = "issued" /\ named, n, n)
     /\ asset' = [asset EXCEPT !.totalSupply =
                    @ + (CASE reason = "issued" -> n
                           [] reason = "redeemed" -> -n
                           [] OTHER -> 0)]

-----------------------------------------------------------------------------
(* The operations of the chain.                                            *)

Exists == cOwner # NoDid
Holdings == IF cOld THEN Did \X Portfolio ELSE Holding

\* The runtime upgrade to 7.x.
Upgrade ==
  /\ cOld
  /\ cOld' = FALSE
  /\ UNCHANGED <<cHeld, cOwner, cRaised, asset, holder, booked, funding>>

\* handleAssetCreated
Create(owner) ==
  /\ ~Exists
  /\ cOwner' = owner
  /\ asset' = [ownerId |-> owner, totalSupply |-> 0]
  /\ UNCHANGED <<cOld, cHeld, cRaised, holder, booked, funding>>

\* handleAssetOwnershipTransferred
TransferOwnership(owner) ==
  /\ Exists
  /\ cOwner' = owner
  /\ asset' = [asset EXCEPT !.ownerId = owner]
  /\ UNCHANGED <<cOld, cHeld, cRaised, holder, booked, funding>>

\* The old chain deposits a Transfer out of the empty DID, which is ignored,
\* and then Issued.  It issues into the default portfolio of the issuer.
Issue(to, n, named) ==
  /\ Exists /\ SumFunction(cHeld) + n <= MaxSupply
  /\ cOld => to[2] = 0 /\ (OldAgents \/ to[1] = cOwner)
  /\ named => Len(funding) < MaxFundings
  /\ cHeld' = Moved(cHeld, Nowhere, to, n)
  /\ cRaised' = IF named THEN cRaised + n ELSE cRaised
  /\ UNCHANGED <<cOld, cOwner>>
  /\ IF cOld THEN handleIssued(to[1], n, named, cRaised')
             ELSE handleAssetBalanceUpdated(Nowhere, to, n, "issued", named)

\* The old chain deposits a Transfer into the empty DID, then Redeemed.
Redeem(from, n) ==
  /\ cHeld[from] >= n
  /\ cHeld' = Moved(cHeld, from, Nowhere, n)
  /\ UNCHANGED <<cOld, cOwner, cRaised>>
  /\ IF cOld THEN /\ handleAssetTransfer(from, Nowhere, n)
                  /\ handleRedeemed(from[1], n)
                  /\ UNCHANGED funding
             ELSE handleAssetBalanceUpdated(from, Nowhere, n, "redeemed", FALSE)

\* "transfers between identities are known as `Settlements`"
Transfer(from, to, n, reason) ==
  /\ cHeld[from] >= n /\ from[1] # to[1]
  /\ cHeld' = Moved(cHeld, from, to, n)
  /\ UNCHANGED <<cOld, cOwner, cRaised>>
  /\ IF cOld THEN handleAssetTransfer(from, to, n) /\ UNCHANGED <<asset, funding>>
             ELSE handleAssetBalanceUpdated(from, to, n, reason, FALSE)

\* handlePortfolioMovement and handleFundsMovedBetweenPortfolios: the rows of
\* the movement, between holdings of one identity.
Move(from, to, n) ==
  /\ cHeld[from] >= n /\ from[1] = to[1] /\ from # to
  /\ cHeld' = Moved(cHeld, from, to, n)
  /\ booked' = Moved(booked, from, to, n)
  /\ UNCHANGED <<cOld, cOwner, cRaised, asset, holder, funding>>

Next ==
  \/ Upgrade
  \/ \E owner \in Did : Create(owner) \/ TransferOwnership(owner)
  \/ \E h \in Holdings, n \in 1..MaxSupply :
       \/ \E named \in BOOLEAN : Issue(h, n, named)
       \/ Redeem(h, n)
       \/ \E to \in Holdings :
            \/ \E reason \in {"transferred", "controllerTransfer"} :
                 Transfer(h, to, n, reason)
            \/ Move(h, to, n)

Spec == Init /\ [][Next]_vars

-----------------------------------------------------------------------------
(* Properties.                                                             *)

\* Two tables, updated by different handlers: the supply of the asset is what
\* its holders hold.
SupplyIsHeld == asset.totalSupply = SumFunction(holder)

\* "Represents how much of a given Asset an Identity owns": in all its
\* portfolios and accounts together.
HoldersMirrorChain ==
  \A did \in Did :
    Amount(holder, did) = SumFunctionOnSet(cHeld, {h \in Holding : h[1] = did})

\* The transactions and the movements of a holding add up to what it has: the
\* history explains the balances, portfolio by portfolio.
BooksMatchHoldings == booked = cHeld

\* A funding's total is the total of its round so far.
FundingTotals ==
  \A i \in DOMAIN funding :
    funding[i].totalFundingAmount
      = SumFunctionOnSet([j \in DOMAIN funding |-> funding[j].amount], 1..i)
=============================================================================
