------------------------- MODULE ConfidentialAssets -------------------------
(***************************************************************************)
(* Confidential assets, their holders, and the accounts frozen for them    *)
(* (src/mappings/entities/confidentialAssets/mapConfidentialAsset.ts,      *)
(* mapConfidentialAccountCreated.ts, mapConfidentialAssetTransaction.ts).  *)
(* Each step is one event of the pallet with its handler.  The indexer may *)
(* start at a block after some accounts were created.                      *)
(***************************************************************************)
EXTENDS Store, Common, FiniteSets

CONSTANTS
  Asset, Account,
  Venue,        \* venue numbers
  MaxSupply     \* bound on the supply of an asset

VARIABLES
  cAsset,       \* the pallet: [totalSupply, venueFiltering, allowed, isFrozen]
  cAccount,     \* the pallet: the accounts
  cFrozen,      \* the pallet: the assets an account is frozen for
  cBalance,     \* the pallet: the balance of an account, by <<asset, account>>
  asset,        \* ConfidentialAsset rows, with the allowed venues as a list
  account,      \* ConfidentialAccount rows: the list frozenForAsset
  holder        \* ConfidentialAssetHolder rows: the balance

vars == <<cAsset, cAccount, cFrozen, cBalance, asset, account, holder>>

Init ==
  /\ cAsset = NoTable
  /\ cAccount \in SUBSET Account
  /\ cFrozen = [a \in Account |-> {}]
  /\ cBalance = NoTable
  /\ asset = NoTable /\ account = NoTable /\ holder = NoTable

handleConfidentialAccountCreated(a) ==
  /\ a \notin cAccount
  /\ cAccount' = cAccount \union {a}
  /\ account' = Save(account, a, << >>)
  /\ UNCHANGED <<cAsset, cFrozen, cBalance, asset, holder>>

\* An account without a row gets one.
handleConfidentialAssetFrozenForAccount(a, s) ==
  /\ a \in cAccount /\ Has(cAsset, s) /\ s \notin cFrozen[a]
  /\ cFrozen' = [cFrozen EXCEPT ![a] = @ \union {s}]
  /\ account' = Save(account, a, IF Has(account, a) THEN AddIfNotIncludes(account[a], s)
                                                    ELSE <<s>>)
  /\ UNCHANGED <<cAsset, cAccount, cBalance, asset, holder>>

handleConfidentialAssetUnfrozenForAccount(a, s) ==
  /\ a \in cAccount /\ s \in cFrozen[a]
  /\ cFrozen' = [cFrozen EXCEPT ![a] = @ \ {s}]
  /\ account' = Save(account, a, IF Has(account, a) THEN FilterOut(account[a], {s})
                                                    ELSE << >>)
  /\ UNCHANGED <<cAsset, cAccount, cBalance, asset, holder>>

handleConfidentialAssetCreated(s) ==
  /\ ~Has(cAsset, s)
  /\ cAsset' = Save(cAsset, s, [totalSupply |-> 0, venueFiltering |-> FALSE,
                                allowed |-> {}, isFrozen |-> FALSE])
  /\ asset' = Save(asset, s, [totalSupply |-> 0, venueFiltering |-> FALSE,
                              allowed |-> << >>, isFrozen |-> FALSE])
  /\ UNCHANGED <<cAccount, cFrozen, cBalance, account, holder>>

\* The handlers of an asset pass over an asset without a row.
Update(s, change(_)) ==
  /\ asset' = IF Has(asset, s) THEN [asset EXCEPT ![s] = change(@)] ELSE asset
  /\ UNCHANGED <<cAccount, cFrozen, account>>

\* handleConfidentialDepositOrWithdraw: the event carries the new balance.
HolderSaved(s, a, balance) == holder' = Save(holder, <<s, a>>, balance)
Balance(s, a) == IF Has(cBalance, <<s, a>>) THEN cBalance[<<s, a>>] ELSE 0

\* Issuing, or burning, is a deposit into, or a withdrawal from, an account and
\* handleConfidentialAssetIssuedOrBurned.
IssueOrBurn(s, a, n) ==
  LET supply == cAsset[s].totalSupply + n
  IN /\ Has(cAsset, s) /\ a \in cAccount
     /\ supply <= MaxSupply /\ Balance(s, a) + n >= 0
     /\ cAsset' = [cAsset EXCEPT ![s].totalSupply = supply]
     /\ cBalance' = Save(cBalance, <<s, a>>, Balance(s, a) + n)
     /\ HolderSaved(s, a, Balance(s, a) + n)
     /\ Update(s, LAMBDA row : [row EXCEPT !.totalSupply = supply])

\* A transaction takes from its sender at once and gives to its receiver when
\* the receiver asks for it: each is an event of its own.
Withdraw(s, a, n) ==
  /\ Balance(s, a) >= n
  /\ cBalance' = Save(cBalance, <<s, a>>, Balance(s, a) - n)
  /\ HolderSaved(s, a, Balance(s, a) - n)
  /\ UNCHANGED <<cAsset, cAccount, cFrozen, asset, account>>

Outstanding(s) ==
  cAsset[s].totalSupply
    - FoldSet(LAMBDA a, sum : sum + Balance(s, a), 0, Account)

Deposit(s, a, n) ==
  /\ Has(cAsset, s) /\ a \in cAccount /\ Outstanding(s) >= n
  /\ cBalance' = Save(cBalance, <<s, a>>, Balance(s, a) + n)
  /\ HolderSaved(s, a, Balance(s, a) + n)
  /\ UNCHANGED <<cAsset, cAccount, cFrozen, asset, account>>

\* Mutant: the new list replaces the old.
Allow_Replaced(list, venues) == venues

\* The new venues and the old, without duplicates.
Allow(list, venues) == venues \o FilterOut(list, ToSet(venues))

handleVenuesAllowed(s, venues) ==
  /\ Has(cAsset, s)
  /\ cAsset' = [cAsset EXCEPT ![s].allowed = @ \union ToSet(venues)]
  /\ Update(s, LAMBDA row : [row EXCEPT !.allowed = Allow(@, venues)])
  /\ UNCHANGED <<cBalance, holder>>

handleVenuesBlocked(s, venues) ==
  /\ Has(cAsset, s)
  /\ cAsset' = [cAsset EXCEPT ![s].allowed = @ \ ToSet(venues)]
  /\ Update(s, LAMBDA row : [row EXCEPT !.allowed = FilterOut(@, ToSet(venues))])
  /\ UNCHANGED <<cBalance, holder>>

handleVenueFiltering(s, enabled) ==
  /\ Has(cAsset, s)
  /\ cAsset' = [cAsset EXCEPT ![s].venueFiltering = enabled]
  /\ Update(s, LAMBDA row : [row EXCEPT !.venueFiltering = enabled])
  /\ UNCHANGED <<cBalance, holder>>

handleAssetFrozenUnfrozen(s, frozen) ==
  /\ Has(cAsset, s) /\ cAsset[s].isFrozen # frozen
  /\ cAsset' = [cAsset EXCEPT ![s].isFrozen = frozen]
  /\ Update(s, LAMBDA row : [row EXCEPT !.isFrozen = frozen])
  /\ UNCHANGED <<cBalance, holder>>

Batches == {v \in TupleOf(Venue, 1) \union TupleOf(Venue, 2) : IsInjective(v)}

Next ==
  \/ \E a \in Account : handleConfidentialAccountCreated(a)
  \/ \E s \in Asset, a \in Account :
       \/ handleConfidentialAssetFrozenForAccount(a, s)
       \/ handleConfidentialAssetUnfrozenForAccount(a, s)
       \/ \E n \in (-MaxSupply)..MaxSupply \ {0} : IssueOrBurn(s, a, n)
       \/ \E n \in 1..MaxSupply : Withdraw(s, a, n) \/ Deposit(s, a, n)
  \/ \E s \in Asset :
       \/ handleConfidentialAssetCreated(s)
       \/ \E venues \in Batches : handleVenuesAllowed(s, venues)
                                  \/ handleVenuesBlocked(s, venues)
       \/ \E on \in BOOLEAN : handleVenueFiltering(s, on)
                              \/ handleAssetFrozenUnfrozen(s, on)

Spec == Init /\ [][Next]_vars

-----------------------------------------------------------------------------
\* Whatever the indexer missed before its first block, what it shows is the
\* chain's: the columns of each asset, its allowed venues each once, the
\* balance of each holder, and the accounts frozen for an asset.
ConfidentialMirrorsChain ==
  /\ DOMAIN asset = DOMAIN cAsset
  /\ \A s \in DOMAIN asset :
       /\ IsInjective(asset[s].allowed)
       /\ [asset[s] EXCEPT !.allowed = ToSet(@)] = cAsset[s]
  /\ holder = cBalance
  /\ \A a \in Account :
       LET frozen == IF Has(account, a) THEN account[a] ELSE << >>
       IN ToSet(frozen) = cFrozen[a] /\ IsInjective(frozen)
=============================================================================
