----------------------------- MODULE NftLedger -----------------------------
(***************************************************************************)
(* The ledger of one NFT collection: its supply and the ids each identity  *)
(* holds (src/mappings/entities/assets/mapNfts.ts).  Each step is one      *)
(* operation of the chain with its NFTPortfolioUpdated event.              *)
(***************************************************************************)
EXTENDS Store, Common, FiniteSets

CONSTANTS
  Did, NoDid,   \* NoDid is not a DID
  Nft           \* the ids of the collection

VARIABLES
  cOwner,       \* the chain: who holds each id
  supply,       \* the totalSupply of the Asset row
  holder        \* NftHolder rows: the list of ids, by identity

vars == <<cOwner, supply, holder>>

Init == cOwner = [n \in Nft |-> NoDid] /\ supply = 0 /\ holder = NoTable

\* The lists an event can bring: distinct ids, in any order.
Batches == {s \in UNION {TupleOf(Nft, k) : k \in 1..Cardinality(Nft)} : IsInjective(s)}
HeldBy(ids, d) == \A n \in ToSet(ids) : cOwner[n] = d
Give(ids, d) == cOwner' = [n \in Nft |-> IF n \in ToSet(ids) THEN d ELSE cOwner[n]]

\* getNftHolder: the row, created with no ids when there is none.
Ids(d) == IF Has(holder, d) THEN holder[d] ELSE << >>
\* Mutant: what is given away stays.
Without_Kept(list, ids) == list
Without(list, ids) == FilterOut(list, ToSet(ids))

Issued(d, ids) ==
  /\ HeldBy(ids, NoDid)
  /\ Give(ids, d)
  /\ supply' = supply + Len(ids)
  /\ holder' = Save(holder, d, Ids(d) \o ids)

Redeemed(d, ids) ==
  /\ HeldBy(ids, d)
  /\ Give(ids, NoDid)
  /\ supply' = supply - Len(ids)
  /\ holder' = Save(holder, d, Without(Ids(d), ids))

\* transferred and controllerTransfer: both rows are read, then both written.
Transferred(from, to, ids) ==
  /\ from # to /\ HeldBy(ids, from)
  /\ Give(ids, to)
  /\ holder' = Save(Save(holder, from, Without(Ids(from), ids)), to, Ids(to) \o ids)
  /\ UNCHANGED supply

Next ==
  \E d \in Did, ids \in Batches :
    \/ Issued(d, ids) \/ Redeemed(d, ids)
    \/ \E to \in Did : Transferred(d, to, ids)

Spec == Init /\ [][Next]_vars

-----------------------------------------------------------------------------
\* Through any sequence of batches, an identity's list has the ids it holds
\* and each once, and the supply is the number of ids held by anyone.
NftsMirrorChain ==
  /\ \A d \in Did : /\ ToSet(Ids(d)) = {n \in Nft : cOwner[n] = d}
                    /\ IsInjective(Ids(d))
  /\ supply = Cardinality({n \in Nft : cOwner[n] # NoDid})
=============================================================================
