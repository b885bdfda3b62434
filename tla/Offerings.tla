------------------------------ MODULE Offerings ------------------------------
(***************************************************************************)
(* The offerings of one asset and the investments in them                  *)
(* (src/mappings/entities/stos/mapSto.ts).  Until 7.3.0 the events of an   *)
(* offering do not bring its asset: the first argument of the extrinsic is *)
(* taken for it, here and for the row of the agent's action                *)
(* (externalAgents/mapExternalAgentAction.ts), which the handler of every  *)
(* event writes first.  In a nested call that argument is another thing:   *)
(* before 7.0.0 it has to be a ticker in hex and the handler throws, from  *)
(* then on it is the id of no asset.  Each step is one event with its      *)
(* handlers; one that throws leaves the indexer where it is.               *)
(***************************************************************************)
EXTENDS Store, Sequences

CONSTANTS
  Sto,          \* offering ids
  NoEnd,        \* an offering may have no end; not a time
  MaxTime       \* bound on the time of a block

VARIABLES
  era,          \* which of the Eras the chain is in
  cNow,         \* the time of the current block
  cSto,         \* the pallet: [status, end, account, left]
  sto,          \* Sto rows: [status, end, offChain, remaining]
  invested,     \* the sum of the Investment rows of an offering
  stopped,      \* a handler has thrown
  misread       \* offerings whose last change of window was taken for another's

vars == <<era, cNow, cSto, sto, invested, stopped, misread>>
pallet == <<era, cNow, cSto>>

Eras == <<"before 7.0", "7.0", "7.3", "8.x">>
is7xChain == Eras[era] # "before 7.0"
is7Dot3Chain == Eras[era] \in {"7.3", "8.x"}

\* What an offering sells in all, and how an extrinsic may bring an event: as
\* the call itself, in a batch or another call, or without an extrinsic.
Total == 2
Call == {"direct", "nested", "none"}
End == {NoEnd} \union 1..MaxTime

Init ==
  /\ era \in DOMAIN Eras /\ cNow = 0 /\ cSto = NoTable
  /\ sto = NoTable /\ invested = [s \in Sto |-> 0]
  /\ stopped = FALSE /\ misread = {}

\* The pallet: closed offerings stay as they are.
Open(s) == ~stopped /\ Has(cSto, s) /\ cSto[s].status \in {"Live", "Frozen"}
Expired(end) == end # NoEnd /\ cNow >= end

\* The asset getOfferingAsset finds; without an extrinsic it throws, and before
\* 7.0.0 in a nested call.
getOfferingAssetThrows(call) ==
  ~is7Dot3Chain /\ (call = "none" \/ (call = "nested" /\ ~is7xChain))
OfferingAssetFound(call) == is7Dot3Chain \/ call = "direct"
Row(s, call) == IF OfferingAssetFound(call) THEN DOMAIN sto \intersect {s} ELSE {}

Stop == stopped' = TRUE /\ UNCHANGED <<sto, invested, misread>>

Tick ==
  /\ ~stopped /\ cNow < MaxTime /\ cNow' = cNow + 1
  /\ UNCHANGED <<era, cSto, sto, invested, stopped, misread>>

Upgrade ==
  /\ ~stopped /\ era < Len(Eras) /\ era' = era + 1
  /\ UNCHANGED <<cNow, cSto, sto, invested, stopped, misread>>

\* From 8.x on a portfolio may be an account: no row is made then.
handleFundraiserCreated(s, end, account) ==
  /\ ~stopped /\ ~Has(cSto, s) /\ ~Expired(end)
  /\ account => Eras[era] = "8.x"
  /\ cSto' = Save(cSto, s, [status |-> "Live", end |-> end, account |-> account,
                            left |-> Total])
  /\ sto' = IF account THEN sto
            ELSE Save(sto, s, [status |-> "Live", end |-> end, offChain |-> FALSE,
                               remaining |-> Total])
  /\ UNCHANGED <<era, cNow, invested, stopped, misread>>

\* Mutant: whether the end has come is not looked at.
Closed_Late(end) == "Closed"
Closed(end) == IF end # NoEnd /\ cNow < end THEN "ClosedEarly" ELSE "Closed"

StatusEvent == {"FundraiserFrozen", "FundraiserUnfrozen", "FundraiserClosed"}
NewStatus(event, end) ==
  CASE event = "FundraiserFrozen" -> "Frozen"
    [] event = "FundraiserUnfrozen" -> "Live"
    [] event = "FundraiserClosed" -> Closed(end)

\* The status the pallet gives: it compares the time with the end it has.
PalletStatus(event, end) ==
  CASE event = "FundraiserFrozen" -> "Frozen"
    [] event = "FundraiserUnfrozen" -> "Live"
    [] event = "FundraiserClosed" ->
         IF end = NoEnd \/ Expired(end) THEN "Closed" ELSE "ClosedEarly"

\* The row must be there.
handleFundraiserStatus(s, event, call) ==
  /\ Open(s)
  /\ cSto' = [cSto EXCEPT ![s].status = PalletStatus(event, cSto[s].end)]
  /\ UNCHANGED <<era, cNow>>
  /\ IF getOfferingAssetThrows(call) \/ Row(s, call) = {} THEN Stop
     ELSE /\ sto' = [sto EXCEPT ![s].status = NewStatus(event, sto[s].end)]
          /\ UNCHANGED <<invested, stopped, misread>>

\* Passed over when there is no row.
handleFundraiserWindowModified(s, end, call) ==
  /\ Open(s) /\ ~Expired(cSto[s].end) /\ ~Expired(end)
  /\ cSto' = [cSto EXCEPT ![s].end = end]
  /\ UNCHANGED <<era, cNow>>
  /\ IF getOfferingAssetThrows(call) THEN Stop
     ELSE /\ sto' = [k \in DOMAIN sto |->
                       IF k \in Row(s, call) THEN [sto[k] EXCEPT !.end = end] ELSE sto[k]]
          /\ misread' = IF OfferingAssetFound(call) THEN misread \ {s} ELSE misread \union {s}
          /\ UNCHANGED <<invested, stopped>>

\* Since 7.3.0 only, and passed over when there is no row.
handleFundraiserOffchainFundingEnabled(s) ==
  /\ Open(s) /\ is7Dot3Chain
  /\ sto' = [k \in DOMAIN sto |-> IF k = s THEN [sto[k] EXCEPT !.offChain = TRUE] ELSE sto[k]]
  /\ UNCHANGED <<pallet, invested, stopped, misread>>

\* The row of the offering stays as it is.
handleInvested(s) ==
  /\ Open(s) /\ cSto[s].status = "Live" /\ ~Expired(cSto[s].end) /\ cSto[s].left > 0
  /\ cSto' = [cSto EXCEPT ![s].left = @ - 1]
  /\ invested' = [invested EXCEPT ![s] = @ + 1]
  /\ UNCHANGED <<era, cNow, sto, stopped, misread>>

Next ==
  \/ Tick \/ Upgrade
  \/ \E s \in Sto :
       \/ \E end \in End, account \in BOOLEAN : handleFundraiserCreated(s, end, account)
       \/ \E event \in StatusEvent, call \in Call : handleFundraiserStatus(s, event, call)
       \/ \E end \in End, call \in Call : handleFundraiserWindowModified(s, end, call)
       \/ handleFundraiserOffchainFundingEnabled(s) \/ handleInvested(s)

Spec == Init /\ [][Next]_vars

-----------------------------------------------------------------------------
\* As long as the indexer moves, an offering from a portfolio is shown with the
\* status and the end the chain gives it, early or not, unless its window was
\* last changed by a nested call between 7.0.0 and 7.3.0; and what is left of it
\* is what it was created with less its investments.
ShownAsIs ==
  \A s \in DOMAIN cSto :
    ~stopped /\ ~cSto[s].account /\ s \notin misread =>
      /\ Has(sto, s)
      /\ sto[s].status = cSto[s].status /\ sto[s].end = cSto[s].end
      /\ sto[s].remaining - invested[s] = cSto[s].left

\* The indexer stops only before 7.3.0 or for an offering from an account.
StopsOnly == stopped => ~is7Dot3Chain \/ \E s \in DOMAIN cSto : cSto[s].account

\* Offerings opened, moved, frozen and closed across the changes of the event
\* layouts, in direct and nested calls, are shown as the chain has them.
OfferingsMirrorChain == ShownAsIs /\ StopsOnly
=============================================================================
