---------------------- MODULE ConfidentialTransactions ----------------------
(***************************************************************************)
(* Confidential transactions and the affirmations of their parties         *)
(* (src/mappings/entities/confidentialAssets/                              *)
(* mapConfidentialTransaction.ts), next to the confidential asset pallet.  *)
(* Each step is one event with its handler.                                *)
(***************************************************************************)
EXTENDS Store, Sequences, FiniteSets, Functions

CONSTANTS
  Tx,           \* transaction ids
  LegLists      \* legs a transaction may have: [sender, receiver, mediators]

VARIABLES
  cTx,          \* the pallet: [status, legs, affirmed] of each transaction
  tx,           \* ConfidentialTransaction rows: [status, pendingAffirmations]
  affirmation   \* ConfidentialTransactionAffirmation rows: <<legId, party, identity>>

vars == <<cTx, tx, affirmation>>

Init == cTx = NoTable /\ tx = NoTable /\ affirmation = NoTable

\* Who has to affirm what: <<leg, role, did>>.
Parts(legs) ==
  UNION {{<<n, "Sender", legs[n].sender>>, <<n, "Receiver", legs[n].receiver>>}
         \union {<<n, "Mediator", did>> : did \in legs[n].mediators} : n \in DOMAIN legs}

Remaining(t) == Cardinality(Parts(cTx[t].legs) \ cTx[t].affirmed)

\* getPendingAffirmationCountFromLegs: two, and the mediators, for each leg.
PendingOf(legs) == SumFunction([n \in DOMAIN legs |-> Cardinality(legs[n].mediators) + 2])

\* Mutant: the role is not part of the id.
AffirmationId_Plain(t, role, did) == <<t, did>>
AffirmationId(t, role, did) == <<t, role, did>>

handleConfidentialTransactionCreated(t, legs) ==
  /\ ~Has(cTx, t)
  /\ cTx' = Save(cTx, t, [status |-> "Created", legs |-> legs, affirmed |-> {}])
  /\ tx' = Save(tx, t, [status |-> "Created", pendingAffirmations |-> PendingOf(legs)])
  /\ UNCHANGED affirmation

\* The event carries the number of affirmations that are still missing.
handleConfidentialTransactionAffirmed(t, part) ==
  /\ Has(cTx, t) /\ cTx[t].status = "Created"
  /\ part \in Parts(cTx[t].legs) \ cTx[t].affirmed
  /\ cTx' = [cTx EXCEPT ![t].affirmed = @ \union {part}]
  /\ IF Has(tx, t)
     THEN /\ tx' = [tx EXCEPT ![t].pendingAffirmations = Remaining(t)']
          /\ affirmation' = Save(affirmation, AffirmationId(t, part[2], part[3]), part)
     ELSE UNCHANGED <<tx, affirmation>>

handleConfidentialTransactionExecutedOrRejected(t, status) ==
  /\ Has(cTx, t) /\ cTx[t].status = "Created"
  /\ status = "Executed" => Remaining(t) = 0
  /\ cTx' = [cTx EXCEPT ![t].status = status]
  /\ tx' = IF Has(tx, t) THEN [tx EXCEPT ![t].status = status] ELSE tx
  /\ UNCHANGED affirmation

Next ==
  \E t \in Tx :
    \/ \E legs \in LegLists : handleConfidentialTransactionCreated(t, legs)
    \/ \E part \in UNION {Parts(legs) : legs \in LegLists} :
         handleConfidentialTransactionAffirmed(t, part)
    \/ \E status \in {"Executed", "Rejected"} :
         handleConfidentialTransactionExecutedOrRejected(t, status)

Spec == Init /\ [][Next]_vars

-----------------------------------------------------------------------------
\* The affirmations that the rows of a transaction tell.
Told(t) == {affirmation[id] : id \in {x \in DOMAIN affirmation : x[1] = t}}
RoleOnce(legs) ==
  \A p, q \in Parts(legs) : (p[2] = q[2] /\ p[3] = q[3]) => p = q

\* A transaction has the status of the chain and as many pending affirmations as
\* the chain waits for; every affirmation told was given, and whoever affirmed in
\* a role has a row for a leg it affirmed in that role.  Where nobody has one role
\* in two legs the rows are just the affirmations given: an executed transaction
\* has those of all parties of all legs.
PendingExplained ==
  \A t \in DOMAIN cTx :
    /\ Has(tx, t) /\ tx[t].status = cTx[t].status
    /\ tx[t].pendingAffirmations = Remaining(t)
    /\ Told(t) \subseteq cTx[t].affirmed
    /\ \A p \in cTx[t].affirmed : \E q \in Told(t) : q[2] = p[2] /\ q[3] = p[3]
    /\ RoleOnce(cTx[t].legs) =>
         /\ Told(t) = cTx[t].affirmed
         /\ tx[t].status = "Executed" => Told(t) = Parts(cTx[t].legs)

\* The same of every transaction.  It fails: a second affirmation in the same
\* role, of another leg, takes the row of the first.
EveryAffirmationTold == \A t \in DOMAIN cTx : Told(t) = cTx[t].affirmed
=============================================================================
