---------------------------- MODULE PolyxLedger ----------------------------
(***************************************************************************)
(* The movements of POLYX in one extrinsic                                 *)
(* (src/mappings/entities/identities/mapPolyxTransaction.ts).  The chain   *)
(* tells some of them by several events, which the handlers merge into one *)
(* row: by the kind of event and the amount, among the rows of the         *)
(* extrinsic, of which a paged query in no definite order finds some, and  *)
(* the handler takes the first of those.                                   *)
(* Each step is one operation of the chain with all its events.            *)
(***************************************************************************)
EXTENDS Store, Paging, Sequences

CONSTANTS
  Payer, Treasury, NoOne,   \* accounts; the last two are not Payers
  Committee,                \* the primary account of the identity that disburses
  Amount, TxFee,            \* amounts moved, and transaction fees
  MaxMoves                  \* bound on the operations of the extrinsic

VARIABLES
  splitFees,    \* the chain is older than 5.4.1
  cExists,      \* the accounts the chain has
  primary,      \* the primary account of each one's identity, if it has an identity
  cMoves,       \* the movements of the extrinsic: [kind, from, to, amount]
  cDone,        \* its transaction fee has been paid, the last movement
  rows          \* PolyxTransaction, by event index: [event, from, to, amount]

vars == <<splitFees, cExists, primary, cMoves, cDone, rows>>

Move(kind, from, to, amount) == [kind |-> kind, from |-> from, to |-> to, amount |-> amount]
Row(event, from, to, amount) == [event |-> event, from |-> from, to |-> to, amount |-> amount]

Init ==
  /\ splitFees \in BOOLEAN /\ cExists \in (SUBSET Payer) \ {{}}
  /\ primary \in {of \in [Payer -> Payer \union {NoOne}] :
                    \A a \in Payer : of[a] # NoOne => of[of[a]] = of[a]}
  /\ cMoves = << >> /\ cDone = FALSE /\ rows = NoTable

\* Event indexes go up; the rows of the extrinsic are never removed.
Insert(table, row) == Save(table, Cardinality(DOMAIN table), row)

Of(table, event) == {id \in DOMAIN table : table[id].event = event}
\* What .find(eventId === event) may return, for each result of the query.
Lookups(table, event) ==
  {Of(table, event) \intersect page : page \in getPaginatedData(DOMAIN table)}

Moves(kind, from, to, amount) ==
  /\ ~cDone /\ Len(cMoves) < MaxMoves
  /\ cMoves' = Append(cMoves, Move(kind, from, to, amount))
  /\ UNCHANGED <<splitFees, primary>>

\* handleBalanceEndowed, for an account the chain did not have.
AfterEndowed(to, amount) ==
  IF to \in cExists THEN rows ELSE Insert(rows, Row("Endowed", NoOne, to, amount))

\* handleBalanceTransfer: an endowment of the same amount gets the payer.
AfterTransfer(table, from, to, amount) ==
  LET new == Insert(table, Row("Transfer", from, to, amount))
      After(found) ==
        IF found = {} THEN {new}
        ELSE {IF table[id].amount = amount
                THEN [table EXCEPT ![id].from = from] ELSE new : id \in found}
  IN UNION {After(found) : found \in Lookups(table, "Endowed")}

\* handleTreasuryDisbursement: a transfer of the same amount becomes it.
AfterDisbursement(table, to, amount) ==
  LET new == Insert(table, Row("TreasuryDisbursement", Committee, to, amount))
      After(found) ==
        IF found = {} THEN {new}
        ELSE {IF table[id].amount = amount
                THEN [table EXCEPT ![id].event = "TreasuryDisbursement"]
                ELSE new : id \in found}
  IN UNION {After(found) : found \in Lookups(table, "Transfer")}

\* The chain reimburses the treasury 80% of a fee, since 5.4.1 all of it.
Reimbursed(fee) == IF splitFees THEN (fee * 4) \div 5 ELSE fee

\* Mutant: the share of the treasury is taken for the fee.
Grossed_Share(reimbursed) == reimbursed
\* amount * 1.25, rounded down, before 5.4.1.
Grossed(reimbursed) == IF splitFees THEN (reimbursed * 5) \div 4 ELSE reimbursed

\* handleTreasuryReimbursement: passed over when it is that of a fee charged.
\* The event names the identity; the row gets its primary account.
AfterReimbursement(table, from, reimbursed) ==
  LET amount == Grossed(reimbursed)
      new == Insert(table, Row("TreasuryReimbursement", primary[from], NoOne, amount))
      After(found) ==
        IF found = {} THEN {new}
        ELSE {IF table[id].amount = amount THEN table ELSE new : id \in found}
  IN UNION {After(found) : found \in Lookups(table, "FeeCharged")}

\* handleTransactionFeeCharged: a reimbursement becomes the fee.
AfterFeePaid(table, from, fee) ==
  LET row == Row("TransactionFeePaid", from, NoOne, fee)
      After(found) == IF found = {} THEN {Insert(table, row)}
                                    ELSE {[table EXCEPT ![id] = row] : id \in found}
  IN UNION {After(found) : found \in Lookups(table, "TreasuryReimbursement")}

-----------------------------------------------------------------------------
Transfer(from, to, amount) ==
  /\ from \in cExists /\ from # to
  /\ Moves("Transfer", from, to, amount)
  /\ cExists' = cExists \union {to}
  /\ rows' \in AfterTransfer(AfterEndowed(to, amount), from, to, amount)
  /\ UNCHANGED cDone

Disburse(to, amount) ==
  /\ Moves(IF to \in cExists THEN "Disbursement" ELSE "FirstDisbursement",
           Treasury, to, amount)
  /\ cExists' = cExists \union {to}
  /\ \E table \in AfterTransfer(AfterEndowed(to, amount), Treasury, to, amount) :
       rows' \in AfterDisbursement(table, to, amount)
  /\ UNCHANGED cDone

\* handleFeeCharged, then the share of the treasury.
ChargeProtocolFee(from, fee) ==
  /\ from \in cExists
  /\ Moves("ProtocolFee", from, NoOne, fee)
  /\ rows' \in AfterReimbursement(Insert(rows, Row("FeeCharged", from, NoOne, fee)),
                                  from, Reimbursed(fee))
  /\ UNCHANGED <<cExists, cDone>>

\* handleBalanceCharged and handleBalanceSpent, handleBalanceAdded and
\* handleBalanceReceived: one event, and one side of the movement.
\* handleReserveRepatriated has both.
MoveAlone(from, to, amount) ==
  /\ from # to /\ {from, to} \subseteq cExists \union {NoOne}
  /\ Moves("Alone", from, to, amount)
  /\ rows' = Insert(rows, Row("Other", from, to, amount))
  /\ UNCHANGED <<cExists, cDone>>

\* handleBalanceSet: the reserved balance is saved under the id of the free one.
SetBalance(to, free, reserved) ==
  LET id == Cardinality(DOMAIN rows)
      table == Save(rows, id, Row("BalanceSet", NoOne, to, free))
  IN /\ to \in cExists
     /\ Moves(IF reserved = 0 THEN "Alone" ELSE "BothSet", NoOne, to, free)
     /\ rows' = IF reserved = 0 THEN table
                ELSE Save(table, id, Row("BalanceSet", NoOne, to, reserved))
     /\ UNCHANGED <<cExists, cDone>>

\* At the end of the extrinsic.
PayTransactionFee(from, fee) ==
  /\ from \in cExists
  /\ Moves("TransactionFee", from, NoOne, fee)
  /\ cDone' = TRUE
  /\ \E table \in AfterReimbursement(rows, from, Reimbursed(fee)) :
       rows' \in AfterFeePaid(table, from, fee)
  /\ UNCHANGED cExists

\* Before 5.4 there is no TransactionFeePaid.
PayOldTransactionFee(from, fee) ==
  /\ splitFees /\ from \in cExists
  /\ Moves("OldTransactionFee", from, NoOne, fee)
  /\ cDone' = TRUE
  /\ rows' \in AfterReimbursement(rows, from, Reimbursed(fee))
  /\ UNCHANGED cExists

Next ==
  \E a \in Payer :
    \/ \E amount \in Amount :
         \/ \E b \in Payer : Transfer(a, b, amount)
         \/ Disburse(a, amount) \/ ChargeProtocolFee(a, amount)
         \/ \E b \in Payer \union {NoOne} : MoveAlone(a, b, amount)
         \/ MoveAlone(NoOne, a, amount)
         \/ \E reserved \in {0, 1} : SetBalance(a, amount, reserved)
    \/ \E fee \in TxFee : PayTransactionFee(a, fee) \/ PayOldTransactionFee(a, fee)

Spec == Init /\ [][Next]_vars

-----------------------------------------------------------------------------
\* What a row may show of the amount and the payer: a fee no event of its own
\* tells of is the share of the treasury grossed up, where the split loses a
\* rest, and paid by the primary account.
Shown(m) ==
  IF m.kind = "OldTransactionFee"
  THEN [from |-> primary[m.from], amount |-> Grossed(Reimbursed(m.amount))]
  ELSE [from |-> m.from, amount |-> m.amount]
Tells(row, m) ==
  row.from = Shown(m).from /\ row.to = m.to /\ row.amount = Shown(m).amount
Amounts(m) ==
  {m.amount} \union IF m.kind \in {"TransactionFee", "OldTransactionFee"}
                    THEN {Grossed(Reimbursed(m.amount))} ELSE {}

Index == DOMAIN cMoves
Distinct == \A i, j \in Index : i # j => Amounts(cMoves[i]) \cap Amounts(cMoves[j]) = {}

\* What is told twice otherwise: a disbursement to an account the chain did not
\* have, whose transfer is merged before the disbursement looks for it; and a
\* second transfer or protocol fee, for only one row of a kind is looked at;
\* and a protocol fee whose split lost its rest, for its share of four fifths
\* does not lead back to it; and what is looked for among more rows than a page.
Kinds == {{"Transfer", "Disbursement"}, {"ProtocolFee"}}
Whole(m) == m.kind = "ProtocolFee" /\ splitFees => m.amount % 5 = 0
Simple ==
  /\ Len(cMoves) <= PageSize
  /\ \A i \in Index : cMoves[i].kind # "FirstDisbursement" /\ Whole(cMoves[i])
  /\ \A kinds \in Kinds : Cardinality({i \in Index : cMoves[i].kind \in kinds}) <= 1

\* When the amounts of an extrinsic differ, no movement is lost: a row tells
\* who paid whom and how much, but for a free balance that is set with a
\* reserved one, and for the payer of a transaction fee before 5.4, which is
\* shown as paid by the primary account of its identity, if it has one.  And in
\* a simple extrinsic no movement is told twice, whichever events tell it.
MovesTold ==
  Distinct =>
    /\ \A i \in Index : cMoves[i].kind # "BothSet" =>
         \E id \in DOMAIN rows : Tells(rows[id], cMoves[i])
    /\ Simple => Cardinality(DOMAIN rows) = Len(cMoves)
=============================================================================
