----------------------------- MODULE Settlement -----------------------------
(***************************************************************************)
(* Instructions, their parties and their affirmations                      *)
(* (src/mappings/entities/settlements/mapSettlement.ts), next to the       *)
(* settlement pallet whose events they are indexed from.                   *)
(*                                                                         *)
(* A block is produced first, event after event, and then handed to the    *)
(* handlers one event at a time: handleInstructionCreated does not look at *)
(* its own event only, it reads the whole block.                           *)
(*                                                                         *)
(* The holding of a leg's side is a portfolio number, an account, or       *)
(* OffChain for a leg outside the chain.                                   *)
(***************************************************************************)
EXTENDS Store, Common, FiniteSets

CONSTANTS
  Setups,       \* the chains and instructions to consider: see below
  Portfolio,    \* portfolio numbers
  OffChain,     \* the holding of an off-chain side
  NoNumber      \* the portfolio "undefined"

VARIABLE setup  \* which of them this is; it never changes

\* setup.legs, by instruction id: a sequence of [from, fromHold, to, toHold];
\* setup.mediators, by instruction id: a set of DIDs.
Legs == setup.legs
Instr == DOMAIN Legs
Mediators == setup.mediators

\* Whether the chain is 'polymesh_private_dev'.
Private == setup.private

\* The spec version.  unauthorize: up to the renaming of the affirmation
\* events;  early: 6.1.0 up to but without 6.3.1;  turn: 6.3.1;  late: after it.
Eras == {"unauthorize", "early", "turn", "late"}
Era == setup.era

\* Bound on the events of a block after which no operation is added to it.
MaxBlock == setup.maxBlock

ASSUME SetupAssumption ==
  /\ NoNumber \notin Portfolio
  /\ \A s \in Setups :
       /\ s.era \in Eras /\ s.private \in BOOLEAN /\ s.maxBlock \in Nat
       /\ DOMAIN s.mediators = DOMAIN s.legs
       /\ \A i \in DOMAIN s.legs : IsFiniteSet(DOMAIN s.legs[i])

Ends(l) == {<<l.from, l.fromHold>>, <<l.to, l.toHold>>}
AllSides(i) == UNION {Ends(Legs[i][n]) : n \in DOMAIN Legs[i]}
OnChain(i) == {s \in AllSides(i) : s[2] # OffChain}
Claimants(i) == {Legs[i][n].from : n \in {m \in DOMAIN Legs[i] :
                                            Legs[i][m].fromHold = OffChain}}
PartyDids(i) == {s[1] : s \in AllSides(i)}
Dids == UNION {PartyDids(i) \union Mediators[i] : i \in Instr}

\* getPortfolioOrAccount: an account has no portfolio number.
Number(hold) == IF hold \in Portfolio THEN hold ELSE NoNumber

\* Mutant: a mediator's id is that of a party.
PartyId_Plain(i, did, isMediator) == <<i, did, FALSE>>

\* getPartyId
PartyId(i, did, isMediator) == <<i, did, isMediator>>

VARIABLES
  cStatus, cAffirmed, cMediated, cClaimed,  \* the pallet's own state
  block, pos,                               \* the block, the event to handle
  inst,         \* Instruction rows: [status, mediators]
  party,        \* InstructionParty rows: [numbers], {NoNumber} for undefined
  aff,          \* InstructionAffirmation rows: [status, portfolios]
  receipt,      \* the affirmation rows of off-chain receipts
  revived       \* the affirmations a handler brought back after their withdrawal

pallet == <<cStatus, cAffirmed, cMediated, cClaimed>>
tables == <<inst, party, aff, receipt>>
vars == <<setup, pallet, block, pos, tables, revived>>

Init ==
  /\ setup \in Setups
  /\ cStatus = [i \in Instr |-> "None"]
  /\ cAffirmed = [i \in Instr |-> {}]
  /\ cMediated = [i \in Instr |-> {}]
  /\ cClaimed = [i \in Instr |-> {}]
  /\ block = << >> /\ pos = 0
  /\ inst = NoTable /\ party = NoTable /\ aff = NoTable /\ receipt = {}
  /\ revived = {}

-----------------------------------------------------------------------------
(* The settlement pallet: each operation changes its state and deposits    *)
(* the events the handlers are registered for.                             *)

Event(kind, i, did, hold) == [kind |-> kind, i |-> i, did |-> did, hold |-> hold]
NoDid == "nobody"

Deposit(events) ==
  /\ pos = 0 /\ Len(block) < MaxBlock
  /\ block' = block \o events
  /\ UNCHANGED <<setup, pos, tables, revived>>

Open(i) == cStatus[i] \in {"Created", "Failed"}
FullyAffirmed(i) ==
  /\ cAffirmed[i] = OnChain(i)
  /\ cMediated[i] = Mediators[i]
  /\ cClaimed[i] = Claimants(i)

\* Receivers that pre-approved the asset are affirmed automatically; up to
\* 6.3.1 their events come before the instruction's own.
Create(i, auto) ==
  LET created == <<Event("Created", i, NoDid, NoNumber)>>
                 \o (IF Mediators[i] = {} THEN << >>
                     ELSE <<Event("Mediators", i, NoDid, NoNumber)>>)
      autos == LET s == SetToSeq(auto)
               IN [n \in DOMAIN s |-> Event("Auto", i, s[n][1], s[n][2])]
  IN /\ cStatus[i] = "None"
     /\ auto # {} => Era # "unauthorize"
     /\ cStatus' = [cStatus EXCEPT ![i] = "Created"]
     /\ cAffirmed' = [cAffirmed EXCEPT ![i] = auto]
     /\ UNCHANGED <<cMediated, cClaimed>>
     /\ Deposit(IF Era = "early" THEN autos \o created ELSE created \o autos)

Affirm(i, s) ==
  /\ Open(i) /\ s \notin cAffirmed[i]
  /\ cAffirmed' = [cAffirmed EXCEPT ![i] = @ \union {s}]
  /\ UNCHANGED <<cStatus, cMediated, cClaimed>>
  /\ Deposit(<<Event("Affirmed", i, s[1], s[2])>>)

Withdraw(i, s) ==
  /\ Open(i) /\ s \in cAffirmed[i]
  /\ cAffirmed' = [cAffirmed EXCEPT ![i] = @ \ {s}]
  /\ UNCHANGED <<cStatus, cMediated, cClaimed>>
  /\ Deposit(<<Event(IF Era = "unauthorize" THEN "Unauthorized" ELSE "Withdrawn",
                     i, s[1], s[2])>>)

Mediate(i, did) ==
  /\ Open(i) /\ did \in Mediators[i] \ cMediated[i]
  /\ cMediated' = [cMediated EXCEPT ![i] = @ \union {did}]
  /\ UNCHANGED <<cStatus, cAffirmed, cClaimed>>
  /\ Deposit(<<Event("MediatorAffirmed", i, did, NoNumber)>>)

Unmediate(i, did) ==
  /\ Open(i) /\ did \in cMediated[i]
  /\ cMediated' = [cMediated EXCEPT ![i] = @ \ {did}]
  /\ UNCHANGED <<cStatus, cAffirmed, cClaimed>>
  /\ Deposit(<<Event("MediatorWithdrawn", i, did, NoNumber)>>)

Claim(i, did) ==
  /\ Open(i) /\ did \in Claimants(i) \ cClaimed[i]
  /\ cClaimed' = [cClaimed EXCEPT ![i] = @ \union {did}]
  /\ UNCHANGED <<cStatus, cAffirmed, cMediated>>
  /\ Deposit(<<Event("Receipt", i, did, OffChain)>>)

Reject(i, did) ==
  /\ Open(i) /\ did \in PartyDids(i) \union Mediators[i]
  /\ cStatus' = [cStatus EXCEPT ![i] = "Rejected"]
  /\ UNCHANGED <<cAffirmed, cMediated, cClaimed>>
  /\ Deposit(<<Event("Rejected", i, did, NoNumber)>>)

\* InstructionExecuted, InstructionLocked, InstructionFailed and
\* FailedToExecuteInstruction.
Finalize(i, status) ==
  /\ \/ Open(i) /\ FullyAffirmed(i) /\ status \in {"Executed", "Failed", "Locked"}
     \/ cStatus[i] = "Locked" /\ status \in {"Executed", "Failed"}
  /\ cStatus' = [cStatus EXCEPT ![i] = status]
  /\ UNCHANGED <<cAffirmed, cMediated, cClaimed>>
  /\ Deposit(<<Event(status, i, NoDid, NoNumber)>>)

\* The block is complete; the engine starts to call the handlers.
Seal ==
  /\ pos = 0 /\ block # << >>
  /\ pos' = 1
  /\ UNCHANGED <<setup, pallet, block, tables, revived>>

-----------------------------------------------------------------------------
(* The handlers.                                                           *)

e == block[pos]

\* The handler's event is of one of these kinds; after the last event of the
\* block the next block may be produced.
Handling(kinds) ==
  /\ pos > 0 /\ e.kind \in kinds
  /\ IF pos = Len(block) THEN pos' = 0 /\ block' = << >>
                         ELSE pos' = pos + 1 /\ UNCHANGED block
  /\ UNCHANGED <<setup, pallet>>

\* An affirmation of the party through one more holding.
Affirmed(table, id, hold) ==
  IF Has(table, id)
  THEN [table[id] EXCEPT !.portfolios = AddIfNotIncludes(@, Number(hold))]
  ELSE [status |-> "Affirmed", portfolios |-> <<Number(hold)>>]

\* handleInstructionCreated and handleAutomaticAffirmation decide by spec
\* version and spec name which of them stores automatic affirmations.
RescansBlock == Era \in {"early", "turn"} \/ ~Private
\* Mutant: the spec name is compared the wrong way round.
HandlesAutomatic_Public == Era \in {"turn", "late"} /\ ~Private
HandlesAutomatic == Era \in {"turn", "late"} \/ Private

\* Mutant: only the senders are parties.
PartiesOf_Senders(i) ==
  [did \in {Legs[i][n].from : n \in DOMAIN Legs[i]} |-> {NoNumber}]

\* Mutant: each leg replaces the portfolio of the one before.
PartiesOf_Last(i) ==
  [did \in PartyDids(i) |->
     LET n == CHOOSE m \in DOMAIN Legs[i] :
                /\ did \in {Legs[i][m].from, Legs[i][m].to}
                /\ \A l \in m + 1..Len(Legs[i]) : did \notin {Legs[i][l].from, Legs[i][l].to}
     IN {Number(IF Legs[i][n].to = did THEN Legs[i][n].toHold ELSE Legs[i][n].fromHold)}]

\* The parties of the legs: their portfolio numbers, until a side without one
\* resets them.
PartiesOf(i) ==
  LET ends == [n \in 1..(2 * Len(Legs[i])) |->
                LET l == Legs[i][(n + 1) \div 2]
                IN IF n % 2 = 1 THEN <<l.from, l.fromHold>> ELSE <<l.to, l.toHold>>]
      resets(did) == {n \in DOMAIN ends : ends[n][1] = did
                                          /\ Number(ends[n][2]) = NoNumber}
      last(did) == CHOOSE n \in resets(did) \union {0} :
                     \A m \in resets(did) \union {0} : m <= n
      numbers(did) == {ends[n][2] : n \in {m \in DOMAIN ends :
                                             ends[m][1] = did /\ m > last(did)}}
  IN [did \in PartyDids(i) |->
        IF numbers(did) = {} THEN {NoNumber} ELSE numbers(did)]

\* The places of the automatic affirmations of a party.
AutoEvents(id) ==
  {n \in DOMAIN block :
     block[n].kind = "Auto" /\ PartyId(block[n].i, block[n].did, FALSE) = id}

\* The row of a party after the affirmations at the places picked were added to
\* it, one after the other.
RowAfter(table, id, picked) ==
  LET Added(t, n) ==
        IF n \in picked THEN Save(t, id, Affirmed(t, id, block[n].hold)) ELSE t
  IN FoldLeft(Added, table, [n \in DOMAIN block |-> n])[id]

\* The rescan starts one read-modify-write per automatic affirmation of the
\* block and waits for all of them.  Each reads the row of its party before or
\* after any other has written it, and the last to write wins: what is left
\* are the portfolios of some of the events, one at least.
Rescanned(table) ==
  LET ids == {PartyId(a.i, a.did, FALSE) :
                a \in {b \in ToSet(block) : b.kind = "Auto"}}
      outcomes(id) ==
        {RowAfter(table, id, picked) : picked \in (SUBSET AutoEvents(id)) \ {{}}}
      results == [ids -> UNION {outcomes(id) : id \in ids}]
  IN { SaveAll(table, r) : r \in {f \in results : \A id \in ids : f[id] \in outcomes(id)} }

\* The places of the events about the affirmation of a party.
PartyEvents(id) ==
  {n \in DOMAIN block :
     /\ block[n].kind \in {"Auto", "Affirmed", "Withdrawn", "Unauthorized"}
     /\ PartyId(block[n].i, block[n].did, FALSE) = id}

\* The automatic affirmations of the block that are withdrawn at this event.
WithdrawnAutos ==
  {id \in {PartyId(block[n].i, block[n].did, FALSE) : n \in DOMAIN block} :
     /\ AutoEvents(id) # {}
     /\ \E n \in PartyEvents(id) :
          /\ n < pos /\ block[n].kind = "Withdrawn"
          /\ \A m \in PartyEvents(id) : m < pos => m <= n}

\* Mutant: the row of the instruction is not saved.
handleInstructionCreated_Unsaved ==
  /\ Handling({"Created"})
  /\ UNCHANGED <<tables, revived>>

handleInstructionCreated ==
  /\ Handling({"Created"})
  /\ inst' = Save(inst, e.i, [status |-> "Created", mediators |-> {}])
  /\ LET parties == PartiesOf(e.i)
         ids == {PartyId(e.i, did, FALSE) : did \in DOMAIN parties}
     IN party' = SaveAll(party, [id \in ids |-> parties[id[2]]])
  /\ IF RescansBlock THEN aff' \in Rescanned(aff) /\ revived' = revived \union WithdrawnAutos
                     ELSE UNCHANGED <<aff, revived>>
  /\ UNCHANGED receipt

\* project.ts also registers handleInstructionUpdate for the old events
\* InstructionAuthorized and InstructionUnauthorized.
handleInstructionUpdate ==
  /\ Handling({"Affirmed", "Unauthorized"})
  /\ LET id == PartyId(e.i, e.did, FALSE)
     IN /\ aff' = Save(aff, id, Affirmed(aff, id, e.hold))
        /\ revived' = IF e.kind = "Unauthorized" THEN revived \union {id} ELSE revived \ {id}
  /\ UNCHANGED <<inst, party, receipt>>

handleAutomaticAffirmation ==
  /\ Handling({"Auto"})
  /\ LET id == PartyId(e.i, e.did, FALSE)
     IN /\ aff' = IF HandlesAutomatic THEN Save(aff, id, Affirmed(aff, id, e.hold))
                                      ELSE aff
        /\ revived' = revived \ {id}
  /\ UNCHANGED <<inst, party, receipt>>

handleAffirmationWithdrawn ==
  /\ Handling({"Withdrawn"})
  /\ LET id == PartyId(e.i, e.did, FALSE)
     IN /\ aff' = IF ~Has(aff, id) THEN aff
                  ELSE IF Len(aff[id].portfolios) = 1 THEN Delete(aff, {id})
                  ELSE [aff EXCEPT ![id].portfolios =
                                     RemoveIfIncludes(@, Number(e.hold))]
        /\ revived' = revived \ {id}
  /\ UNCHANGED <<inst, party, receipt>>

\* Mutant: the rejecting party is shown as affirming.
Rejection_Affirmed == [status |-> "Affirmed", portfolios |-> << >>]
Rejection == [status |-> "Rejected", portfolios |-> << >>]

\* The rejecting party's row replaces its affirmation.  getInstruction throws
\* when there is no row: the handler, and with it the indexer, stops.
handleInstructionRejected ==
  /\ Handling({"Rejected"})
  /\ Has(inst, e.i)
  /\ inst' = [inst EXCEPT ![e.i].status = "Rejected"]
  /\ aff' = Save(aff, PartyId(e.i, e.did, e.did \in inst[e.i].mediators),
                 Rejection)
  /\ UNCHANGED <<party, receipt, revived>>

\* Mutant: a locked instruction is shown as failed.
instructionStatusMap_Locked ==
  [Executed |-> "Executed", Failed |-> "Failed", Locked |-> "Failed"]
instructionStatusMap ==
  [Executed |-> "Executed", Failed |-> "Failed", Locked |-> "Locked"]

\* handleInstructionFinalizedEvent and handleFailedToExecuteInstruction
handleInstructionFinalizedEvent ==
  /\ Handling({"Executed", "Failed", "Locked"})
  /\ Has(inst, e.i)
  /\ inst' = [inst EXCEPT ![e.i].status = instructionStatusMap[e.kind]]
  /\ UNCHANGED <<party, aff, receipt, revived>>

handleInstructionMediators ==
  /\ Handling({"Mediators"})
  /\ Has(inst, e.i)
  /\ inst' = [inst EXCEPT ![e.i].mediators = Mediators[e.i]]
  /\ party' = SaveAll(party, [id \in {PartyId(e.i, did, TRUE) : did \in Mediators[e.i]}
                                |-> {NoNumber}])
  /\ UNCHANGED <<aff, receipt, revived>>

handleMediatorAffirmationReceived ==
  /\ Handling({"MediatorAffirmed"})
  /\ aff' = Save(aff, PartyId(e.i, e.did, TRUE),
                 [status |-> "Affirmed", portfolios |-> << >>])
  /\ UNCHANGED <<inst, party, receipt, revived>>

handleMediatorAffirmationWithdrawn ==
  /\ Handling({"MediatorWithdrawn"})
  /\ aff' = Delete(aff, {PartyId(e.i, e.did, TRUE)})
  /\ UNCHANGED <<inst, party, receipt, revived>>

\* The receipt's affirmation has an id of its own; the party is added when the
\* legs did not name it.
handleReceiptClaimed ==
  /\ Handling({"Receipt"})
  /\ LET id == PartyId(e.i, e.did, FALSE)
     IN /\ receipt' = receipt \union {id}
        /\ party' = IF Has(party, id) THEN party ELSE Save(party, id, {NoNumber})
  /\ UNCHANGED <<inst, aff, revived>>

Pallet ==
  \E i \in Instr :
    \/ \E auto \in SUBSET OnChain(i) : Create(i, auto)
    \/ \E s \in OnChain(i) : Affirm(i, s) \/ Withdraw(i, s)
    \/ \E did \in Dids : Mediate(i, did) \/ Unmediate(i, did)
                         \/ Claim(i, did) \/ Reject(i, did)
    \/ \E status \in {"Executed", "Failed", "Locked"} : Finalize(i, status)

Handlers ==
  \/ handleInstructionCreated \/ handleInstructionUpdate
  \/ handleAutomaticAffirmation \/ handleAffirmationWithdrawn
  \/ handleInstructionRejected \/ handleInstructionFinalizedEvent
  \/ handleInstructionMediators \/ handleMediatorAffirmationReceived
  \/ handleMediatorAffirmationWithdrawn \/ handleReceiptClaimed

Next == Pallet \/ Seal \/ Handlers

Spec == Init /\ [][Next]_vars

-----------------------------------------------------------------------------
(* Properties.                                                             *)

\* All events of the last block are handled, and the next has none yet.
CaughtUp == block = << >>

\* Between blocks every instruction of the chain has its row, with the status
\* the chain gives it.
StatusMirrorsChain ==
  CaughtUp => \A i \in Instr :
                IF cStatus[i] = "None" THEN ~Has(inst, i)
                ELSE Has(inst, i) /\ inst[i].status = cStatus[i]

StandingNumbers(i, did) ==
  {Number(s[2]) : s \in {t \in cAffirmed[i] : t[1] = did}}

\* "Represents affirmations received on an Instruction": while an instruction
\* is open or locked, a party has an affirmation row exactly when one of its
\* holdings stands affirmed on the chain, with exactly those portfolios.
AffirmationMirrorsChain(i, did) ==
  cStatus[i] \in {"Created", "Failed", "Locked"} =>
    LET id == PartyId(i, did, FALSE)
        standing == StandingNumbers(i, did)
    IN /\ Has(aff, id) <=> standing # {}
       /\ Has(aff, id) => ToSet(aff[id].portfolios) = standing

AffirmationsMirrorChain ==
  CaughtUp => \A i \in Instr, did \in Dids : AffirmationMirrorsChain(i, did)

\* The same for the parties with a single holding in the legs, on every chain:
\* but an affirmation that was withdrawn is shown all the same when a handler
\* has brought its row back since.
SingleHoldingsMirrorChain ==
  CaughtUp => \A i \in Instr, did \in Dids :
    Cardinality({s \in OnChain(i) : s[1] = did}) <= 1
    /\ cStatus[i] \in {"Created", "Failed", "Locked"} =>
      LET id == PartyId(i, did, FALSE)
          standing == StandingNumbers(i, did)
      IN /\ Has(aff, id) <=> standing # {} \/ id \in revived
         /\ standing # {} => ToSet(aff[id].portfolios) = standing

\* The same for mediators and for claimed receipts.
MediatorsMirrorChain ==
  CaughtUp => \A i \in Instr :
    cStatus[i] \in {"Created", "Failed", "Locked"} =>
      /\ inst[i].mediators = Mediators[i]
      /\ {did \in Dids : Has(aff, PartyId(i, did, TRUE))} = cMediated[i]
      /\ {did \in Dids : PartyId(i, did, FALSE) \in receipt} = cClaimed[i]

\* "party: InstructionParty!": between blocks each affirmation and receipt
\* refers to the row of a party, whichever order the events came in.
AffirmationHasParty ==
  CaughtUp => DOMAIN aff \union receipt \subseteq DOMAIN party

\* A rejected instruction shows one rejection, by a party or by a mediator of
\* it, and the affirmation that the same DID gave before is gone.
OneRejection ==
  CaughtUp => \A i \in Instr :
    Cardinality({id \in DOMAIN aff : id[1] = i /\ aff[id].status = "Rejected"})
      = IF cStatus[i] = "Rejected" THEN 1 ELSE 0

\* "`portfolios` depicts which portfolios for the identity are involved in the
\* instructions": a party lists every portfolio of its legs.
PartyListsPortfolios ==
  \A i \in DOMAIN inst : \A s \in OnChain(i) :
    s[2] \in Portfolio => s[2] \in party[PartyId(i, s[1], FALSE)]

\* A handler that reads the row of an instruction finds it.
InstructionKnown ==
  (pos > 0 /\ e.kind \in {"Rejected", "Executed", "Failed", "Locked", "Mediators"})
    => Has(inst, e.i)
=============================================================================
