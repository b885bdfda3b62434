-------------------------- MODULE SettlementProofs --------------------------
(***************************************************************************)
(* Proofs about Settlement, for every set of instructions, legs, mediators *)
(* and chains, and for blocks of any length: whatever the pallet deposits  *)
(* in a block, in whatever order the handlers then see it, the rows of     *)
(* instructions, parties, mediators and receipts are those of the pallet   *)
(* when the block is done, a rejected instruction has one rejection, and   *)
(* no handler misses the row it reads.                                     *)
(***************************************************************************)
EXTENDS Settlement, FoldProofs, TLAPS, FiniteSetTheorems, SequenceTheorems,
        WellFoundedInduction

Kinds ==
  {"Created", "Mediators", "Auto", "Affirmed", "Withdrawn", "Unauthorized",
   "MediatorAffirmed", "MediatorWithdrawn", "Receipt",
   "Rejected", "Executed", "Failed", "Locked"}
StatusKinds == {"Created", "Rejected", "Executed", "Failed", "Locked"}
MediatorKinds == {"MediatorAffirmed", "MediatorWithdrawn"}
Statuses == StatusKinds \union {"None"}
\* Those an instruction can have before its end.
Live == {"None", "Created", "Failed", "Locked"}

PartyRow(i, did) == PartyId(i, did, FALSE)
MediatorRow(i, did) == PartyId(i, did, TRUE)

Parties == [i \in Instr |-> PartyDids(i)]
Holds == {OffChain, NoNumber} \union UNION {{s[2] : s \in AllSides(i)} : i \in Instr}
Recorded == [kind : Kinds, i : Instr, did : Dids \union {NoDid}, hold : Holds]

\* The places of the events that are still to be handled.
Coming == {n \in 1..Len(block) : n >= pos}

Types ==
  /\ setup \in Setups
  /\ block \in Seq(Recorded) /\ pos \in 0..Len(block)
  /\ cStatus \in [Instr -> Statuses]
  /\ cMediated \in [Instr -> SUBSET Dids]
  /\ \A i \in Instr : cMediated[i] \subseteq Mediators[i]
  /\ cClaimed \in [Instr -> SUBSET Dids]
  /\ \A i \in Instr : cClaimed[i] \subseteq Parties[i]
  /\ DOMAIN inst \subseteq Instr
  /\ \A i \in DOMAIN inst : inst[i] \in [status : Statuses, mediators : SUBSET Dids]

\* What the pallet guarantees of an event, when it is deposited and after: the
\* instruction exists, the DID has the role the event is about, and nothing
\* follows a rejection.
EventsTrue ==
  \A n \in 1..Len(block) :
    LET a == block[n]
    IN /\ cStatus[a.i] # "None"
       /\ a.kind \in {"Auto", "Affirmed", "Withdrawn", "Unauthorized", "Receipt"} =>
            a.did \in Parties[a.i]
       /\ a.kind \in MediatorKinds => a.did \in Mediators[a.i]
       /\ a.kind = "Rejected" =>
            cStatus[a.i] = "Rejected" /\ a.did \in Parties[a.i] \union Mediators[a.i]

\* The last status event that is still to come leads to the status the pallet
\* gives the instruction, and when none is to come the row has it.
StatusTold ==
  \A i \in Instr :
    LET told == {n \in Coming : block[n].i = i /\ block[n].kind \in StatusKinds}
    IN /\ told = {} => IF cStatus[i] = "None" THEN ~Has(inst, i)
                       ELSE Has(inst, i) /\ inst[i].status = cStatus[i]
       /\ \A n \in told : (\A m \in told : m <= n) => block[n].kind = cStatus[i]

\* An instruction is created once, its row comes with the rows of its parties,
\* and what refers to the row comes after it.
Opened ==
  /\ \A i \in DOMAIN inst :
       cStatus[i] # "None" /\ \A did \in Parties[i] : Has(party, PartyRow(i, did))
  /\ \A i \in Instr : cStatus[i] # "None" =>
       Has(inst, i) \/ \E m \in Coming : block[m].i = i /\ block[m].kind = "Created"
  /\ \A n \in Coming : block[n].kind = "Created" =>
       /\ ~Has(inst, block[n].i)
       /\ \A m \in Coming : block[m].i = block[n].i /\ block[m].kind = "Created" => m = n
  /\ \A n \in Coming : block[n].kind \notin {"Created", "Auto"} =>
       \/ Has(inst, block[n].i)
       \/ \E m \in Coming : m < n /\ block[m].i = block[n].i /\ block[m].kind = "Created"

\* The instructions whose row has the mediators, and whose mediators have rows.
Announced ==
  {i \in DOMAIN inst : inst[i].mediators = Mediators[i]
                       /\ \A did \in Mediators[i] : Has(party, MediatorRow(i, did))}

\* The event that completes the row.
Opener(mediators) == IF mediators = {} THEN "Created" ELSE "Mediators"

\* An instruction is complete before it is rejected: the handler tells by the
\* row whether it is a mediator that rejects.
Introduced ==
  /\ \A i \in Instr : cStatus[i] # "None" =>
       \/ i \in Announced
       \/ \E m \in Coming : block[m].i = i /\ block[m].kind = Opener(Mediators[i])
  /\ \A n \in Coming : block[n].kind = "Rejected" =>
       \/ block[n].i \in Announced
       \/ \E m \in Coming : /\ m < n /\ block[m].i = block[n].i
                            /\ block[m].kind = Opener(Mediators[block[n].i])

\* Affirmations and receipts are those of a party or a mediator.
Owned ==
  \A id \in DOMAIN aff \union receipt :
    \E i \in Instr :
      /\ cStatus[i] # "None"
      /\ \/ \E did \in Parties[i] : id = PartyRow(i, did)
         \/ \E did \in Mediators[i] : id = MediatorRow(i, did)

\* As StatusTold, of the affirmation of a mediator.
MediatorsTold ==
  \A i \in Instr, did \in Dids : cStatus[i] \in Live =>
    LET told == {n \in Coming : /\ block[n].i = i /\ block[n].did = did
                                /\ block[n].kind \in MediatorKinds}
    IN /\ told = {} => (Has(aff, MediatorRow(i, did)) <=> did \in cMediated[i])
       /\ \A n \in told : (\A m \in told : m <= n) =>
            (block[n].kind = "MediatorAffirmed" <=> did \in cMediated[i])

\* A receipt that is claimed has its row, or its event is still to come.
ReceiptsTold ==
  \A i \in Instr, did \in Dids :
    did \in cClaimed[i] <=>
      \/ PartyRow(i, did) \in receipt
      \/ \E n \in Coming : /\ block[n].i = i /\ block[n].did = did
                           /\ block[n].kind = "Receipt"

IInv ==
  /\ Types /\ EventsTrue
  /\ StatusTold
  /\ Opened /\ Introduced /\ Owned
  /\ MediatorsTold /\ ReceiptsTold
-----------------------------------------------------------------------------
\* Before the first event there is nothing to tell.
LEMMA InitInv == Init => IInv
<1> SUFFICES ASSUME Init PROVE IInv
  OBVIOUS
<1> USE DEF Init, NoTable, Has
<1>1. Coming = {} /\ DOMAIN inst = {} /\ DOMAIN aff = {} /\ receipt = {} /\ Len(block) = 0
  BY DEF Coming
<1>2. Types
  BY DEF Types, Statuses
<1>3. EventsTrue
  BY DEF EventsTrue
<1>4. StatusTold
  BY <1>1 DEF StatusTold
<1>5. Opened /\ Introduced /\ Owned
  BY <1>1 DEF Opened, Introduced, Owned
<1>6. MediatorsTold /\ ReceiptsTold
  BY <1>1 DEF MediatorsTold, ReceiptsTold
<1> QED  BY <1>2, <1>3, <1>4, <1>5, <1>6 DEF IInv

\* What depends on the setup only.
LEMMA SetupStays ==
  ASSUME setup' = setup
  PROVE  /\ Instr' = Instr /\ Dids' = Dids /\ Mediators' = Mediators
         /\ Parties' = Parties /\ Recorded' = Recorded
<1> USE DEF Legs, Instr, Mediators
<1>1. Instr' = Instr /\ Mediators' = Mediators
  OBVIOUS
<1>2. Parties' = Parties
  BY DEF Parties, PartyDids, AllSides
<1>3. Dids' = Dids
  BY DEF Dids, PartyDids, AllSides
<1>4. Holds' = Holds
  BY DEF Holds, AllSides
<1> QED  BY <1>1, <1>2, <1>3, <1>4 DEF Recorded

\* An id tells the instruction, the DID and the role apart.
LEMMA PartyIdDistinct ==
  ASSUME NEW i, NEW j, NEW d, NEW f
  PROVE  /\ MediatorRow(i, d) # PartyRow(j, f)
         /\ MediatorRow(i, d) = MediatorRow(j, f) => i = j /\ d = f
         /\ PartyRow(i, d) = PartyRow(j, f) => i = j /\ d = f
<1> USE DEF PartyRow, MediatorRow
<1>1. \A b : PartyId(i, d, b) = PartyId(j, f, b) => i = j /\ d = f
  BY DEF PartyId
<1>2. PICK no : no = FALSE
  OBVIOUS
<1>3. PartyRow(i, d) = PartyRow(j, f) => i = j /\ d = f
  BY <1>1, <1>2
<1>4. MediatorRow(i, d) # PartyRow(j, f)
  BY DEF PartyId
<1>5. MediatorRow(i, d) = MediatorRow(j, f) => i = j /\ d = f
  BY DEF PartyId
<1> QED  BY <1>3, <1>4, <1>5

\* The events of an operation come after those there are.
LEMMA DepositFacts ==
  ASSUME Types, NEW events \in Seq(Recorded), Deposit(events)
  PROVE  /\ pos = 0 /\ pos' = 0 /\ UNCHANGED <<setup, tables>>
         /\ block' \in Seq(Recorded) /\ Len(block') = Len(block) + Len(events)
         /\ Len(block) \in Nat /\ Len(events) \in Nat
         /\ \A n \in 1..Len(block) : block'[n] = block[n]
         /\ \A n \in 1..Len(events) : block'[Len(block) + n] = events[n]
         /\ Coming = 1..Len(block)
         /\ Coming' = 1..Len(block')
         /\ \A n \in Coming' : n \in Coming \/ n - Len(block) \in 1..Len(events)
<1>1. /\ pos = 0 /\ pos' = 0 /\ block' = block \o events
      /\ UNCHANGED <<setup, tables>>
  BY DEF Deposit
<1>2. block \in Seq(Recorded)
  BY DEF Types
<1>3. /\ block' \in Seq(Recorded) /\ Len(block') = Len(block) + Len(events)
      /\ \A n \in 1..Len(block) + Len(events) :
           block'[n] = IF n <= Len(block) THEN block[n] ELSE events[n - Len(block)]
  BY <1>1, <1>2, ConcatProperties, Zenon
<1>4. Len(block) \in Nat /\ Len(events) \in Nat
  BY <1>2
<1>5. Coming = 1..Len(block) /\ Coming' = 1..Len(block')
  BY <1>1, <1>3, <1>4 DEF Coming
<1>6. ASSUME NEW n \in 1..Len(events) PROVE block'[Len(block) + n] = events[n]
  BY <1>3, <1>4
<1>7. \A n \in Coming' : n \in Coming \/ n - Len(block) \in 1..Len(events)
  BY <1>3, <1>4, <1>5
<1> QED  BY <1>1, <1>3, <1>4, <1>5, <1>6, <1>7

\* A handler takes the first event that is still to come.
LEMMA HandlingFacts ==
  ASSUME Types, NEW kinds, Handling(kinds)
  PROVE  /\ UNCHANGED <<setup, pallet>>
         /\ pos \in Coming /\ e = block[pos] /\ e \in Recorded /\ e.kind \in kinds
         /\ block' \in Seq(Recorded) /\ pos' \in 0..Len(block')
         /\ Coming' = Coming \ {pos}
         /\ \A n \in Coming : n >= pos
         /\ Coming \subseteq 1..Len(block) /\ Len(block) \in Nat
         /\ \A n \in Coming' : block'[n] = block[n]
         /\ \A n \in 1..Len(block') : n \in 1..Len(block) /\ block'[n] = block[n]
<1>1. /\ UNCHANGED <<setup, pallet>> /\ pos > 0 /\ e.kind \in kinds
      /\ IF pos = Len(block) THEN pos' = 0 /\ block' = << >>
                             ELSE pos' = pos + 1 /\ UNCHANGED block
  BY DEF Handling
<1>2. block \in Seq(Recorded) /\ pos \in 1..Len(block) /\ Len(block) \in Nat
  BY <1>1 DEF Types
<1>3. CASE pos = Len(block)
  BY <1>1, <1>2, <1>3 DEF Coming, e
<1>4. CASE pos # Len(block)
  BY <1>1, <1>2, <1>4 DEF Coming, e
<1> QED  BY <1>3, <1>4

-----------------------------------------------------------------------------
(* What an operation of the pallet does, in terms of its events.           *)

\* Every operation but the creation deposits one event, of an instruction that
\* is open or locked.
Single(i, a) ==
  /\ a \in Recorded /\ a.i = i /\ Deposit(<<a>>)
  /\ cStatus[i] \in {"Created", "Failed", "Locked"}
  /\ a.kind \notin {"Created", "Mediators", "Auto"}
  /\ a.kind \in StatusKinds => cStatus' = [cStatus EXCEPT ![i] = a.kind]
  /\ a.kind \notin StatusKinds => cStatus' = cStatus
  /\ a.kind = "MediatorAffirmed" => cMediated' = [cMediated EXCEPT ![i] = @ \union {a.did}]
  /\ a.kind = "MediatorWithdrawn" => cMediated' = [cMediated EXCEPT ![i] = @ \ {a.did}]
  /\ a.kind \notin MediatorKinds => cMediated' = cMediated
  /\ a.kind = "Receipt" => cClaimed' = [cClaimed EXCEPT ![i] = @ \union {a.did}]
  /\ a.kind # "Receipt" => cClaimed' = cClaimed
  /\ a.kind \in {"Affirmed", "Withdrawn", "Unauthorized", "Receipt"} => a.did \in Parties[i]
  /\ a.kind \in MediatorKinds => a.did \in Mediators[i]
  /\ a.kind = "Rejected" => a.did \in Parties[i] \union Mediators[i]

\* The creation deposits the instruction's own events and those of automatic
\* affirmations, after or before them.
Creation(i, events) ==
  /\ events \in Seq(Recorded) /\ Deposit(events)
  /\ cStatus[i] = "None" /\ cStatus' = [cStatus EXCEPT ![i] = "Created"]
  /\ UNCHANGED <<cMediated, cClaimed>>
  /\ \A n \in 1..Len(events) :
       /\ events[n].i = i
       /\ events[n].kind \in {"Created", "Mediators", "Auto"}
       /\ events[n].kind = "Auto" => events[n].did \in Parties[i]
  /\ \E c \in 1..Len(events) :
       /\ events[c].kind = "Created"
       /\ \A n \in 1..Len(events) : events[n].kind = "Created" => n = c
       /\ \A n \in 1..Len(events) : events[n].kind = "Mediators" => n > c
  /\ \E m \in 1..Len(events) : events[m].kind = Opener(Mediators[i])

\* An identity with a side of a leg is a party.
LEMMA SideFacts ==
  ASSUME NEW i \in Instr
  PROVE  /\ \A s \in OnChain(i) : s[1] \in Parties[i] /\ s[2] \in Holds
         /\ Claimants(i) \subseteq Parties[i]
         /\ Parties[i] \subseteq Dids /\ Mediators[i] \subseteq Dids
         /\ Parties[i] = PartyDids(i)
<1>1. Parties[i] = PartyDids(i)
  BY DEF Parties
<1>2. \A s \in OnChain(i) : s[1] \in PartyDids(i) /\ s[2] \in Holds
  BY DEF OnChain, PartyDids, Holds
<1>3. Claimants(i) \subseteq PartyDids(i)
  <2> SUFFICES ASSUME NEW n \in DOMAIN Legs[i] PROVE Legs[i][n].from \in PartyDids(i)
    BY DEF Claimants
  <2>1. <<Legs[i][n].from, Legs[i][n].fromHold>> \in AllSides(i)
    BY DEF AllSides, Ends
  <2> QED  BY <2>1 DEF PartyDids
<1> QED  BY <1>1, <1>2, <1>3 DEF Dids

\* Every operation on an instruction that exists deposits a single event.
LEMMA SingleSteps ==
  ASSUME Types, NEW i \in Instr,
         \/ \E s \in OnChain(i) : Affirm(i, s) \/ Withdraw(i, s)
         \/ \E did \in Dids : Mediate(i, did) \/ Unmediate(i, did)
                              \/ Claim(i, did) \/ Reject(i, did)
         \/ \E status \in {"Executed", "Failed", "Locked"} : Finalize(i, status)
  PROVE  \E a : Single(i, a)
<1> USE DEF Single, StatusKinds, MediatorKinds
<1>0. /\ cStatus \in [Instr -> Statuses] /\ cMediated \in [Instr -> SUBSET Dids]
      /\ cMediated[i] \subseteq Mediators[i]
  BY DEF Types
<1>a. ASSUME NEW kind \in Kinds, NEW did \in Dids \union {NoDid}, NEW hold \in Holds
      PROVE  LET a == Event(kind, i, did, hold)
             IN a \in Recorded /\ a.i = i /\ a.kind = kind /\ a.did = did
  BY DEF Event, Recorded
<1>b. NoNumber \in Holds /\ OffChain \in Holds
  BY DEF Holds
<1>1. ASSUME NEW s \in OnChain(i), Affirm(i, s) PROVE \E a : Single(i, a)
  <2>1. Single(i, Event("Affirmed", i, s[1], s[2]))
    BY <1>0, <1>1, <1>a, SideFacts DEF Affirm, Open, Kinds, Types
  <2> QED  BY <2>1
<1>2. ASSUME NEW s \in OnChain(i), Withdraw(i, s) PROVE \E a : Single(i, a)
  <2> DEFINE kind == IF Era = "unauthorize" THEN "Unauthorized" ELSE "Withdrawn"
  <2>1. Single(i, Event(kind, i, s[1], s[2]))
    BY <1>0, <1>2, <1>a, SideFacts DEF Withdraw, Open, Kinds
  <2> QED  BY <2>1
<1>3. ASSUME NEW did \in Dids, Mediate(i, did)
      PROVE  \E a : Single(i, a)
  <2>1. PICK a \in Recorded : /\ a = Event("MediatorAffirmed", i, did, NoNumber)
                              /\ a.i = i /\ a.kind = "MediatorAffirmed" /\ a.did = did
    BY <1>a, <1>b DEF Kinds
  <2>2. /\ Deposit(<<a>>) /\ cMediated' = [cMediated EXCEPT ![i] = @ \union {a.did}]
    BY <1>3, <2>1 DEF Mediate
  <2>3. Single(i, a)
    BY <1>0, <1>3, <2>1, <2>2 DEF Mediate, Open
  <2> QED  BY <2>3
<1>4. ASSUME NEW did \in Dids, Unmediate(i, did)
      PROVE  \E a : Single(i, a)
  <2>1. PICK a \in Recorded : /\ a = Event("MediatorWithdrawn", i, did, NoNumber)
                              /\ a.i = i /\ a.kind = "MediatorWithdrawn" /\ a.did = did
    BY <1>a, <1>b DEF Kinds
  <2>2. /\ Deposit(<<a>>) /\ cMediated' = [cMediated EXCEPT ![i] = @ \ {a.did}]
    BY <1>4, <2>1 DEF Unmediate
  <2>3. Single(i, a)
    BY <1>0, <1>4, <2>1, <2>2 DEF Unmediate, Open
  <2> QED  BY <2>3
<1>5. ASSUME NEW did \in Dids, Claim(i, did)
      PROVE  \E a : Single(i, a)
  <2>1. PICK a \in Recorded : /\ a = Event("Receipt", i, did, OffChain)
                              /\ a.i = i /\ a.kind = "Receipt" /\ a.did = did
    BY <1>a, <1>b DEF Kinds
  <2>2. /\ Deposit(<<a>>) /\ cClaimed' = [cClaimed EXCEPT ![i] = @ \union {a.did}]
    BY <1>5, <2>1 DEF Claim
  <2>3. Single(i, a)
    BY <1>0, <1>5, <2>1, <2>2, SideFacts DEF Claim, Open
  <2> QED  BY <2>3
<1>6. ASSUME NEW did \in Dids, Reject(i, did)
      PROVE  \E a : Single(i, a)
  <2>1. PICK a \in Recorded : /\ a = Event("Rejected", i, did, NoNumber)
                              /\ a.i = i /\ a.kind = "Rejected" /\ a.did = did
    BY <1>a, <1>b DEF Kinds
  <2>2. /\ Deposit(<<a>>) /\ cStatus' = [cStatus EXCEPT ![i] = a.kind]
    BY <1>6, <2>1 DEF Reject
  <2>3. Single(i, a)
    BY <1>0, <1>6, <2>1, <2>2, SideFacts DEF Reject, Open
  <2> QED  BY <2>3
<1>7. ASSUME NEW status \in {"Executed", "Failed", "Locked"}, Finalize(i, status)
      PROVE  \E a : Single(i, a)
  <2>1. PICK a \in Recorded : /\ a = Event(status, i, NoDid, NoNumber)
                              /\ a.i = i /\ a.kind = status /\ a.did = NoDid
    BY <1>a, <1>b DEF Kinds
  <2>2. /\ Deposit(<<a>>) /\ cStatus' = [cStatus EXCEPT ![i] = a.kind]
    BY <1>7, <2>1 DEF Finalize
  <2>3. Single(i, a)
    BY <1>0, <1>7, <2>1, <2>2 DEF Finalize, Open
  <2> QED  BY <2>3
<1> QED  BY <1>1, <1>2, <1>3, <1>4, <1>5, <1>6, <1>7

\* An instruction has finitely many sides, so that a sequence lists them.
LEMMA SidesFinite ==
  ASSUME setup \in Setups, NEW i \in Instr
  PROVE  IsFiniteSet(AllSides(i))
<1> DEFINE ends == [n \in DOMAIN Legs[i] |-> Ends(Legs[i][n])]
           all == {Ends(Legs[i][n]) : n \in DOMAIN Legs[i]}
<1>1. IsFiniteSet(DOMAIN Legs[i])
  BY SetupAssumption DEF Legs, Instr
<1>2. ends \in Surjection(DOMAIN Legs[i], all)
  BY DEF Surjection
<1>3. IsFiniteSet(all)
  BY <1>1, <1>2, FS_Surjection
<1>4. \A T \in all : IsFiniteSet(T)
  <2> SUFFICES ASSUME NEW n \in DOMAIN Legs[i] PROVE IsFiniteSet(Ends(Legs[i][n]))
    OBVIOUS
  <2>1. \A x, y : IsFiniteSet({x, y})
    <3> SUFFICES ASSUME NEW x, NEW y PROVE IsFiniteSet({x, y})
      OBVIOUS
    <3>1. IsFiniteSet({x}) /\ {x, y} = {x} \union {y}
      BY FS_Singleton
    <3> QED  BY <3>1, FS_AddElement
  <2> QED  BY <2>1 DEF Ends
<1> HIDE DEF all
<1>5. IsFiniteSet(UNION all)
  BY <1>3, <1>4, FS_UNION
<1> QED  BY <1>5 DEF AllSides, all

\* The sequence that lists a finite set has its members.
LEMMA SetToSeqFacts ==
  ASSUME NEW S, IsFiniteSet(S)
  PROVE  Cardinality(S) \in Nat /\ SetToSeq(S) \in [1..Cardinality(S) -> S]
<1>1. Cardinality(S) \in Nat /\ ExistsBijection(1..Cardinality(S), S)
  BY FS_CardinalityType
<1>2. \E f \in [1..Cardinality(S) -> S] : IsInjective(f)
  BY <1>1 DEF ExistsBijection, Bijection, Injection, Surjection, IsInjective
<1> QED  BY <1>1, <1>2 DEF SetToSeq

\* Where the automatic affirmations come in the block is a matter of the era.
LEMMA CreationSteps ==
  ASSUME Types, NEW i \in Instr, NEW auto \in SUBSET OnChain(i), Create(i, auto)
  PROVE  \E events : Creation(i, events)
<1> DEFINE opening == Event("Created", i, NoDid, NoNumber)
           naming == Event("Mediators", i, NoDid, NoNumber)
           created == <<opening>> \o (IF Mediators[i] = {} THEN << >> ELSE <<naming>>)
           list == SetToSeq(auto)
           autos == [n \in DOMAIN list |-> Event("Auto", i, list[n][1], list[n][2])]
           events == IF Era = "early" THEN autos \o created ELSE created \o autos
<1>1. Deposit(events)
  BY DEF Create
<1>2. /\ cStatus[i] = "None" /\ cStatus' = [cStatus EXCEPT ![i] = "Created"]
      /\ UNCHANGED <<cMediated, cClaimed>>
  BY DEF Create
<1>3. /\ opening \in Recorded /\ opening.i = i /\ opening.kind = "Created"
      /\ naming \in Recorded /\ naming.i = i /\ naming.kind = "Mediators"
  BY DEF Recorded, Event, Holds, Kinds
<1>4. list \in [1..Cardinality(auto) -> auto] /\ Cardinality(auto) \in Nat
  <2>1. IsFiniteSet(auto)
    BY SidesFinite, FS_Subset DEF Types, OnChain
  <2> QED  BY <2>1, SetToSeqFacts
<1>5. /\ autos \in Seq(Recorded) /\ Len(autos) = Cardinality(auto)
      /\ \A n \in 1..Len(autos) : /\ autos[n].i = i /\ autos[n].kind = "Auto"
                                  /\ autos[n].did \in Parties[i]
  <2>1. ASSUME NEW n \in 1..Cardinality(auto)
        PROVE  LET a == Event("Auto", i, list[n][1], list[n][2])
               IN a \in Recorded /\ a.i = i /\ a.kind = "Auto" /\ a.did \in Parties[i]
    <3>1. list[n] \in OnChain(i)
      BY <1>4
    <3>2. list[n][1] \in Parties[i] /\ list[n][1] \in Dids /\ list[n][2] \in Holds
      BY <3>1, SideFacts
    <3> QED  BY <3>2 DEF Recorded, Event, Kinds
  <2>2. DOMAIN list = 1..Cardinality(auto)
    BY <1>4
  <2> HIDE DEF list
  <2>3. autos \in [1..Cardinality(auto) -> Recorded]
    BY <2>1, <2>2
  <2> QED  BY <1>4, <2>1, <2>2, <2>3
<1>6. /\ created \in Seq(Recorded) /\ Len(created) = IF Mediators[i] = {} THEN 1 ELSE 2
      /\ created[1] = opening
      /\ Mediators[i] # {} => created[2] = naming
  <2> HIDE DEF opening, naming
  <2> QED  BY <1>3
<1> HIDE DEF created, autos, opening, naming
<1>7. CASE Era = "early"
  <2>1. /\ events \in Seq(Recorded) /\ Len(events) = Len(autos) + Len(created)
        /\ \A n \in 1..Len(autos) + Len(created) :
             events[n] = IF n <= Len(autos) THEN autos[n] ELSE created[n - Len(autos)]
    BY <1>5, <1>6, <1>7, ConcatProperties
  <2> HIDE DEF events
  <2>2. Len(autos) \in Nat
    BY <1>5
  <2>3. /\ events[Len(autos) + 1] = opening
        /\ Mediators[i] # {} => events[Len(autos) + 2] = naming
    BY <1>6, <2>1, <2>2
  <2>4. \A n \in 1..Len(events) :
          \/ n \in 1..Len(autos) /\ events[n] = autos[n]
          \/ n = Len(autos) + 1
          \/ n = Len(autos) + 2 /\ Mediators[i] # {}
    BY <1>6, <2>1, <2>2
  <2>5. Len(events) = Len(autos) + IF Mediators[i] = {} THEN 1 ELSE 2
    BY <1>6, <2>1
  <2>6. \A n \in 1..Len(events) :
          /\ events[n].i = i
          /\ events[n].kind \in {"Created", "Mediators", "Auto"}
          /\ events[n].kind = "Auto" => events[n].did \in Parties[i]
          /\ events[n].kind = "Created" => n = Len(autos) + 1
          /\ events[n].kind = "Mediators" => n = Len(autos) + 2
    BY <1>3, <1>5, <2>3, <2>4
  <2>7. /\ Len(autos) + 1 \in 1..Len(events) /\ events[Len(autos) + 1].kind = "Created"
        /\ Len(autos) + 2 > Len(autos) + 1
        /\ Mediators[i] # {} => Len(autos) + 2 \in 1..Len(events) /\ events[Len(autos) + 2].kind = "Mediators"
    BY <1>3, <2>2, <2>3, <2>5
  <2>8. \E m \in 1..Len(events) : events[m].kind = Opener(Mediators[i])
    BY <2>7 DEF Opener
  <2>9. \E c \in 1..Len(events) :
          /\ events[c].kind = "Created"
          /\ \A n \in 1..Len(events) : events[n].kind = "Created" => n = c
          /\ \A n \in 1..Len(events) : events[n].kind = "Mediators" => n > c
    BY <2>6, <2>7
  <2> QED  BY <1>1, <1>2, <2>1, <2>6, <2>8, <2>9 DEF Creation
<1>8. CASE Era # "early"
  <2>1. /\ events \in Seq(Recorded) /\ Len(events) = Len(created) + Len(autos)
        /\ \A n \in 1..Len(created) + Len(autos) :
             events[n] = IF n <= Len(created) THEN created[n] ELSE autos[n - Len(created)]
    BY <1>5, <1>6, <1>8, ConcatProperties
  <2> HIDE DEF events
  <2>2. Len(autos) \in Nat
    BY <1>5
  <2>3. events[1] = opening /\ (Mediators[i] # {} => events[2] = naming)
    BY <1>6, <2>1, <2>2
  <2>4. \A n \in 1..Len(events) :
          \/ n = 1
          \/ n = 2 /\ Mediators[i] # {}
          \/ n - Len(created) \in 1..Len(autos) /\ events[n] = autos[n - Len(created)]
    BY <1>6, <2>1, <2>2
  <2>5. Len(events) = Len(autos) + IF Mediators[i] = {} THEN 1 ELSE 2
    BY <1>6, <2>1, <2>2
  <2>6. \A n \in 1..Len(events) :
          /\ events[n].i = i
          /\ events[n].kind \in {"Created", "Mediators", "Auto"}
          /\ events[n].kind = "Auto" => events[n].did \in Parties[i]
          /\ events[n].kind = "Created" => n = 1
          /\ events[n].kind = "Mediators" => n = 2
    BY <1>3, <1>5, <2>3, <2>4
  <2>7. /\ 1 \in 1..Len(events) /\ events[1].kind = "Created"
        /\ 2 > 1
        /\ Mediators[i] # {} => 2 \in 1..Len(events) /\ events[2].kind = "Mediators"
    BY <1>3, <2>2, <2>3, <2>5
  <2>8. \E m \in 1..Len(events) : events[m].kind = Opener(Mediators[i])
    BY <2>7 DEF Opener
  <2>9. \E c \in 1..Len(events) :
          /\ events[c].kind = "Created"
          /\ \A n \in 1..Len(events) : events[n].kind = "Created" => n = c
          /\ \A n \in 1..Len(events) : events[n].kind = "Mediators" => n > c
    BY <2>6, <2>7
  <2> QED  BY <1>1, <1>2, <2>1, <2>6, <2>8, <2>9 DEF Creation
<1> QED  BY <1>7, <1>8

-----------------------------------------------------------------------------
(* An operation of the pallet keeps the invariant.                         *)

\* The one event of an operation is the last of those to come.
LEMMA SingleFacts ==
  ASSUME Types, NEW i \in Instr, NEW a, Single(i, a)
  PROVE  LET last == Len(block) + 1
         IN /\ UNCHANGED <<setup, tables>>
            /\ pos' = 0 /\ block' \in Seq(Recorded)
            /\ last \notin Coming /\ Coming' = Coming \union {last}
            /\ Coming = 1..Len(block) /\ Coming' = 1..Len(block')
            /\ block'[last] = a
            /\ \A n \in Coming : n < last /\ block'[n] = block[n]
<1>1. PICK events \in Seq(Recorded) : Deposit(events) /\ Len(events) = 1 /\ events[1] = a
  <2>1. /\ <<a>> \in Seq(Recorded) /\ Deposit(<<a>>)
        /\ Len(<<a>>) = 1 /\ <<a>>[1] = a
    BY DEF Single
  <2> QED  BY <2>1
<1>2. /\ pos = 0 /\ pos' = 0 /\ UNCHANGED <<setup, tables>>
      /\ block' \in Seq(Recorded) /\ Len(block') = Len(block) + Len(events)
      /\ Len(block) \in Nat
      /\ \A n \in 1..Len(block) : block'[n] = block[n]
      /\ \A n \in 1..Len(events) : block'[Len(block) + n] = events[n]
      /\ Coming = 1..Len(block)
      /\ Coming' = 1..Len(block')
  BY <1>1, DepositFacts, Zenon
<1>3. Len(block') = Len(block) + 1 /\ block'[Len(block) + 1] = a
  BY <1>1, <1>2
<1> QED  BY <1>2, <1>3

\* The pallet's own maps keep their types, and an ended instruction its status.
LEMMA SinglePallet ==
  ASSUME Types, NEW i \in Instr, NEW a, Single(i, a)
  PROVE  /\ cStatus' \in [Instr -> Statuses]
         /\ cMediated' \in [Instr -> SUBSET Dids] /\ cClaimed' \in [Instr -> SUBSET Dids]
         /\ \A j \in Instr : /\ cMediated'[j] \subseteq Mediators[j]
                             /\ cClaimed'[j] \subseteq Parties[j]
                             /\ cStatus[j] # "None" => cStatus'[j] # "None"
                             /\ cStatus[j] = "Rejected" => cStatus'[j] = "Rejected"
                             /\ cStatus'[j] \in Live => cStatus[j] \in Live
         /\ \A j \in Instr \ {i} : /\ cStatus'[j] = cStatus[j]
                                   /\ cMediated'[j] = cMediated[j]
                                   /\ cClaimed'[j] = cClaimed[j]
         /\ cStatus'[i] = IF a.kind \in StatusKinds THEN a.kind ELSE cStatus[i]
         /\ \A did : did \in cMediated'[i] <=>
              IF a.kind = "MediatorAffirmed" /\ a.did = did THEN TRUE
              ELSE IF a.kind = "MediatorWithdrawn" /\ a.did = did THEN FALSE
              ELSE did \in cMediated[i]
         /\ \A did : did \in cClaimed'[i] <=>
              did \in cClaimed[i] \/ (a.kind = "Receipt" /\ a.did = did)
<1> USE DEF Single, Types
<1>1. /\ a.did \in Mediators[i] => a.did \in Dids
      /\ a.did \in Parties[i] => a.did \in Dids
  BY SideFacts
<1>2. /\ cStatus' \in [Instr -> Statuses]
      /\ \A j \in Instr \ {i} : cStatus'[j] = cStatus[j]
      /\ cStatus'[i] = IF a.kind \in StatusKinds THEN a.kind ELSE cStatus[i]
  BY DEF Statuses
<1>3. \A j \in Instr : /\ cStatus[j] # "None" => cStatus'[j] # "None"
                       /\ cStatus[j] = "Rejected" => cStatus'[j] = "Rejected"
                       /\ cStatus'[j] \in Live => cStatus[j] \in Live
  BY <1>2 DEF Live, StatusKinds
<1>4. /\ cMediated' \in [Instr -> SUBSET Dids]
      /\ \A j \in Instr : cMediated'[j] \subseteq Mediators[j]
      /\ \A j \in Instr \ {i} : cMediated'[j] = cMediated[j]
      /\ \A did : did \in cMediated'[i] <=>
           IF a.kind = "MediatorAffirmed" /\ a.did = did THEN TRUE
           ELSE IF a.kind = "MediatorWithdrawn" /\ a.did = did THEN FALSE
           ELSE did \in cMediated[i]
  <2>1. CASE a.kind = "MediatorAffirmed"
    BY <1>1, <2>1 DEF MediatorKinds
  <2>2. CASE a.kind = "MediatorWithdrawn"
    BY <1>1, <2>2 DEF MediatorKinds
  <2>3. CASE a.kind \notin MediatorKinds
    BY <2>3 DEF MediatorKinds
  <2> QED  BY <2>1, <2>2, <2>3 DEF MediatorKinds
<1>5. /\ cClaimed' \in [Instr -> SUBSET Dids]
      /\ \A j \in Instr : cClaimed'[j] \subseteq Parties[j]
      /\ \A j \in Instr \ {i} : cClaimed'[j] = cClaimed[j]
      /\ \A did : did \in cClaimed'[i] <=>
           did \in cClaimed[i] \/ (a.kind = "Receipt" /\ a.did = did)
  <2>1. CASE a.kind = "Receipt"
    BY <1>1, <2>1
  <2>2. CASE a.kind # "Receipt"
    BY <2>2
  <2> QED  BY <2>1, <2>2
<1> QED  BY <1>2, <1>3, <1>4, <1>5

\* A single event keeps the invariant.
LEMMA SingleStep ==
  ASSUME IInv, NEW i \in Instr, NEW a, Single(i, a)
  PROVE  IInv'
<1> DEFINE last == Len(block) + 1
<1> USE DEF Has
<1>0. Types
  BY DEF IInv
<1>1. /\ UNCHANGED <<setup, tables>> /\ pos' = 0 /\ block' \in Seq(Recorded)
      /\ last \notin Coming /\ Coming' = Coming \union {last}
      /\ Coming = 1..Len(block) /\ Coming' = 1..Len(block')
      /\ block'[last] = a
      /\ \A n \in Coming : n < last /\ block'[n] = block[n]
  BY <1>0, SingleFacts
<1>2. /\ Instr' = Instr /\ Dids' = Dids /\ Mediators' = Mediators
      /\ Parties' = Parties /\ Recorded' = Recorded
      /\ inst' = inst /\ party' = party /\ aff' = aff /\ receipt' = receipt
  BY <1>1, SetupStays DEF tables
<1>3. /\ a \in Recorded /\ a.i = i
      /\ a.kind \notin {"Created", "Mediators", "Auto"}
      /\ cStatus[i] \in {"Created", "Failed", "Locked"}
      /\ a.kind \in {"Affirmed", "Withdrawn", "Unauthorized", "Receipt"} => a.did \in Parties[i]
      /\ a.kind \in MediatorKinds => a.did \in Mediators[i]
      /\ a.kind = "Rejected" => a.did \in Parties[i] \union Mediators[i]
  BY DEF Single
<1>4. /\ cStatus' \in [Instr -> Statuses]
      /\ cMediated' \in [Instr -> SUBSET Dids] /\ cClaimed' \in [Instr -> SUBSET Dids]
      /\ \A j \in Instr : /\ cMediated'[j] \subseteq Mediators[j]
                          /\ cClaimed'[j] \subseteq Parties[j]
                          /\ cStatus[j] # "None" => cStatus'[j] # "None"
                          /\ cStatus[j] = "Rejected" => cStatus'[j] = "Rejected"
                          /\ cStatus'[j] \in Live => cStatus[j] \in Live
      /\ \A j \in Instr \ {i} : /\ cStatus'[j] = cStatus[j]
                                /\ cMediated'[j] = cMediated[j]
                                /\ cClaimed'[j] = cClaimed[j]
      /\ cStatus'[i] = IF a.kind \in StatusKinds THEN a.kind ELSE cStatus[i]
      /\ \A did : did \in cMediated'[i] <=>
           IF a.kind = "MediatorAffirmed" /\ a.did = did THEN TRUE
           ELSE IF a.kind = "MediatorWithdrawn" /\ a.did = did THEN FALSE
           ELSE did \in cMediated[i]
      /\ \A did : did \in cClaimed'[i] <=>
           did \in cClaimed[i] \/ (a.kind = "Receipt" /\ a.did = did)
  BY <1>0, SinglePallet
<1>5. \A n \in Coming : block[n] \in Recorded /\ block[n].i \in Instr
  <2>1. \A n \in Coming : block[n] \in Recorded
    BY <1>0, <1>1 DEF Types
  <2> QED  BY <2>1 DEF Recorded
<1> HIDE DEF last
<1>6. Types'
  BY <1>0, <1>1, <1>2, <1>4 DEF Types
<1>7. EventsTrue'
  <2> SUFFICES ASSUME NEW n \in Coming'
               PROVE  LET b == block'[n]
                      IN /\ cStatus'[b.i] # "None"
                         /\ b.kind \in {"Auto", "Affirmed", "Withdrawn", "Unauthorized", "Receipt"} =>
                              b.did \in Parties[b.i]
                         /\ b.kind \in MediatorKinds => b.did \in Mediators[b.i]
                         /\ b.kind = "Rejected" =>
                              cStatus'[b.i] = "Rejected" /\ b.did \in Parties[b.i] \union Mediators[b.i]
    BY <1>1, <1>2 DEF EventsTrue
  <2>1. CASE n = last
    BY <1>1, <1>3, <1>4, <2>1 DEF StatusKinds
  <2>2. CASE n \in Coming
    BY <1>1, <1>4, <1>5, <2>2 DEF IInv, EventsTrue
  <2> QED  BY <1>1, <2>1, <2>2
<1>8. StatusTold'
  <2> SUFFICES ASSUME NEW j \in Instr
               PROVE  LET told == {n \in Coming' : block'[n].i = j /\ block'[n].kind \in StatusKinds}
                      IN /\ told = {} => IF cStatus'[j] = "None" THEN ~Has(inst', j)
                                         ELSE Has(inst', j) /\ inst'[j].status = cStatus'[j]
                         /\ \A n \in told : (\A m \in told : m <= n) => block'[n].kind = cStatus'[j]
    BY <1>2 DEF StatusTold
  <2> DEFINE told == {n \in Coming : block[n].i = j /\ block[n].kind \in StatusKinds}
             new == {n \in Coming' : block'[n].i = j /\ block'[n].kind \in StatusKinds}
  <2>1. /\ told = {} => IF cStatus[j] = "None" THEN ~Has(inst, j)
                        ELSE Has(inst, j) /\ inst[j].status = cStatus[j]
        /\ \A n \in told : (\A m \in told : m <= n) => block[n].kind = cStatus[j]
    BY DEF IInv, StatusTold
  <2>2. CASE j = i /\ a.kind \in StatusKinds
    <3>1. last \in new /\ \A n \in new : n # last => n < last
      BY <1>1, <1>3, <2>2
    <3>2. \A n \in new : (\A m \in new : m <= n) => n = last
      BY <1>1, <3>1
    <3> QED  BY <1>1, <1>4, <2>2, <3>1, <3>2
  <2>3. CASE ~(j = i /\ a.kind \in StatusKinds)
    <3>1. new = told /\ cStatus'[j] = cStatus[j]
      BY <1>1, <1>3, <1>4, <2>3
    <3>2. \A n \in told : block'[n].kind = block[n].kind
      BY <1>1
    <3> HIDE DEF told, new
    <3> QED  BY <1>2, <2>1, <3>1, <3>2 DEF new, told
  <2> QED  BY <2>2, <2>3
<1>9. Opened'
  <2>1. \A j \in Instr : cStatus[j] # "None" <=> cStatus'[j] # "None"
    BY <1>3, <1>4
  <2>2. ASSUME NEW j \in Instr, cStatus[j] # "None"
        PROVE  Has(inst, j) \/ \E m \in Coming : block[m].i = j /\ block[m].kind = "Created"
    BY <2>2 DEF IInv, Opened
  <2>3. \A j \in Instr : cStatus'[j] # "None" =>
          Has(inst, j) \/ \E m \in Coming' : block'[m].i = j /\ block'[m].kind = "Created"
    BY <1>1, <2>1, <2>2
  <2>4. \A n \in Coming' : block'[n].kind = "Created" => n \in Coming
    BY <1>1, <1>3
  <2>5. \A n \in Coming' : block'[n].kind = "Created" =>
          /\ ~Has(inst, block'[n].i)
          /\ \A m \in Coming' : block'[m].i = block'[n].i /\ block'[m].kind = "Created" => m = n
    BY <1>1, <2>4 DEF IInv, Opened
  <2>6. ASSUME NEW n \in Coming', block'[n].kind \notin {"Created", "Auto"}
        PROVE  \/ Has(inst, block'[n].i)
               \/ \E m \in Coming' : m < n /\ block'[m].i = block'[n].i
                                            /\ block'[m].kind = "Created"
    <3>1. CASE n = last
      <4>1. Has(inst, i) \/ \E m \in Coming : block[m].i = i /\ block[m].kind = "Created"
        BY <1>3, <2>2
      <4> QED  BY <1>1, <1>3, <3>1, <4>1
    <3>2. CASE n \in Coming
      <4>1. \/ Has(inst, block[n].i)
            \/ \E m \in Coming : m < n /\ block[m].i = block[n].i /\ block[m].kind = "Created"
        BY <1>1, <2>6, <3>2 DEF IInv, Opened
      <4> QED  BY <1>1, <3>2, <4>1
    <3> QED  BY <1>1, <3>1, <3>2
  <2>7. DOMAIN inst \subseteq Instr
    BY <1>0 DEF Types
  <2> QED  BY <1>2, <2>1, <2>3, <2>5, <2>6, <2>7 DEF IInv, Opened
<1>10. Introduced'
  <2>1. Announced' = Announced
    BY <1>2 DEF Announced
  <2>2. \A j \in Instr : cStatus[j] # "None" <=> cStatus'[j] # "None"
    BY <1>3, <1>4
  <2>3. ASSUME NEW j \in Instr, cStatus[j] # "None"
        PROVE  \/ j \in Announced
               \/ \E m \in Coming : block[m].i = j /\ block[m].kind = Opener(Mediators[j])
    BY <2>3 DEF IInv, Introduced
  <2>4. \A j \in Instr : cStatus'[j] # "None" =>
          \/ j \in Announced
          \/ \E m \in Coming' : block'[m].i = j /\ block'[m].kind = Opener(Mediators[j])
    BY <1>1, <2>2, <2>3
  <2>5. ASSUME NEW n \in Coming', block'[n].kind = "Rejected"
        PROVE  \/ block'[n].i \in Announced
               \/ \E m \in Coming' : /\ m < n /\ block'[m].i = block'[n].i
                                      /\ block'[m].kind = Opener(Mediators[block'[n].i])
    <3>1. CASE n = last
      <4>1. \/ i \in Announced
            \/ \E m \in Coming : block[m].i = i /\ block[m].kind = Opener(Mediators[i])
        BY <1>3, <2>3
      <4> QED  BY <1>1, <1>3, <3>1, <4>1
    <3>2. CASE n \in Coming
      <4>1. \/ block[n].i \in Announced
            \/ \E m \in Coming : /\ m < n /\ block[m].i = block[n].i
                                  /\ block[m].kind = Opener(Mediators[block[n].i])
        BY <1>1, <2>5, <3>2 DEF IInv, Introduced
      <4> QED  BY <1>1, <3>2, <4>1
    <3> QED  BY <1>1, <3>1, <3>2
  <2> QED  BY <1>2, <2>1, <2>4, <2>5 DEF Introduced
<1>11. Owned'
  BY <1>2, <1>4 DEF IInv, Owned
<1>12. MediatorsTold'
  <2> SUFFICES ASSUME NEW j \in Instr, NEW did \in Dids, cStatus'[j] \in Live
               PROVE  LET told == {n \in Coming' : /\ block'[n].i = j /\ block'[n].did = did
                                                   /\ block'[n].kind \in MediatorKinds}
                      IN /\ told = {} => (Has(aff', MediatorRow(j, did)) <=> did \in cMediated'[j])
                         /\ \A n \in told : (\A m \in told : m <= n) =>
                              (block'[n].kind = "MediatorAffirmed" <=> did \in cMediated'[j])
    BY <1>2 DEF MediatorsTold
  <2> DEFINE told == {n \in Coming : /\ block[n].i = j /\ block[n].did = did
                                     /\ block[n].kind \in MediatorKinds}
             new == {n \in Coming' : /\ block'[n].i = j /\ block'[n].did = did
                                     /\ block'[n].kind \in MediatorKinds}
  <2>1. /\ told = {} => (Has(aff, MediatorRow(j, did)) <=> did \in cMediated[j])
        /\ \A n \in told : (\A m \in told : m <= n) =>
             (block[n].kind = "MediatorAffirmed" <=> did \in cMediated[j])
    BY <1>4 DEF IInv, MediatorsTold
  <2>2. CASE j = i /\ a.did = did /\ a.kind \in MediatorKinds
    <3>1. last \in new /\ \A n \in new : n # last => n < last
      BY <1>1, <1>3, <2>2
    <3>2. \A n \in new : (\A m \in new : m <= n) => n = last
      BY <1>1, <3>1
    <3>3. a.kind = "MediatorAffirmed" <=> did \in cMediated'[j]
      BY <1>4, <2>2 DEF MediatorKinds
    <3> QED  BY <1>1, <3>1, <3>2, <3>3
  <2>3. CASE ~(j = i /\ a.did = did /\ a.kind \in MediatorKinds)
    <3>1. new = told
      BY <1>1, <1>3, <2>3
    <3>2. did \in cMediated'[j] <=> did \in cMediated[j]
      BY <1>4, <2>3 DEF MediatorKinds
    <3>3. \A n \in told : block'[n].kind = block[n].kind
      BY <1>1
    <3> HIDE DEF told, new
    <3> QED  BY <1>2, <2>1, <3>1, <3>2, <3>3 DEF new, told
  <2> QED  BY <2>2, <2>3
<1>13. ReceiptsTold'
  <2> SUFFICES ASSUME NEW j \in Instr, NEW did \in Dids
               PROVE  did \in cClaimed'[j] <=>
                        \/ PartyRow(j, did) \in receipt
                        \/ \E n \in Coming' : /\ block'[n].i = j /\ block'[n].did = did
                                              /\ block'[n].kind = "Receipt"
    BY <1>2 DEF ReceiptsTold
  <2>1. did \in cClaimed[j] <=>
          \/ PartyRow(j, did) \in receipt
          \/ \E n \in Coming : /\ block[n].i = j /\ block[n].did = did
                               /\ block[n].kind = "Receipt"
    BY DEF IInv, ReceiptsTold
  <2>2. did \in cClaimed'[j] <=>
          did \in cClaimed[j] \/ (j = i /\ a.did = did /\ a.kind = "Receipt")
    BY <1>4
  <2>3. (\E n \in Coming' : /\ block'[n].i = j /\ block'[n].did = did
                            /\ block'[n].kind = "Receipt")
        <=> \/ j = i /\ a.did = did /\ a.kind = "Receipt"
            \/ \E n \in Coming : /\ block[n].i = j /\ block[n].did = did
                                  /\ block[n].kind = "Receipt"
    BY <1>1, <1>3
  <2> QED  BY <2>1, <2>2, <2>3
<1> QED  BY <1>6, <1>7, <1>8, <1>9, <1>10, <1>11, <1>12, <1>13 DEF IInv

\* What a creation adds, by the place in the block.
LEMMA CreationFacts ==
  ASSUME IInv, NEW i \in Instr, NEW events, Creation(i, events)
  PROVE  \E c, m \in Coming' \ Coming :
           /\ UNCHANGED <<setup, tables>>
           /\ pos' = 0 /\ block' \in Seq(Recorded)
           /\ Coming = 1..Len(block) /\ Coming' = 1..Len(block') /\ Coming \subseteq Coming'
           /\ \A n \in Coming : block'[n] = block[n] /\ block[n].i # i /\ block[n].i \in Instr
           /\ \A n \in Coming' \ Coming :
                /\ \A l \in Coming : l < n
                /\ block'[n].i = i /\ block'[n].kind \in {"Created", "Mediators", "Auto"}
                /\ block'[n].kind = "Auto" => block'[n].did \in Parties[i]
                /\ block'[n].kind = "Created" => n = c
                /\ block'[n].kind = "Mediators" => n > c
           /\ block'[c].kind = "Created" /\ block'[m].kind = Opener(Mediators[i])
<1>1. /\ events \in Seq(Recorded) /\ Deposit(events)
      /\ cStatus[i] = "None"
      /\ \A n \in 1..Len(events) :
           /\ events[n].i = i
           /\ events[n].kind \in {"Created", "Mediators", "Auto"}
           /\ events[n].kind = "Auto" => events[n].did \in Parties[i]
  BY DEF Creation
<1>2. PICK c \in 1..Len(events) :
        /\ events[c].kind = "Created"
        /\ \A n \in 1..Len(events) : events[n].kind = "Created" => n = c
        /\ \A n \in 1..Len(events) : events[n].kind = "Mediators" => n > c
  BY DEF Creation
<1>3. PICK m \in 1..Len(events) : events[m].kind = Opener(Mediators[i])
  BY DEF Creation
<1>4. Types
  BY DEF IInv
<1>5. /\ pos = 0 /\ pos' = 0 /\ UNCHANGED <<setup, tables>>
      /\ block' \in Seq(Recorded) /\ Len(block') = Len(block) + Len(events)
      /\ Len(block) \in Nat /\ Len(events) \in Nat
      /\ \A n \in 1..Len(block) : block'[n] = block[n]
      /\ \A n \in 1..Len(events) : block'[Len(block) + n] = events[n]
      /\ Coming = 1..Len(block)
      /\ Coming' = 1..Len(block')
  BY <1>1, <1>4, DepositFacts, Zenon
<1>6. \A n \in Coming : block[n].i # i /\ block[n].i \in Instr
  <2>1. \A n \in Coming : block[n] \in Recorded
    BY <1>4, <1>5 DEF Types
  <2>2. \A n \in Coming : cStatus[block[n].i] # "None"
    BY <1>5 DEF IInv, EventsTrue
  <2> QED  BY <1>1, <2>1, <2>2 DEF Recorded
<1>7. \A n \in Coming' \ Coming :
        \E k \in 1..Len(events) : n = Len(block) + k /\ block'[n] = events[k]
  <2> SUFFICES ASSUME NEW n \in Coming' \ Coming
               PROVE  n - Len(block) \in 1..Len(events)
                      /\ n = Len(block) + (n - Len(block))
    BY <1>5
  <2> QED  BY <1>5
<1>8. \A k \in 1..Len(events) : Len(block) + k \in Coming' \ Coming
  BY <1>5
<1>9. \A n \in Coming' \ Coming :
        /\ \A l \in Coming : l < n
        /\ block'[n].i = i /\ block'[n].kind \in {"Created", "Mediators", "Auto"}
        /\ block'[n].kind = "Auto" => block'[n].did \in Parties[i]
        /\ block'[n].kind = "Created" => n = Len(block) + c
        /\ block'[n].kind = "Mediators" => n > Len(block) + c
  <2> SUFFICES ASSUME NEW k \in 1..Len(events)
               PROVE  LET n == Len(block) + k
                      IN /\ \A l \in Coming : l < n
                         /\ events[k].i = i /\ events[k].kind \in {"Created", "Mediators", "Auto"}
                         /\ events[k].kind = "Auto" => events[k].did \in Parties[i]
                         /\ events[k].kind = "Created" => n = Len(block) + c
                         /\ events[k].kind = "Mediators" => n > Len(block) + c
    BY <1>7
  <2>1. events[k].kind = "Mediators" => k > c
    BY <1>2
  <2>2. \A l \in Coming : l < Len(block) + k
    BY <1>5
  <2>3. events[k].kind = "Created" => k = c
    BY <1>2
  <2>4. k > c => Len(block) + k > Len(block) + c
    BY <1>5
  <2> QED  BY <1>1, <2>1, <2>2, <2>3, <2>4
<1>10. /\ Len(block) + c \in Coming' \ Coming /\ Len(block) + m \in Coming' \ Coming
       /\ block'[Len(block) + c].kind = "Created"
       /\ block'[Len(block) + m].kind = Opener(Mediators[i])
       /\ Coming \subseteq Coming'
  BY <1>2, <1>3, <1>5, <1>8
<1> QED  BY <1>5, <1>6, <1>9, <1>10

\* A creation keeps the invariant.
LEMMA CreationStep ==
  ASSUME IInv, NEW i \in Instr, NEW events, Creation(i, events)
  PROVE  IInv'
<1> USE DEF Has
<1>0. Types
  BY DEF IInv
<1>1. PICK c \in Coming' \ Coming, m \in Coming' \ Coming :
        /\ UNCHANGED <<setup, tables>>
        /\ pos' = 0 /\ block' \in Seq(Recorded)
        /\ Coming = 1..Len(block) /\ Coming' = 1..Len(block') /\ Coming \subseteq Coming'
        /\ \A n \in Coming : block'[n] = block[n] /\ block[n].i # i /\ block[n].i \in Instr
        /\ \A n \in Coming' \ Coming :
             /\ \A l \in Coming : l < n
             /\ block'[n].i = i /\ block'[n].kind \in {"Created", "Mediators", "Auto"}
             /\ block'[n].kind = "Auto" => block'[n].did \in Parties[i]
             /\ block'[n].kind = "Created" => n = c
             /\ block'[n].kind = "Mediators" => n > c
        /\ block'[c].kind = "Created" /\ block'[m].kind = Opener(Mediators[i])
  BY CreationFacts
<1>2. /\ Instr' = Instr /\ Dids' = Dids /\ Mediators' = Mediators
      /\ Parties' = Parties /\ Recorded' = Recorded
      /\ inst' = inst /\ party' = party /\ aff' = aff /\ receipt' = receipt
  BY <1>1, SetupStays DEF tables
<1>3. /\ cStatus[i] = "None" /\ cStatus' = [cStatus EXCEPT ![i] = "Created"]
      /\ cMediated' = cMediated /\ cClaimed' = cClaimed
  BY DEF Creation
<1>4. /\ cStatus' \in [Instr -> Statuses] /\ cStatus'[i] = "Created"
      /\ \A j \in Instr \ {i} : cStatus'[j] = cStatus[j]
      /\ \A j \in Instr : cStatus[j] # "None" => cStatus'[j] # "None"
  BY <1>0, <1>3 DEF Types, Statuses, StatusKinds
<1>5. i \notin DOMAIN inst
  BY <1>3 DEF IInv, Opened
<1>6. Types'
  BY <1>0, <1>1, <1>2, <1>3, <1>4 DEF Types
<1>7. EventsTrue'
  <2> SUFFICES ASSUME NEW n \in Coming'
               PROVE  LET b == block'[n]
                      IN /\ cStatus'[b.i] # "None"
                         /\ b.kind \in {"Auto", "Affirmed", "Withdrawn", "Unauthorized", "Receipt"} =>
                              b.did \in Parties[b.i]
                         /\ b.kind \in MediatorKinds => b.did \in Mediators[b.i]
                         /\ b.kind = "Rejected" =>
                              cStatus'[b.i] = "Rejected" /\ b.did \in Parties[b.i] \union Mediators[b.i]
    BY <1>1, <1>2 DEF EventsTrue
  <2>1. CASE n \notin Coming
    BY <1>1, <1>4, <2>1 DEF MediatorKinds
  <2>2. CASE n \in Coming
    BY <1>1, <1>4, <2>2 DEF IInv, EventsTrue
  <2> QED  BY <2>1, <2>2
<1>8. StatusTold'
  <2> SUFFICES ASSUME NEW j \in Instr
               PROVE  LET told == {n \in Coming' : block'[n].i = j /\ block'[n].kind \in StatusKinds}
                      IN /\ told = {} => IF cStatus'[j] = "None" THEN ~Has(inst', j)
                                         ELSE Has(inst', j) /\ inst'[j].status = cStatus'[j]
                         /\ \A n \in told : (\A l \in told : l <= n) => block'[n].kind = cStatus'[j]
    BY <1>2 DEF StatusTold
  <2> DEFINE told == {n \in Coming : block[n].i = j /\ block[n].kind \in StatusKinds}
             new == {n \in Coming' : block'[n].i = j /\ block'[n].kind \in StatusKinds}
  <2>1. /\ told = {} => IF cStatus[j] = "None" THEN ~Has(inst, j)
                        ELSE Has(inst, j) /\ inst[j].status = cStatus[j]
        /\ \A n \in told : (\A l \in told : l <= n) => block[n].kind = cStatus[j]
    BY DEF IInv, StatusTold
  <2>2. CASE j = i
    <3>1. new = {c}
      BY <1>1, <2>2 DEF StatusKinds
    <3> QED  BY <1>1, <1>4, <2>2, <3>1
  <2>3. CASE j # i
    <3>1. new = told /\ cStatus'[j] = cStatus[j]
      BY <1>1, <1>4, <2>3
    <3>2. \A n \in told : block'[n].kind = block[n].kind
      BY <1>1
    <3> HIDE DEF told, new
    <3> QED  BY <1>2, <2>1, <3>1, <3>2 DEF new, told
  <2> QED  BY <2>2, <2>3
<1>9. Opened'
  <2>1. \A j \in DOMAIN inst : j # i /\ j \in Instr
    BY <1>0, <1>5 DEF Types
  <2>2. \A j \in DOMAIN inst :
          cStatus'[j] # "None" /\ \A did \in Parties[j] : Has(party, PartyRow(j, did))
    BY <1>4, <2>1 DEF IInv, Opened
  <2>3. ASSUME NEW j \in Instr, cStatus'[j] # "None"
        PROVE  Has(inst, j) \/ \E l \in Coming' : block'[l].i = j /\ block'[l].kind = "Created"
    <3>1. CASE j = i
      BY <1>1, <3>1
    <3>2. CASE j # i
      <4>1. Has(inst, j) \/ \E l \in Coming : block[l].i = j /\ block[l].kind = "Created"
        BY <1>4, <2>3, <3>2 DEF IInv, Opened
      <4> QED  BY <1>1, <4>1
    <3> QED  BY <3>1, <3>2
  <2>4. ASSUME NEW n \in Coming', block'[n].kind = "Created"
        PROVE  /\ ~Has(inst, block'[n].i)
               /\ \A l \in Coming' : block'[l].i = block'[n].i /\ block'[l].kind = "Created" => l = n
    <3>1. CASE n \in Coming
      <4>1. /\ ~Has(inst, block[n].i) /\ block[n].kind = "Created" /\ block[n].i # i
            /\ \A l \in Coming : block[l].i = block[n].i /\ block[l].kind = "Created" => l = n
        BY <1>1, <2>4, <3>1 DEF IInv, Opened
      <4> QED  BY <1>1, <3>1, <4>1
    <3>2. CASE n \notin Coming
      BY <1>1, <1>5, <2>4, <3>2
    <3> QED  BY <3>1, <3>2
  <2>5. ASSUME NEW n \in Coming', block'[n].kind \notin {"Created", "Auto"}
        PROVE  \/ Has(inst, block'[n].i)
               \/ \E l \in Coming' : l < n /\ block'[l].i = block'[n].i
                                            /\ block'[l].kind = "Created"
    <3>1. CASE n \in Coming
      <4>1. \/ Has(inst, block[n].i)
            \/ \E l \in Coming : l < n /\ block[l].i = block[n].i /\ block[l].kind = "Created"
        BY <1>1, <2>5, <3>1 DEF IInv, Opened
      <4> QED  BY <1>1, <3>1, <4>1
    <3>2. CASE n \notin Coming
      <4>1. c < n
        BY <1>1, <2>5, <3>2
      <4> QED  BY <1>1, <3>2, <4>1
    <3> QED  BY <3>1, <3>2
  <2> QED  BY <1>2, <2>2, <2>3, <2>4, <2>5 DEF Opened
<1>10. Introduced'
  <2>1. Announced' = Announced
    BY <1>2 DEF Announced
  <2>2. ASSUME NEW j \in Instr, cStatus'[j] # "None"
        PROVE  \/ j \in Announced
               \/ \E l \in Coming' : block'[l].i = j /\ block'[l].kind = Opener(Mediators[j])
    <3>1. CASE j = i
      BY <1>1, <3>1
    <3>2. CASE j # i
      <4>1. \/ j \in Announced
            \/ \E l \in Coming : block[l].i = j /\ block[l].kind = Opener(Mediators[j])
        BY <1>4, <2>2, <3>2 DEF IInv, Introduced
      <4> QED  BY <1>1, <4>1
    <3> QED  BY <3>1, <3>2
  <2>3. ASSUME NEW n \in Coming', block'[n].kind = "Rejected"
        PROVE  \/ block'[n].i \in Announced
               \/ \E l \in Coming' : /\ l < n /\ block'[l].i = block'[n].i
                                      /\ block'[l].kind = Opener(Mediators[block'[n].i])
    <3>1. n \in Coming
      BY <1>1, <2>3
    <3>2. \/ block[n].i \in Announced
          \/ \E l \in Coming : /\ l < n /\ block[l].i = block[n].i
                                /\ block[l].kind = Opener(Mediators[block[n].i])
      BY <1>1, <2>3, <3>1 DEF IInv, Introduced
    <3> QED  BY <1>1, <3>1, <3>2
  <2> QED  BY <1>2, <2>1, <2>2, <2>3 DEF Introduced
<1>11. Owned'
  BY <1>2, <1>4 DEF IInv, Owned
<1>12. MediatorsTold'
  <2> SUFFICES ASSUME NEW j \in Instr, NEW did \in Dids, cStatus'[j] \in Live
               PROVE  LET told == {n \in Coming' : /\ block'[n].i = j /\ block'[n].did = did
                                                   /\ block'[n].kind \in MediatorKinds}
                      IN /\ told = {} => (Has(aff', MediatorRow(j, did)) <=> did \in cMediated'[j])
                         /\ \A n \in told : (\A l \in told : l <= n) =>
                              (block'[n].kind = "MediatorAffirmed" <=> did \in cMediated'[j])
    BY <1>2 DEF MediatorsTold
  <2> DEFINE told == {n \in Coming : /\ block[n].i = j /\ block[n].did = did
                                     /\ block[n].kind \in MediatorKinds}
             new == {n \in Coming' : /\ block'[n].i = j /\ block'[n].did = did
                                     /\ block'[n].kind \in MediatorKinds}
  <2>1. cStatus[j] \in Live
    BY <1>3, <1>4 DEF Live
  <2>2. /\ told = {} => (Has(aff, MediatorRow(j, did)) <=> did \in cMediated[j])
        /\ \A n \in told : (\A l \in told : l <= n) =>
             (block[n].kind = "MediatorAffirmed" <=> did \in cMediated[j])
    BY <2>1 DEF IInv, MediatorsTold
  <2>3. new = told
    BY <1>1 DEF MediatorKinds
  <2>4. \A n \in told : block'[n].kind = block[n].kind
    BY <1>1
  <2> HIDE DEF told, new
  <2> QED  BY <1>2, <1>3, <2>2, <2>3, <2>4 DEF new, told
<1>13. ReceiptsTold'
  <2> SUFFICES ASSUME NEW j \in Instr, NEW did \in Dids
               PROVE  did \in cClaimed'[j] <=>
                        \/ PartyRow(j, did) \in receipt
                        \/ \E n \in Coming' : /\ block'[n].i = j /\ block'[n].did = did
                                              /\ block'[n].kind = "Receipt"
    BY <1>2 DEF ReceiptsTold
  <2>1. did \in cClaimed[j] <=>
          \/ PartyRow(j, did) \in receipt
          \/ \E n \in Coming : /\ block[n].i = j /\ block[n].did = did
                               /\ block[n].kind = "Receipt"
    BY DEF IInv, ReceiptsTold
  <2>2. (\E n \in Coming' : /\ block'[n].i = j /\ block'[n].did = did
                            /\ block'[n].kind = "Receipt")
        <=> \E n \in Coming : /\ block[n].i = j /\ block[n].did = did
                              /\ block[n].kind = "Receipt"
    BY <1>1
  <2> QED  BY <1>3, <2>1, <2>2
<1> QED  BY <1>6, <1>7, <1>8, <1>9, <1>10, <1>11, <1>12, <1>13 DEF IInv

-----------------------------------------------------------------------------
(* What a handler does to the tables, in terms of its event.               *)

InstHandled ==
  /\ DOMAIN inst' = IF e.kind = "Created" THEN DOMAIN inst \union {e.i} ELSE DOMAIN inst
  /\ \A j \in DOMAIN inst \ {e.i} : inst'[j] = inst[j]
  /\ \A j \in DOMAIN inst' : inst'[j] \in [status : Statuses, mediators : SUBSET Dids]
  /\ e.kind \in StatusKinds => e.i \in DOMAIN inst' /\ inst'[e.i].status = e.kind
  /\ e.kind \notin StatusKinds /\ e.i \in DOMAIN inst => inst'[e.i].status = inst[e.i].status
  /\ e.kind = "Created" => inst'[e.i].mediators = {}
  /\ e.kind = "Mediators" => e.i \in DOMAIN inst /\ inst'[e.i].mediators = Mediators[e.i]
  /\ e.kind \notin {"Created", "Mediators"} /\ e.i \in DOMAIN inst =>
       inst'[e.i].mediators = inst[e.i].mediators

PartyHandled ==
  /\ DOMAIN party \subseteq DOMAIN party'
  /\ e.kind = "Created" => \A did \in Parties[e.i] : PartyRow(e.i, did) \in DOMAIN party'
  /\ e.kind = "Mediators" =>
       \A did \in Mediators[e.i] : MediatorRow(e.i, did) \in DOMAIN party'

\* An id of a party or of a mediator of an instruction that exists.
Owner(id, i) ==
  /\ i \in Instr /\ cStatus[i] # "None"
  /\ \/ \E did \in Parties[i] : id = PartyRow(i, did)
     \/ \E did \in Mediators[i] : id = MediatorRow(i, did)

AffHandled ==
  /\ \A id \in DOMAIN aff' : id \in DOMAIN aff \/ \E i : Owner(id, i)
  /\ e.kind = "MediatorAffirmed" => MediatorRow(e.i, e.did) \in DOMAIN aff'
  /\ e.kind = "MediatorWithdrawn" => MediatorRow(e.i, e.did) \notin DOMAIN aff'
  /\ \A i \in Instr, did \in Dids :
       cStatus[i] \in Live /\ ~(i = e.i /\ did = e.did /\ e.kind \in MediatorKinds) =>
         (MediatorRow(i, did) \in DOMAIN aff' <=> MediatorRow(i, did) \in DOMAIN aff)

ReceiptHandled ==
  receipt' = IF e.kind = "Receipt" THEN receipt \union {PartyRow(e.i, e.did)} ELSE receipt

\* What the invariant says of the event that is handled.
LEMMA EventFacts ==
  ASSUME IInv, NEW kinds, Handling(kinds)
  PROVE  /\ e.i \in Instr /\ e.kind \in kinds \intersect Kinds
         /\ cStatus[e.i] # "None"
         /\ e.kind \in {"Auto", "Affirmed", "Withdrawn", "Unauthorized", "Receipt"} =>
              e.did \in Parties[e.i] /\ Owner(PartyRow(e.i, e.did), e.i)
         /\ e.kind \in MediatorKinds =>
              e.did \in Mediators[e.i] /\ Owner(MediatorRow(e.i, e.did), e.i)
         /\ e.kind = "Created" => e.i \notin DOMAIN inst
         /\ e.kind \notin {"Created", "Auto"} => e.i \in DOMAIN inst
         /\ e.kind = "Rejected" =>
              /\ cStatus[e.i] = "Rejected" /\ inst[e.i].mediators = Mediators[e.i]
              /\ e.did \in Parties[e.i] \union Mediators[e.i]
<1>0. Types
  BY DEF IInv
<1>1. /\ pos \in Coming /\ e = block[pos] /\ e \in Recorded /\ e.kind \in kinds
      /\ Coming \subseteq 1..Len(block) /\ Len(block) \in Nat
      /\ \A n \in Coming : n >= pos
  BY <1>0, HandlingFacts
<1>2. e.i \in Instr /\ e.kind \in Kinds
  BY <1>1 DEF Recorded
<1>3. /\ cStatus[e.i] # "None"
      /\ e.kind \in {"Auto", "Affirmed", "Withdrawn", "Unauthorized", "Receipt"} =>
           e.did \in Parties[e.i]
      /\ e.kind \in MediatorKinds => e.did \in Mediators[e.i]
      /\ e.kind = "Rejected" =>
           cStatus[e.i] = "Rejected" /\ e.did \in Parties[e.i] \union Mediators[e.i]
  BY <1>1 DEF IInv, EventsTrue
<1>4. \A m \in Coming : ~(m < pos)
  BY <1>1
<1>5. e.kind = "Created" => e.i \notin DOMAIN inst
  BY <1>1 DEF IInv, Opened, Has
<1>6. e.kind \notin {"Created", "Auto"} => e.i \in DOMAIN inst
  BY <1>1, <1>4 DEF IInv, Opened, Has
<1>7. e.kind = "Rejected" => inst[e.i].mediators = Mediators[e.i]
  BY <1>1, <1>4 DEF IInv, Introduced, Announced
<1> QED  BY <1>1, <1>2, <1>3, <1>5, <1>6, <1>7 DEF Owner

\* A rescan writes rows of the automatic affirmations of the block only.
LEMMA RescanFacts ==
  ASSUME NEW table, NEW result \in Rescanned(table)
  PROVE  /\ DOMAIN table \subseteq DOMAIN result
         /\ \A id \in DOMAIN result : id \in DOMAIN table \/
              \E n \in DOMAIN block : /\ block[n].kind = "Auto"
                                      /\ id = PartyRow(block[n].i, block[n].did)
<1> DEFINE ids == {PartyId(a.i, a.did, FALSE) : a \in {b \in ToSet(block) : b.kind = "Auto"}}
<1>1. PICK r : result = SaveAll(table, r) /\ DOMAIN r = ids
  BY DEF Rescanned
<1>2. DOMAIN result = DOMAIN table \union ids
  BY <1>1 DEF SaveAll
<1>3. \A id \in ids : \E n \in DOMAIN block : /\ block[n].kind = "Auto"
                                             /\ id = PartyRow(block[n].i, block[n].did)
  BY DEF ToSet, PartyRow
<1> QED  BY <1>2, <1>3

\* Each handler does what its event asks for.
LEMMA HandlersHandle ==
  ASSUME IInv, Handlers
  PROVE  Handling(Kinds) /\ InstHandled /\ PartyHandled /\ AffHandled /\ ReceiptHandled
<1> USE DEF Has, StatusKinds, MediatorKinds
<1>0. Types
  BY DEF IInv
<1>a. ASSUME NEW kinds \in SUBSET Kinds, Handling(kinds) PROVE Handling(Kinds)
  BY <1>a DEF Handling
<1>b. /\ DOMAIN inst \subseteq Instr
      /\ \A j \in DOMAIN inst : inst[j] \in [status : Statuses, mediators : SUBSET Dids]
  BY <1>0 DEF Types
<1>c. \A j \in Instr : Mediators[j] \subseteq Dids
  BY SideFacts
<1>1. ASSUME inst' = inst, e.kind \notin StatusKinds \union {"Mediators"} PROVE InstHandled
  BY <1>1, <1>b DEF InstHandled
<1>2. ASSUME party' = party, e.kind \notin {"Created", "Mediators"} PROVE PartyHandled
  BY <1>2 DEF PartyHandled
<1>3. ASSUME aff' = aff, e.kind \notin MediatorKinds PROVE AffHandled
  BY <1>3 DEF AffHandled
<1>4. ASSUME NEW id, DOMAIN aff' \subseteq DOMAIN aff \union {id},
             \A j, did : MediatorRow(j, did) # id, Owner(id, e.i),
             \A k \in DOMAIN aff \ {id} : k \in DOMAIN aff', e.kind \notin MediatorKinds
      PROVE  AffHandled
  BY <1>4 DEF AffHandled
<1>5. ASSUME NEW status \in Statuses, NEW j \in DOMAIN inst
      PROVE  /\ [inst[j] EXCEPT !.status = status] \in [status : Statuses, mediators : SUBSET Dids]
             /\ [inst[j] EXCEPT !.status = status].status = status
             /\ [inst[j] EXCEPT !.status = status].mediators = inst[j].mediators
  BY <1>b
<1>6. \A id, row : DOMAIN Save(aff, id, row) = DOMAIN aff \union {id}
  BY DEF Save
<1>7. \A j, did : \A k, f : MediatorRow(k, f) # PartyRow(j, did)
  BY PartyIdDistinct
<1>8. CASE handleInstructionCreated
  <2>1. Handling({"Created"}) /\ e.kind = "Created" /\ e.i \in Instr /\ e.i \notin DOMAIN inst
    BY <1>8, EventFacts DEF handleInstructionCreated
  <2>2. InstHandled
    <3>1. inst' = Save(inst, e.i, [status |-> "Created", mediators |-> {}])
      BY <1>8 DEF handleInstructionCreated
    <3> QED  BY <1>b, <2>1, <3>1 DEF InstHandled, Save, Statuses
  <2>3. PartyHandled
    <3> DEFINE parties == PartiesOf(e.i)
               ids == {PartyId(e.i, did, FALSE) : did \in DOMAIN parties}
    <3>1. party' = SaveAll(party, [id \in ids |-> parties[id[2]]])
      BY <1>8 DEF handleInstructionCreated
    <3>2. DOMAIN parties = Parties[e.i]
      BY <2>1, SideFacts DEF PartiesOf
    <3> HIDE DEF parties
    <3>3. DOMAIN party' = DOMAIN party \union ids
      BY <3>1 DEF SaveAll
    <3> QED  BY <2>1, <3>2, <3>3 DEF PartyHandled, PartyRow
  <2>4. AffHandled
    <3>1. CASE aff' = aff
      BY <1>3, <2>1, <3>1
    <3>2. CASE aff' \in Rescanned(aff)
      <4>1. /\ DOMAIN aff \subseteq DOMAIN aff'
            /\ \A id \in DOMAIN aff' : id \in DOMAIN aff \/
                 \E n \in DOMAIN block : /\ block[n].kind = "Auto"
                                         /\ id = PartyRow(block[n].i, block[n].did)
        BY <3>2, RescanFacts
      <4>2. \A n \in DOMAIN block : block[n].kind = "Auto" =>
              Owner(PartyRow(block[n].i, block[n].did), block[n].i)
        <5>1. DOMAIN block = 1..Len(block) /\ \A n \in 1..Len(block) : block[n] \in Recorded
          BY <1>0 DEF Types
        <5> QED  BY <5>1 DEF IInv, EventsTrue, Owner, Recorded
      <4> QED  BY <1>7, <2>1, <4>1, <4>2 DEF AffHandled
    <3> QED  BY <1>8, <3>1, <3>2 DEF handleInstructionCreated
  <2>5. ReceiptHandled
    BY <1>8, <2>1 DEF handleInstructionCreated, ReceiptHandled
  <2> QED  BY <1>a, <2>1, <2>2, <2>3, <2>4, <2>5 DEF Kinds
<1>9. CASE handleInstructionUpdate \/ handleAutomaticAffirmation \/ handleAffirmationWithdrawn
  <2>1. PICK kinds \in SUBSET {"Auto", "Affirmed", "Withdrawn", "Unauthorized"} : Handling(kinds)
    BY <1>9 DEF handleInstructionUpdate, handleAutomaticAffirmation, handleAffirmationWithdrawn
  <2>2. /\ e.kind \in {"Auto", "Affirmed", "Withdrawn", "Unauthorized"}
        /\ Owner(PartyRow(e.i, e.did), e.i)
    BY <2>1, EventFacts
  <2>3. inst' = inst /\ party' = party /\ receipt' = receipt
    BY <1>9 DEF handleInstructionUpdate, handleAutomaticAffirmation, handleAffirmationWithdrawn
  <2>4. /\ DOMAIN aff' \subseteq DOMAIN aff \union {PartyRow(e.i, e.did)}
        /\ \A k \in DOMAIN aff \ {PartyRow(e.i, e.did)} : k \in DOMAIN aff'
    BY <1>6, <1>9 DEF handleInstructionUpdate, handleAutomaticAffirmation,
                      handleAffirmationWithdrawn, Delete, PartyRow
  <2>5. AffHandled
    BY <1>4, <1>7, <2>2, <2>4
  <2> QED  BY <1>1, <1>2, <1>a, <2>1, <2>2, <2>3, <2>5 DEF Kinds, ReceiptHandled
<1>10. CASE handleInstructionRejected
  <2>1. /\ Handling({"Rejected"}) /\ e.kind = "Rejected" /\ e.i \in Instr /\ e.i \in DOMAIN inst
        /\ cStatus[e.i] = "Rejected" /\ inst[e.i].mediators = Mediators[e.i]
        /\ e.did \in Parties[e.i] \union Mediators[e.i]
    BY <1>10, EventFacts DEF handleInstructionRejected
  <2>2. InstHandled
    <3>1. inst' = [inst EXCEPT ![e.i].status = "Rejected"]
      BY <1>10 DEF handleInstructionRejected
    <3>2. inst' = [inst EXCEPT ![e.i] = [inst[e.i] EXCEPT !.status = "Rejected"]]
      BY <3>1
    <3> QED  BY <1>5, <1>b, <2>1, <3>2 DEF InstHandled, Statuses
  <2>3. PICK id : /\ DOMAIN aff' = DOMAIN aff \union {id}
                  /\ Owner(id, e.i)
                  /\ \A j, did : MediatorRow(j, did) = id => j = e.i
    <3>1. CASE e.did \in Mediators[e.i]
      <4>1. (e.did \in inst[e.i].mediators) <=> TRUE
        BY <2>1, <3>1
      <4>2. aff' = Save(aff, MediatorRow(e.i, e.did), Rejection)
        BY <1>10, <4>1 DEF handleInstructionRejected, MediatorRow
      <4>3. Owner(MediatorRow(e.i, e.did), e.i)
        BY <2>1, <3>1 DEF Owner
      <4>4. \A j, did : MediatorRow(j, did) = MediatorRow(e.i, e.did) => j = e.i
        BY PartyIdDistinct
      <4> QED  BY <1>6, <4>2, <4>3, <4>4
    <3>2. CASE e.did \notin Mediators[e.i]
      <4>1. (e.did \in inst[e.i].mediators) = FALSE
        BY <2>1, <3>2, Z3
      <4>2. aff' = Save(aff, PartyId(e.i, e.did, e.did \in inst[e.i].mediators), Rejection)
        BY <1>10 DEF handleInstructionRejected
      <4>3. aff' = Save(aff, PartyRow(e.i, e.did), Rejection)
        BY <4>1, <4>2, Zenon DEF PartyRow
      <4>4. Owner(PartyRow(e.i, e.did), e.i)
        BY <2>1, <3>2 DEF Owner
      <4> QED  BY <1>6, <1>7, <4>3, <4>4
    <3> QED  BY <3>1, <3>2
  <2>4. AffHandled
    BY <2>1, <2>3 DEF AffHandled, Live
  <2>5. party' = party /\ receipt' = receipt
    BY <1>10 DEF handleInstructionRejected
  <2> QED  BY <1>2, <1>a, <2>1, <2>2, <2>4, <2>5 DEF Kinds, ReceiptHandled
<1>11. CASE handleInstructionFinalizedEvent
  <2>1. /\ Handling({"Executed", "Failed", "Locked"})
        /\ e.kind \in {"Executed", "Failed", "Locked"} /\ e.i \in DOMAIN inst
    BY <1>11, EventFacts DEF handleInstructionFinalizedEvent
  <2>2. InstHandled
    <3>0. \A kind \in {"Executed", "Failed", "Locked"} : instructionStatusMap[kind] = kind
      BY DEF instructionStatusMap
    <3>1. inst' = [inst EXCEPT ![e.i].status = e.kind]
      BY <1>11, <2>1, <3>0 DEF handleInstructionFinalizedEvent
    <3>2. inst' = [inst EXCEPT ![e.i] = [inst[e.i] EXCEPT !.status = e.kind]]
      BY <3>1
    <3> QED  BY <1>5, <1>b, <2>1, <3>2 DEF InstHandled, Statuses
  <2>3. party' = party /\ receipt' = receipt /\ aff' = aff
    BY <1>11 DEF handleInstructionFinalizedEvent
  <2> QED  BY <1>2, <1>3, <1>a, <2>1, <2>2, <2>3 DEF Kinds, ReceiptHandled
<1>12. CASE handleInstructionMediators
  <2>1. Handling({"Mediators"}) /\ e.kind = "Mediators" /\ e.i \in DOMAIN inst /\ e.i \in Instr
    BY <1>12, EventFacts DEF handleInstructionMediators
  <2>2. InstHandled
    <3>1. inst' = [inst EXCEPT ![e.i].mediators = Mediators[e.i]]
      BY <1>12 DEF handleInstructionMediators
    <3>2. inst' = [inst EXCEPT ![e.i] = [inst[e.i] EXCEPT !.mediators = Mediators[e.i]]]
      BY <3>1
    <3>3. LET row == [inst[e.i] EXCEPT !.mediators = Mediators[e.i]]
          IN /\ row \in [status : Statuses, mediators : SUBSET Dids]
             /\ row.status = inst[e.i].status /\ row.mediators = Mediators[e.i]
      BY <1>b, <1>c, <2>1
    <3> QED  BY <1>b, <2>1, <3>2, <3>3 DEF InstHandled
  <2>3. PartyHandled
    <3> DEFINE ids == {PartyId(e.i, did, TRUE) : did \in Mediators[e.i]}
    <3>1. party' = SaveAll(party, [id \in ids |-> {NoNumber}])
      BY <1>12 DEF handleInstructionMediators
    <3>2. DOMAIN party' = DOMAIN party \union ids
      BY <3>1 DEF SaveAll
    <3> QED  BY <2>1, <3>2 DEF PartyHandled, MediatorRow
  <2>4. receipt' = receipt /\ aff' = aff
    BY <1>12 DEF handleInstructionMediators
  <2> QED  BY <1>3, <1>a, <2>1, <2>2, <2>3, <2>4 DEF Kinds, ReceiptHandled
<1>13. CASE handleMediatorAffirmationReceived \/ handleMediatorAffirmationWithdrawn
  <2>1. PICK kinds \in SUBSET MediatorKinds : Handling(kinds)
    BY <1>13 DEF handleMediatorAffirmationReceived, handleMediatorAffirmationWithdrawn
  <2>2. e.kind \in MediatorKinds /\ Owner(MediatorRow(e.i, e.did), e.i)
    BY <2>1, EventFacts
  <2>3. inst' = inst /\ party' = party /\ receipt' = receipt
    BY <1>13 DEF handleMediatorAffirmationReceived, handleMediatorAffirmationWithdrawn
  <2>4. DOMAIN aff' = IF e.kind = "MediatorAffirmed"
                      THEN DOMAIN aff \union {MediatorRow(e.i, e.did)}
                      ELSE DOMAIN aff \ {MediatorRow(e.i, e.did)}
    <3>1. CASE handleMediatorAffirmationReceived
      BY <1>6, <3>1 DEF handleMediatorAffirmationReceived, Handling, MediatorRow
    <3>2. CASE handleMediatorAffirmationWithdrawn
      BY <3>2 DEF handleMediatorAffirmationWithdrawn, Handling, MediatorRow, Delete
    <3> QED  BY <1>13, <3>1, <3>2
  <2>5. AffHandled
    BY <2>2, <2>4, PartyIdDistinct DEF AffHandled
  <2> QED  BY <1>1, <1>2, <1>a, <2>1, <2>2, <2>3, <2>5 DEF Kinds, ReceiptHandled
<1>14. CASE handleReceiptClaimed
  <2>1. Handling({"Receipt"}) /\ e.kind = "Receipt"
    BY <1>14, EventFacts DEF handleReceiptClaimed
  <2>2. inst' = inst /\ aff' = aff /\ receipt' = receipt \union {PartyRow(e.i, e.did)}
    BY <1>14 DEF handleReceiptClaimed, PartyRow
  <2>3. DOMAIN party \subseteq DOMAIN party'
    BY <1>14 DEF handleReceiptClaimed, Save
  <2> QED  BY <1>1, <1>3, <1>a, <2>1, <2>2, <2>3 DEF Kinds, ReceiptHandled, PartyHandled
<1> QED  BY <1>8, <1>9, <1>10, <1>11, <1>12, <1>13, <1>14 DEF Handlers

-----------------------------------------------------------------------------
(* A handler keeps the invariant.                                          *)

\* What a handler does to the tables keeps the invariant, since its event is
\* the first of those to come.
LEMMA HandlingStep ==
  ASSUME IInv, Handling(Kinds), InstHandled, PartyHandled, AffHandled, ReceiptHandled
  PROVE  IInv'
<1> USE DEF Has
<1>0. Types
  BY DEF IInv
<1>1. /\ UNCHANGED <<setup, pallet>>
      /\ pos \in Coming /\ e = block[pos] /\ e \in Recorded
      /\ block' \in Seq(Recorded) /\ pos' \in 0..Len(block')
      /\ Coming' = Coming \ {pos}
      /\ \A n \in Coming : n >= pos
      /\ Coming \subseteq 1..Len(block) /\ Len(block) \in Nat
      /\ \A n \in Coming' : block'[n] = block[n]
      /\ \A n \in 1..Len(block') : n \in 1..Len(block) /\ block'[n] = block[n]
  BY <1>0, HandlingFacts
<1>2. /\ Instr' = Instr /\ Dids' = Dids /\ Mediators' = Mediators
      /\ Parties' = Parties /\ Recorded' = Recorded
      /\ cStatus' = cStatus /\ cMediated' = cMediated /\ cClaimed' = cClaimed
  BY <1>1, SetupStays DEF pallet
<1>3. /\ e.i \in Instr /\ cStatus[e.i] # "None"
      /\ e.kind \in {"Auto", "Affirmed", "Withdrawn", "Unauthorized", "Receipt"} =>
           e.did \in Parties[e.i] /\ Owner(PartyRow(e.i, e.did), e.i)
      /\ e.kind = "Created" => e.i \notin DOMAIN inst
      /\ e.kind \notin {"Created", "Auto"} => e.i \in DOMAIN inst
      /\ e.kind = "Rejected" => cStatus[e.i] = "Rejected"
  BY EventFacts
<1>4. /\ DOMAIN inst \subseteq DOMAIN inst' /\ DOMAIN inst' \subseteq DOMAIN inst \union {e.i}
      /\ e.i \in DOMAIN inst' => e.kind = "Created" \/ e.i \in DOMAIN inst
      /\ DOMAIN inst' \subseteq Instr
  BY <1>0, <1>3 DEF InstHandled, Types
<1>5. \A n \in Coming : block[n] \in Recorded /\ block[n].i \in Instr /\ block[n].did \in Dids \union {NoDid}
  <2>1. \A n \in Coming : block[n] \in Recorded
    BY <1>0, <1>1 DEF Types
  <2> QED  BY <2>1 DEF Recorded
<1>6. Types'
  BY <1>0, <1>1, <1>2, <1>4 DEF Types, InstHandled
<1>7. EventsTrue'
  BY <1>1, <1>2 DEF IInv, EventsTrue
<1>8. StatusTold'
  <2> SUFFICES ASSUME NEW j \in Instr
               PROVE  LET told == {n \in Coming' : block'[n].i = j /\ block'[n].kind \in StatusKinds}
                      IN /\ told = {} => IF cStatus[j] = "None" THEN ~Has(inst', j)
                                         ELSE Has(inst', j) /\ inst'[j].status = cStatus[j]
                         /\ \A n \in told : (\A l \in told : l <= n) => block'[n].kind = cStatus[j]
    BY <1>2 DEF StatusTold
  <2> DEFINE told == {n \in Coming : block[n].i = j /\ block[n].kind \in StatusKinds}
             new == {n \in Coming' : block'[n].i = j /\ block'[n].kind \in StatusKinds}
  <2>1. /\ told = {} => IF cStatus[j] = "None" THEN ~Has(inst, j)
                        ELSE Has(inst, j) /\ inst[j].status = cStatus[j]
        /\ \A n \in told : (\A l \in told : l <= n) => block[n].kind = cStatus[j]
    BY DEF IInv, StatusTold
  <2>2. new = told \ {pos}
    BY <1>1
  <2>3. pos \in told <=> j = e.i /\ e.kind \in StatusKinds
    BY <1>1
  <2>4. \A n \in told : n >= pos /\ n \in Int
    BY <1>1
  <2>5. \A n \in new : block'[n].kind = block[n].kind
    BY <1>1
  <2> HIDE DEF told, new
  <2>6. ASSUME NEW n \in new, \A l \in new : l <= n PROVE block'[n].kind = cStatus[j]
    <3>1. \A l \in told : l <= n
      BY <2>2, <2>4, <2>6
    <3> QED  BY <2>1, <2>2, <2>5, <3>1
  <2>7. ASSUME new = {}
        PROVE  IF cStatus[j] = "None" THEN ~Has(inst', j)
               ELSE Has(inst', j) /\ inst'[j].status = cStatus[j]
    <3>1. CASE pos \in told
      <4>1. block[pos].kind = cStatus[j]
        BY <2>1, <2>2, <2>4, <2>7, <3>1
      <4> QED  BY <1>1, <1>3, <2>3, <3>1, <4>1 DEF InstHandled
    <3>2. CASE pos \notin told
      <4>1. told = {}
        BY <2>2, <2>7, <3>2
      <4>2. CASE j = e.i
        BY <1>3, <1>4, <2>1, <2>3, <3>2, <4>1, <4>2 DEF InstHandled, StatusKinds
      <4>3. CASE j # e.i
        BY <1>4, <2>1, <4>1, <4>3 DEF InstHandled
      <4> QED  BY <4>2, <4>3
    <3> QED  BY <3>1, <3>2
  <2> QED  BY <2>6, <2>7 DEF new
<1>9. Opened'
  <2>1. ASSUME NEW j \in DOMAIN inst', NEW did \in Parties[j] PROVE Has(party', PartyRow(j, did))
    BY <1>4, <2>1 DEF IInv, Opened, PartyHandled
  <2>2. \A j \in DOMAIN inst' : cStatus[j] # "None"
    BY <1>3, <1>4 DEF IInv, Opened
  <2>3. ASSUME NEW j \in Instr, cStatus[j] # "None"
        PROVE  Has(inst', j) \/ \E l \in Coming' : block'[l].i = j /\ block'[l].kind = "Created"
    <3>1. Has(inst, j) \/ \E l \in Coming : block[l].i = j /\ block[l].kind = "Created"
      BY <2>3 DEF IInv, Opened
    <3>2. e.kind = "Created" => Has(inst', e.i)
      BY DEF InstHandled
    <3> QED  BY <1>1, <1>4, <3>1, <3>2
  <2>4. ASSUME NEW n \in Coming', block'[n].kind = "Created"
        PROVE  /\ ~Has(inst', block'[n].i)
               /\ \A l \in Coming' : block'[l].i = block'[n].i /\ block'[l].kind = "Created" => l = n
    <3>1. /\ n \in Coming /\ n # pos /\ block'[n] = block[n]
          /\ ~Has(inst, block[n].i)
          /\ \A l \in Coming : block[l].i = block[n].i /\ block[l].kind = "Created" => l = n
      BY <1>1, <2>4 DEF IInv, Opened
    <3>2. e.kind = "Created" => e.i # block[n].i
      BY <1>1, <3>1
    <3> QED  BY <1>1, <1>4, <3>1, <3>2
  <2>5. ASSUME NEW n \in Coming', block'[n].kind \notin {"Created", "Auto"}
        PROVE  \/ Has(inst', block'[n].i)
               \/ \E l \in Coming' : l < n /\ block'[l].i = block'[n].i
                                            /\ block'[l].kind = "Created"
    <3>1. /\ n \in Coming /\ block'[n] = block[n]
          /\ \/ Has(inst, block[n].i)
             \/ \E l \in Coming : l < n /\ block[l].i = block[n].i /\ block[l].kind = "Created"
      BY <1>1, <2>5 DEF IInv, Opened
    <3>2. e.kind = "Created" => Has(inst', e.i)
      BY DEF InstHandled
    <3> QED  BY <1>1, <1>4, <3>1, <3>2
  <2> QED  BY <1>2, <2>1, <2>2, <2>3, <2>4, <2>5 DEF Opened
<1>10. Introduced'
  <2>1. Announced' = {j \in DOMAIN inst' :
                        /\ inst'[j].mediators = Mediators[j]
                        /\ \A did \in Mediators[j] : Has(party', MediatorRow(j, did))}
    BY <1>2 DEF Announced
  <2>2. Announced \subseteq Announced'
    <3> SUFFICES ASSUME NEW j \in Announced PROVE j \in Announced'
      OBVIOUS
    <3>1. /\ j \in DOMAIN inst /\ j \in DOMAIN inst' /\ inst[j].mediators = Mediators[j]
          /\ \A did \in Mediators[j] : Has(party', MediatorRow(j, did))
      BY <1>4 DEF Announced, PartyHandled
    <3>2. inst'[j].mediators = Mediators[j]
      BY <1>3, <3>1 DEF InstHandled
    <3> QED  BY <2>1, <3>1, <3>2
  <2>3. e.kind = Opener(Mediators[e.i]) => e.i \in Announced'
    BY <1>4, <2>1 DEF Opener, InstHandled, PartyHandled
  <2>4. ASSUME NEW j \in Instr, cStatus[j] # "None"
        PROVE  \/ j \in Announced'
               \/ \E l \in Coming' : block'[l].i = j /\ block'[l].kind = Opener(Mediators[j])
    <3>1. \/ j \in Announced
          \/ \E l \in Coming : block[l].i = j /\ block[l].kind = Opener(Mediators[j])
      BY <2>4 DEF IInv, Introduced
    <3> QED  BY <1>1, <2>2, <2>3, <3>1
  <2>5. ASSUME NEW n \in Coming', block'[n].kind = "Rejected"
        PROVE  \/ block'[n].i \in Announced'
               \/ \E l \in Coming' : /\ l < n /\ block'[l].i = block'[n].i
                                      /\ block'[l].kind = Opener(Mediators[block'[n].i])
    <3>1. /\ n \in Coming /\ block'[n] = block[n]
          /\ \/ block[n].i \in Announced
             \/ \E l \in Coming : /\ l < n /\ block[l].i = block[n].i
                                   /\ block[l].kind = Opener(Mediators[block[n].i])
      BY <1>1, <2>5 DEF IInv, Introduced
    <3> QED  BY <1>1, <2>2, <2>3, <3>1
  <2> QED  BY <1>2, <2>4, <2>5 DEF Introduced
<1>11. Owned'
  <2> SUFFICES ASSUME NEW id \in DOMAIN aff' \union receipt'
               PROVE  \E i : Owner(id, i)
    BY <1>2 DEF Owned, Owner
  <2>1. \A k \in DOMAIN aff \union receipt : \E i : Owner(k, i)
    BY DEF IInv, Owned, Owner
  <2> QED  BY <1>3, <2>1 DEF AffHandled, ReceiptHandled
<1>12. MediatorsTold'
  <2> SUFFICES ASSUME NEW j \in Instr, NEW did \in Dids, cStatus[j] \in Live
               PROVE  LET told == {n \in Coming' : /\ block'[n].i = j /\ block'[n].did = did
                                                   /\ block'[n].kind \in MediatorKinds}
                      IN /\ told = {} => (Has(aff', MediatorRow(j, did)) <=> did \in cMediated[j])
                         /\ \A n \in told : (\A l \in told : l <= n) =>
                              (block'[n].kind = "MediatorAffirmed" <=> did \in cMediated[j])
    BY <1>2 DEF MediatorsTold
  <2> DEFINE told == {n \in Coming : /\ block[n].i = j /\ block[n].did = did
                                     /\ block[n].kind \in MediatorKinds}
             new == {n \in Coming' : /\ block'[n].i = j /\ block'[n].did = did
                                     /\ block'[n].kind \in MediatorKinds}
  <2>1. /\ told = {} => (Has(aff, MediatorRow(j, did)) <=> did \in cMediated[j])
        /\ \A n \in told : (\A l \in told : l <= n) =>
             (block[n].kind = "MediatorAffirmed" <=> did \in cMediated[j])
    BY DEF IInv, MediatorsTold
  <2>2. new = told \ {pos}
    BY <1>1
  <2>3. pos \in told <=> j = e.i /\ e.did = did /\ e.kind \in MediatorKinds
    BY <1>1
  <2>4. \A n \in told : n >= pos /\ n \in Int
    BY <1>1
  <2>5. \A n \in new : block'[n].kind = block[n].kind
    BY <1>1
  <2> HIDE DEF told, new
  <2>6. ASSUME NEW n \in new, \A l \in new : l <= n
        PROVE  block'[n].kind = "MediatorAffirmed" <=> did \in cMediated[j]
    <3>1. \A l \in told : l <= n
      BY <2>2, <2>4, <2>6
    <3> QED  BY <2>1, <2>2, <2>5, <3>1
  <2>7. ASSUME new = {}
        PROVE  Has(aff', MediatorRow(j, did)) <=> did \in cMediated[j]
    <3>1. CASE pos \in told
      <4>1. block[pos].kind = "MediatorAffirmed" <=> did \in cMediated[j]
        BY <2>1, <2>2, <2>4, <2>7, <3>1
      <4> QED  BY <1>1, <2>3, <3>1, <4>1 DEF AffHandled, MediatorKinds
    <3>2. CASE pos \notin told
      <4>1. told = {}
        BY <2>2, <2>7, <3>2
      <4> QED  BY <2>1, <2>3, <3>2, <4>1 DEF AffHandled
    <3> QED  BY <3>1, <3>2
  <2> QED  BY <2>6, <2>7 DEF new
<1>13. ReceiptsTold'
  <2> SUFFICES ASSUME NEW j \in Instr, NEW did \in Dids
               PROVE  did \in cClaimed[j] <=>
                        \/ PartyRow(j, did) \in receipt'
                        \/ \E n \in Coming' : /\ block'[n].i = j /\ block'[n].did = did
                                              /\ block'[n].kind = "Receipt"
    BY <1>2 DEF ReceiptsTold
  <2>1. did \in cClaimed[j] <=>
          \/ PartyRow(j, did) \in receipt
          \/ \E n \in Coming : /\ block[n].i = j /\ block[n].did = did
                               /\ block[n].kind = "Receipt"
    BY DEF IInv, ReceiptsTold
  <2>2. PartyRow(j, did) \in receipt' <=>
          PartyRow(j, did) \in receipt \/ (j = e.i /\ did = e.did /\ e.kind = "Receipt")
    <3>1. PartyRow(j, did) = PartyRow(e.i, e.did) => j = e.i /\ did = e.did
      BY PartyIdDistinct
    <3> QED  BY <3>1 DEF ReceiptHandled
  <2>3. (\E n \in Coming : /\ block[n].i = j /\ block[n].did = did /\ block[n].kind = "Receipt")
        <=> \/ j = e.i /\ did = e.did /\ e.kind = "Receipt"
            \/ \E n \in Coming' : /\ block'[n].i = j /\ block'[n].did = did
                                  /\ block'[n].kind = "Receipt"
    BY <1>1
  <2> QED  BY <2>1, <2>2, <2>3
<1> QED  BY <1>6, <1>7, <1>8, <1>9, <1>10, <1>11, <1>12, <1>13 DEF IInv

\* Handing a block to the handlers changes nothing but the place in it.
LEMMA SealStep ==
  ASSUME IInv, Seal \/ UNCHANGED vars
  PROVE  IInv'
<1>1. /\ block' = block /\ UNCHANGED <<setup, pallet, tables>>
      /\ Coming' = Coming /\ pos' \in 0..Len(block')
  BY DEF Seal, vars, Coming, IInv, Types
<1>2. /\ Instr' = Instr /\ Dids' = Dids /\ Mediators' = Mediators
      /\ Parties' = Parties /\ Recorded' = Recorded
      /\ cStatus' = cStatus /\ cMediated' = cMediated /\ cClaimed' = cClaimed
      /\ inst' = inst /\ party' = party /\ aff' = aff /\ receipt' = receipt
  BY <1>1, SetupStays DEF pallet, tables
<1>3. Announced' = Announced
  BY <1>2 DEF Announced, Has
<1> USE <1>1, <1>2, <1>3 DEF IInv, Has
<1>4. Types'
  BY DEF Types
<1>5. EventsTrue' /\ StatusTold'
  BY DEF EventsTrue, StatusTold
<1>6. Opened' /\ Introduced' /\ Owned'
  BY DEF Opened, Introduced, Owned
<1>7. MediatorsTold' /\ ReceiptsTold'
  BY DEF MediatorsTold, ReceiptsTold
<1> QED  BY <1>4, <1>5, <1>6, <1>7

\* The inductive invariant.
THEOREM SettlementInv == Spec => []IInv
<1>1. IInv /\ [Next]_vars => IInv'
  <2> SUFFICES ASSUME IInv, [Next]_vars PROVE IInv'
    OBVIOUS
  <2>1. CASE Pallet
    <3>1. PICK i \in Instr :
            \/ \E auto \in SUBSET OnChain(i) : Create(i, auto)
            \/ \E s \in OnChain(i) : Affirm(i, s) \/ Withdraw(i, s)
            \/ \E did \in Dids : Mediate(i, did) \/ Unmediate(i, did)
                                 \/ Claim(i, did) \/ Reject(i, did)
            \/ \E status \in {"Executed", "Failed", "Locked"} : Finalize(i, status)
      BY <2>1 DEF Pallet
    <3>2. CASE \E auto \in SUBSET OnChain(i) : Create(i, auto)
      BY <3>2, CreationSteps, CreationStep DEF IInv
    <3>3. CASE ~\E auto \in SUBSET OnChain(i) : Create(i, auto)
      <4>1. \E a : Single(i, a)
        BY <3>1, <3>3, SingleSteps DEF IInv
      <4> QED  BY <4>1, SingleStep
    <3> QED  BY <3>2, <3>3
  <2>2. CASE Handlers
    BY <2>2, HandlersHandle, HandlingStep
  <2>3. CASE Seal \/ UNCHANGED vars
    BY <2>3, SealStep
  <2> QED  BY <2>1, <2>2, <2>3 DEF Next
<1> QED  BY <1>1, InitInv, PTL DEF Spec

-----------------------------------------------------------------------------
\* Between blocks every instruction of the chain has its row with the chain's
\* status, however many status events of it a block held.
THEOREM StatusAlwaysMirrorsChain == Spec => []StatusMirrorsChain
<1>1. IInv => StatusMirrorsChain
  <2> SUFFICES ASSUME IInv, CaughtUp PROVE StatusMirrorsChain
    BY DEF StatusMirrorsChain
  <2>1. Coming = {}
    BY DEF CaughtUp, Coming
  <2> QED  BY <2>1 DEF IInv, StatusTold, StatusMirrorsChain
<1> QED  BY <1>1, SettlementInv, PTL

\* No handler throws for want of the row of its instruction.
THEOREM InstructionAlwaysKnown == Spec => []InstructionKnown
<1>1. IInv => InstructionKnown
  <2> SUFFICES ASSUME IInv, pos > 0,
                      e.kind \in {"Rejected", "Executed", "Failed", "Locked", "Mediators"}
               PROVE  Has(inst, e.i)
    BY DEF InstructionKnown
  <2>1. pos \in Coming /\ (\A n \in Coming : ~(n < pos)) /\ e = block[pos]
    BY DEF Coming, IInv, Types, e
  <2> QED  BY <2>1 DEF IInv, Opened
<1> QED  BY <1>1, SettlementInv, PTL

\* Between blocks an affirmation, automatic ones that came before their
\* instruction too, and a receipt refer to the row of a party.
THEOREM AffirmationAlwaysHasParty == Spec => []AffirmationHasParty
<1>1. IInv => AffirmationHasParty
  <2> SUFFICES ASSUME IInv, CaughtUp, NEW id \in DOMAIN aff \union receipt
               PROVE  id \in DOMAIN party
    BY DEF AffirmationHasParty
  <2>1. Coming = {}
    BY DEF CaughtUp, Coming
  <2>2. PICK i \in Instr : /\ cStatus[i] # "None"
                           /\ \/ \E did \in Parties[i] : id = PartyRow(i, did)
                              \/ \E did \in Mediators[i] : id = MediatorRow(i, did)
    BY DEF IInv, Owned
  <2>3. i \in Announced
    BY <2>1, <2>2 DEF IInv, Introduced
  <2> QED  BY <2>2, <2>3 DEF IInv, Opened, Announced, Has
<1> QED  BY <1>1, SettlementInv, PTL

\* Between blocks the mediators of an open instruction, those of them that
\* affirm, and the receipts that were claimed are those of the chain.
THEOREM MediatorsAlwaysMirrorChain == Spec => []MediatorsMirrorChain
<1>1. IInv => MediatorsMirrorChain
  <2> SUFFICES ASSUME IInv, CaughtUp, NEW i \in Instr,
                      cStatus[i] \in {"Created", "Failed", "Locked"}
               PROVE  /\ inst[i].mediators = Mediators[i]
                      /\ {did \in Dids : Has(aff, PartyId(i, did, TRUE))} = cMediated[i]
                      /\ {did \in Dids : PartyId(i, did, FALSE) \in receipt} = cClaimed[i]
    BY DEF MediatorsMirrorChain
  <2>1. Coming = {}
    BY DEF CaughtUp, Coming
  <2>2. inst[i].mediators = Mediators[i]
    BY <2>1 DEF IInv, Introduced, Announced
  <2>3. cMediated[i] \subseteq Dids /\ cClaimed[i] \subseteq Dids
    BY DEF IInv, Types
  <2>4. \A did \in Dids : MediatorRow(i, did) \in DOMAIN aff <=> did \in cMediated[i]
    BY <2>1 DEF IInv, MediatorsTold, Live, Has
  <2>5. \A did \in Dids : PartyRow(i, did) \in receipt <=> did \in cClaimed[i]
    BY <2>1 DEF IInv, ReceiptsTold
  <2> QED  BY <2>2, <2>3, <2>4, <2>5 DEF MediatorRow, PartyRow, Has
<1> QED  BY <1>1, SettlementInv, PTL

-----------------------------------------------------------------------------
(* The portfolios of a party.                                              *)

\* No side without a number comes, for one DID, in the leg of a portfolio or in
\* a later one: what handleInstructionCreated needs to list the portfolios.
KeepsPortfolios(legs) ==
  \A m, n \in DOMAIN legs : \A s \in Ends(legs[m]), t \in Ends(legs[n]) :
    m <= n /\ s[1] = t[1] /\ s[2] \in Portfolio => t[2] \in Portfolio

\* The row of a party is what the creation made it.
Listed == [i \in Instr |-> PartiesOf(i)]
PartiesKept ==
  \A i \in DOMAIN inst : \A did \in Parties[i] : party[PartyRow(i, did)] = Listed[i][did]

\* The two sides of a leg, numbered one after the other.
LEMMA Halves ==
  /\ \A m \in Nat : /\ ((2 * m - 1) + 1) \div 2 = m /\ (2 * m - 1) % 2 = 1
                    /\ ((2 * m) + 1) \div 2 = m /\ (2 * m) % 2 = 0
  /\ \A n \in Nat \ {0} : \E m \in Nat : m = (n + 1) \div 2 /\ n \in {2 * m - 1, 2 * m}
OBVIOUS

\* A set of numbers with a bound has a greatest one.
LEMMA GreatestExists ==
  ASSUME NEW n \in Nat, NEW S, S \subseteq 0..n, S # {}
  PROVE  \E x \in S : \A y \in S : y <= x
<1> DEFINE T == {n - x : x \in S}
<1>1. T \subseteq Nat /\ T # {}
  <2>1. \A x \in S : n - x \in Nat
    OBVIOUS
  <2> QED  BY <2>1
<1>2. PICK t \in T : \A u \in T : ~(<<u, t>> \in OpToRel(<, Nat))
  BY <1>1, WFMin, NatLessThanWellFounded
<1>3. ASSUME NEW u \in T PROVE t <= u
  <2>1. u \in Nat /\ t \in Nat
    BY <1>1
  <2>2. u < t => <<u, t>> \in OpToRel(<, Nat)
    BY <2>1 DEF OpToRel
  <2>3. ~(u < t)
    BY <1>2, <2>2, Zenon
  <2> QED  BY <2>1, <2>3
<1>4. PICK x \in S : t = n - x
  OBVIOUS
<1>5. ASSUME NEW y \in S PROVE y <= x
  BY <1>3, <1>4
<1> QED  BY <1>5

\* The side of a number: PartiesOf goes through them in this order.
Side(legs, n) ==
  LET l == legs[(n + 1) \div 2]
  IN IF n % 2 = 1 THEN <<l.from, l.fromHold>> ELSE <<l.to, l.toHold>>

\* The sides of a leg have its two numbers, and a number a leg.
LEMMA SideNumbers ==
  ASSUME NEW legs, Len(legs) \in Nat
  PROVE  /\ \A m \in 1..Len(legs) : \A s \in Ends(legs[m]) :
              \E n \in 1..(2 * Len(legs)) : n \in {2 * m - 1, 2 * m} /\ Side(legs, n) = s
         /\ \A n \in 1..(2 * Len(legs)) :
              \E m \in 1..Len(legs) : n \in {2 * m - 1, 2 * m} /\ Side(legs, n) \in Ends(legs[m])
<1>1. ASSUME NEW m \in 1..Len(legs)
      PROVE  /\ 2 * m - 1 \in 1..(2 * Len(legs)) /\ 2 * m \in 1..(2 * Len(legs))
             /\ Side(legs, 2 * m - 1) = <<legs[m].from, legs[m].fromHold>>
             /\ Side(legs, 2 * m) = <<legs[m].to, legs[m].toHold>>
  BY <1>1, Halves DEF Side
<1>2. ASSUME NEW m \in 1..Len(legs), NEW s \in Ends(legs[m])
      PROVE  \E n \in 1..(2 * Len(legs)) : n \in {2 * m - 1, 2 * m} /\ Side(legs, n) = s
  BY <1>1 DEF Ends
<1>3. ASSUME NEW n \in 1..(2 * Len(legs))
      PROVE  \E m \in 1..Len(legs) : n \in {2 * m - 1, 2 * m} /\ Side(legs, n) \in Ends(legs[m])
  <2>1. PICK m \in Nat : m = (n + 1) \div 2 /\ n \in {2 * m - 1, 2 * m}
    BY Halves
  <2>2. m \in 1..Len(legs)
    BY <2>1
  <2> QED  BY <1>1, <2>1, <2>2 DEF Ends
<1> QED  BY <1>2, <1>3

\* A portfolio that no later side resets is among those of its party.
LEMMA PortfoliosListed ==
  ASSUME NEW i \in Instr, Len(Legs[i]) \in Nat, DOMAIN Legs[i] = 1..Len(Legs[i]),
         KeepsPortfolios(Legs[i]),
         NEW s \in OnChain(i), s[2] \in Portfolio
  PROVE  s[2] \in PartiesOf(i)[s[1]]
<1> DEFINE did == s[1]
           places == 1..(2 * Len(Legs[i]))
           ends == [n \in places |-> Side(Legs[i], n)]
           resets == {n \in DOMAIN ends : ends[n][1] = did /\ Number(ends[n][2]) = NoNumber}
           last == CHOOSE n \in resets \union {0} : \A m \in resets \union {0} : m <= n
           numbers == {ends[n][2] : n \in {m \in DOMAIN ends : ends[m][1] = did /\ m > last}}
<1>1. PICK m \in 1..Len(Legs[i]) : s \in Ends(Legs[i][m])
  BY DEF OnChain, AllSides
<1>2. PICK n \in places : n \in {2 * m - 1, 2 * m} /\ Side(Legs[i], n) = s
  BY <1>1, SideNumbers
<1>3. ASSUME NEW k \in resets, k >= n PROVE FALSE
  <2>1. k \in places /\ Side(Legs[i], k)[1] = did /\ Number(Side(Legs[i], k)[2]) = NoNumber
    OBVIOUS
  <2>2. PICK l \in 1..Len(Legs[i]) : k \in {2 * l - 1, 2 * l} /\ Side(Legs[i], k) \in Ends(Legs[i][l])
    BY <2>1, SideNumbers
  <2>3. l >= m
    BY <1>2, <1>3, <2>2
  <2>4. Side(Legs[i], k)[2] \in Portfolio
    BY <1>1, <2>1, <2>2, <2>3 DEF KeepsPortfolios
  <2> QED  BY <2>1, <2>4, SetupAssumption DEF Number
<1>4. last < n
  <2>1. resets \subseteq places
    OBVIOUS
  <2> HIDE DEF resets
  <2>2. resets \union {0} \subseteq 0..(2 * Len(Legs[i])) /\ 2 * Len(Legs[i]) \in Nat
    BY <2>1
  <2>3. \E x \in resets \union {0} : \A y \in resets \union {0} : y <= x
    BY <2>2, GreatestExists
  <2>4. last \in resets \union {0}
    BY <2>3
  <2> HIDE DEF last
  <2> QED  BY <1>3, <2>1, <2>4
<1>5. s[2] \in numbers
  <2> HIDE DEF last
  <2> QED  BY <1>2, <1>4
<1>6. did \in PartyDids(i)
  BY SideFacts
<1>7. PartiesOf(i)[did] = IF numbers = {} THEN {NoNumber} ELSE numbers
  BY <1>6 DEF PartiesOf, Side
<1> QED  BY <1>5, <1>7

\* A handler leaves the rows of parties it has made as they are.
LEMMA PartyRowsStay ==
  ASSUME IInv, Handlers, NEW i \in DOMAIN inst, NEW did \in Parties[i]
  PROVE  party'[PartyRow(i, did)] = party[PartyRow(i, did)]
<1> USE DEF Has
<1>1. PartyRow(i, did) \in DOMAIN party
  BY DEF IInv, Opened
<1>2. CASE handleInstructionCreated
  <2> DEFINE parties == PartiesOf(e.i)
             ids == {PartyId(e.i, d, FALSE) : d \in DOMAIN parties}
  <2>1. party' = SaveAll(party, [id \in ids |-> parties[id[2]]])
    BY <1>2 DEF handleInstructionCreated
  <2>2. e.i # i
    BY <1>2, EventFacts DEF handleInstructionCreated
  <2>3. \A d : PartyRow(i, did) # PartyRow(e.i, d)
    BY <2>2, PartyIdDistinct
  <2>4. PartyRow(i, did) \notin ids
    BY <2>3 DEF PartyRow
  <2> HIDE DEF parties, ids
  <2> QED  BY <1>1, <2>1, <2>4 DEF SaveAll
<1>3. CASE handleInstructionMediators
  <2> DEFINE ids == {PartyId(e.i, d, TRUE) : d \in Mediators[e.i]}
  <2>1. party' = SaveAll(party, [id \in ids |-> {NoNumber}])
    BY <1>3 DEF handleInstructionMediators
  <2>2. \A d : PartyRow(i, did) # MediatorRow(e.i, d)
    BY PartyIdDistinct
  <2>3. PartyRow(i, did) \notin ids
    BY <2>2 DEF MediatorRow
  <2> HIDE DEF ids
  <2> QED  BY <1>1, <2>1, <2>3 DEF SaveAll
<1>4. CASE handleReceiptClaimed
  BY <1>1, <1>4 DEF handleReceiptClaimed, Save
<1>5. CASE party' = party
  BY <1>5
<1> QED  BY <1>2, <1>3, <1>4, <1>5
         DEF Handlers, handleInstructionUpdate, handleAutomaticAffirmation,
             handleAffirmationWithdrawn, handleInstructionRejected,
             handleInstructionFinalizedEvent, handleMediatorAffirmationReceived,
             handleMediatorAffirmationWithdrawn

\* The rows a creation makes.
LEMMA PartyRowsMade ==
  ASSUME IInv, handleInstructionCreated, NEW did \in Parties[e.i]
  PROVE  party'[PartyRow(e.i, did)] = Listed[e.i][did]
<1> DEFINE parties == PartiesOf(e.i)
           ids == {PartyId(e.i, d, FALSE) : d \in DOMAIN parties}
           rows == [id \in ids |-> parties[id[2]]]
<1>1. party' = SaveAll(party, rows)
  BY DEF handleInstructionCreated
<1>2. DOMAIN parties = Parties[e.i]
  BY EventFacts, SideFacts DEF handleInstructionCreated, PartiesOf
<1> HIDE DEF parties
<1>3. PartyRow(e.i, did) \in ids /\ PartyRow(e.i, did)[2] = did
  BY <1>2 DEF PartyRow, PartyId
<1>4. rows[PartyRow(e.i, did)] = parties[did]
  BY <1>3
<1> HIDE DEF rows
<1>5. DOMAIN rows = ids
  BY DEF rows
<1>6. party'[PartyRow(e.i, did)] = parties[did]
  BY <1>1, <1>3, <1>4, <1>5 DEF SaveAll, Has
<1> QED  BY <1>6, EventFacts DEF handleInstructionCreated, Listed, parties

\* If the legs of no instruction reset a portfolio, a party lists them all.
\* The run on mixed legs shows that the condition is needed.
THEOREM PartyAlwaysListsPortfolios ==
  ASSUME \A s \in Setups : \A i \in DOMAIN s.legs :
           /\ Len(s.legs[i]) \in Nat /\ DOMAIN s.legs[i] = 1..Len(s.legs[i])
           /\ KeepsPortfolios(s.legs[i])
  PROVE  Spec => []PartyListsPortfolios
<1>1. Init => PartiesKept
  BY DEF Init, PartiesKept, NoTable
<1>2. IInv /\ PartiesKept /\ [Next]_vars => PartiesKept'
  <2> SUFFICES ASSUME IInv, PartiesKept, [Next]_vars PROVE PartiesKept'
    OBVIOUS
  <2>1. setup' = setup
    BY DEF Next, Pallet, Create, Affirm, Withdraw, Mediate, Unmediate, Claim, Reject, Finalize,
           Deposit, Seal, Handlers, Handling, vars, handleInstructionCreated,
           handleInstructionUpdate, handleAutomaticAffirmation, handleAffirmationWithdrawn,
           handleInstructionRejected, handleInstructionFinalizedEvent,
           handleInstructionMediators, handleMediatorAffirmationReceived,
           handleMediatorAffirmationWithdrawn, handleReceiptClaimed
  <2>2. Parties' = Parties
    BY <2>1, SetupStays
  <2>3. Listed' = Listed
    BY <2>1, SetupStays
       DEF Listed, PartiesOf, PartyDids, AllSides, Legs, Instr
  <2>4. CASE inst' = inst /\ party' = party
    BY <2>2, <2>3, <2>4 DEF PartiesKept
  <2>5. CASE Handlers
    <3> SUFFICES ASSUME NEW i \in DOMAIN inst', NEW did \in Parties[i]
                 PROVE  party'[PartyRow(i, did)] = Listed[i][did]
      BY <2>2, <2>3 DEF PartiesKept
    <3>1. CASE i \in DOMAIN inst
      BY <2>5, <3>1, PartyRowsStay DEF PartiesKept
    <3>2. CASE i \notin DOMAIN inst
      <4>1. InstHandled /\ Handling(Kinds)
        BY <2>5, HandlersHandle
      <4>2. i = e.i /\ e.kind = "Created"
        BY <3>2, <4>1 DEF InstHandled
      <4>3. handleInstructionCreated
        BY <2>5, <4>2 DEF Handlers, Handling, handleInstructionUpdate,
           handleAutomaticAffirmation, handleAffirmationWithdrawn, handleInstructionRejected,
           handleInstructionFinalizedEvent, handleInstructionMediators,
           handleMediatorAffirmationReceived, handleMediatorAffirmationWithdrawn,
           handleReceiptClaimed
      <4> QED  BY <4>2, <4>3, PartyRowsMade
    <3> QED  BY <3>1, <3>2
  <2>6. CASE Pallet
    BY <2>4, <2>6 DEF Pallet, Create, Affirm, Withdraw, Mediate, Unmediate, Claim, Reject,
                      Finalize, Deposit, tables
  <2>7. CASE Seal
    BY <2>4, <2>7 DEF Seal, tables
  <2>8. CASE UNCHANGED vars
    BY <2>4, <2>8 DEF vars, tables
  <2> QED  BY <2>5, <2>6, <2>7, <2>8 DEF Next
<1>3. IInv /\ PartiesKept => PartyListsPortfolios
  <2> SUFFICES ASSUME IInv, PartiesKept, NEW i \in DOMAIN inst,
                      NEW s \in OnChain(i), s[2] \in Portfolio
               PROVE  s[2] \in party[PartyId(i, s[1], FALSE)]
    BY DEF PartyListsPortfolios
  <2>1. i \in Instr /\ setup \in Setups
    BY DEF IInv, Types
  <2>2. /\ Len(Legs[i]) \in Nat /\ DOMAIN Legs[i] = 1..Len(Legs[i])
        /\ KeepsPortfolios(Legs[i])
    BY <2>1 DEF Legs, Instr
  <2>3. s[2] \in PartiesOf(i)[s[1]]
    BY <2>1, <2>2, PortfoliosListed
  <2>4. s[1] \in Parties[i]
    BY <2>1, SideFacts
  <2> QED  BY <2>1, <2>3, <2>4 DEF PartiesKept, Listed, PartyRow
<1> QED  BY <1>1, <1>2, <1>3, SettlementInv, PTL DEF Spec

-----------------------------------------------------------------------------
(* Rejections.                                                             *)

\* An affirmation row; a list of its portfolios has no duplicates.
Rows(S) == [status : {"Affirmed", "Rejected"},
            portfolios : {list \in Seq(S) : IsInjective(list)}]
AffTyped == \E S : aff \in [DOMAIN aff -> Rows(S)]

\* The affirmation row of an id shows a rejection.
Shows(id) == id \in DOMAIN aff /\ aff[id].status = "Rejected"
About(i) == {n \in Coming : block[n].i = i}

\* The rejection of an instruction is the last of its events to come, and the
\* only one of its kind, or else nothing of the instruction is to come.
RejectionTold ==
  \A i \in Instr :
    \/ cStatus[i] # "Rejected" /\ \A id : Shows(id) => id[1] # i
    \/ /\ cStatus[i] = "Rejected" /\ \A id : Shows(id) => id[1] # i
       /\ \E n \in About(i) : /\ block[n].kind = "Rejected"
                              /\ \A m \in About(i) : m <= n /\ (block[m].kind = "Rejected" => m = n)
    \/ /\ cStatus[i] = "Rejected" /\ About(i) = {}
       /\ \E id : Shows(id) /\ id[1] = i /\ \A k : Shows(k) /\ k[1] = i => k = id

RejectInv == IInv /\ AffTyped /\ RejectionTold

\* A row with more portfolios is a row.
LEMMA RowsGrow ==
  ASSUME NEW S, NEW T, S \subseteq T
  PROVE  Rows(S) \subseteq Rows(T)
BY DEF Rows

\* A new row affirms, and one that is there keeps its status.
LEMMA AffirmedRow ==
  ASSUME NEW S, NEW table, NEW id, NEW hold,
         Has(table, id) => table[id] \in Rows(S), Number(hold) \in S
  PROVE  /\ Affirmed(table, id, hold) \in Rows(S)
         /\ Affirmed(table, id, hold).status =
              IF Has(table, id) THEN table[id].status ELSE "Affirmed"
<1>1. CASE Has(table, id)
  <2>1. PICK row \in Rows(S) : row = table[id]
    BY <1>1
  <2>2. row.portfolios \in Seq(S) /\ IsInjective(row.portfolios)
    BY DEF Rows
  <2>3. PICK list : list = AddIfNotIncludes(row.portfolios, Number(hold))
    OBVIOUS
  <2>4. list \in Seq(S) /\ IsInjective(list)
    BY <2>2, <2>3, ItemAdded
  <2>5. [row EXCEPT !.portfolios = list] \in Rows(S)
        /\ [row EXCEPT !.portfolios = list].status = row.status
    BY <2>4 DEF Rows
  <2>6. Affirmed(table, id, hold) = [row EXCEPT !.portfolios = list]
    BY <1>1, <2>1, <2>3 DEF Affirmed
  <2> QED  BY <1>1, <2>1, <2>5, <2>6
<1>2. CASE ~Has(table, id)
  <2>1. Affirmed(table, id, hold) = [status |-> "Affirmed", portfolios |-> <<Number(hold)>>]
    BY <1>2 DEF Affirmed
  <2>2. <<Number(hold)>> \in Seq(S) /\ IsInjective(<<Number(hold)>>)
    BY DEF IsInjective
  <2> QED  BY <1>2, <2>1, <2>2 DEF Rows
<1> QED  BY <1>1, <1>2

\* Of the rows a rescan reads and writes, the one that stays keeps its status.
LEMMA RescannedRow ==
  ASSUME NEW S, NEW n \in Nat, DOMAIN block = 1..n,
         \A k \in 1..n : Number(block[k].hold) \in S,
         NEW table, table \in [DOMAIN table -> Rows(S)],
         NEW id, NEW picked \in SUBSET (1..n), picked # {},
         NEW row, row = RowAfter(table, id, picked)
  PROVE  row \in Rows(S)
         /\ row.status = IF Has(table, id) THEN table[id].status ELSE "Affirmed"
<1> DEFINE list == [i \in DOMAIN block |-> i]
           status == IF Has(table, id) THEN table[id].status ELSE "Affirmed"
           X == [DOMAIN table -> Rows(S)] \union [DOMAIN table \union {id} -> Rows(S)]
           Next1(k, t) == IF list[k] \in picked
                          THEN Save(t, id, Affirmed(t, id, block[list[k]].hold)) ELSE t
           step == [p \in (1..n) \X X |-> Next1(p[1], p[2])]
           Solves(g) == g = [s \in SUBSET (1..n) |->
                               IF s = {} THEN table ELSE Next1(Max(s), g[s \ {Max(s)}])]
           Kept(k, t) == /\ id \in DOMAIN table \/ (\E i \in picked : i <= k) => id \in DOMAIN t
                         /\ id \in DOMAIN t => t[id].status = status
           Good == [k \in 0..n |-> {t \in X : Kept(k, t)}]
           Added(t, m) == IF m \in picked
                          THEN Save(t, id, Affirmed(t, id, block[m].hold)) ELSE t
           result == FoldLeft(Added, table, list)
<1>1. /\ n \in Nat /\ DOMAIN list = 1..n /\ \A k \in 1..n : list[k] = k
  OBVIOUS
<1>2. result = (CHOOSE g : Solves(g))[1..n]
  BY <1>1 DEF FoldLeft, MapThenFoldSet
<1>0. table \in X
  BY DEF X
<1>3. ASSUME NEW k \in 1..n, NEW t \in X
      PROVE  /\ Next1(k, t) \in X
             /\ DOMAIN t \subseteq DOMAIN Next1(k, t)
             /\ k \in picked => id \in DOMAIN Next1(k, t)
             /\ id \in DOMAIN t => Next1(k, t)[id].status = t[id].status
             /\ id \notin DOMAIN t /\ id \in DOMAIN Next1(k, t) =>
                  Next1(k, t)[id].status = "Affirmed"
  <2>1. CASE k \notin picked
    BY <1>1, <1>3, <2>1
  <2>2. CASE k \in picked
    <3>1. PICK new : new = Affirmed(t, id, block[k].hold)
      OBVIOUS
    <3>2. Next1(k, t) = Save(t, id, new)
      BY <1>1, <2>2, <3>1
    <3>3. Has(t, id) => t[id] \in Rows(S)
      BY DEF Has
    <3>4. Number(block[k].hold) \in S
      OBVIOUS
    <3>5. new \in Rows(S) /\ new.status = IF Has(t, id) THEN t[id].status ELSE "Affirmed"
      BY <3>1, <3>3, <3>4, AffirmedRow
    <3>6. DOMAIN t \in {DOMAIN table, DOMAIN table \union {id}}
          /\ \A j \in DOMAIN t : t[j] \in Rows(S)
      OBVIOUS
    <3>7. Save(t, id, new) \in [DOMAIN table \union {id} -> Rows(S)]
          /\ Save(t, id, new)[id] = new /\ DOMAIN Save(t, id, new) = DOMAIN t \union {id}
      BY <3>5, <3>6 DEF Save
    <3> HIDE DEF Next1
    <3> QED  BY <3>2, <3>5, <3>7 DEF Has
  <2> QED  BY <2>1, <2>2
<1>4. PICK f \in [SUBSET (1..n) -> X] : Unfolds(f, n, table, step)
  <2>1. step \in [(1..n) \X X -> X]
    BY <1>3
  <2>2. n \in Nat
    BY <1>1
  <2> HIDE DEF step, X
  <2> QED  BY <1>0, <2>1, <2>2, FoldExists, Zenon
<1>5. Solves(f)
  <2>1. ASSUME NEW s \in SUBSET (1..n), s # {}
        PROVE  step[<<Max(s), f[s \ {Max(s)}]>>] = Next1(Max(s), f[s \ {Max(s)}])
    <3>1. Max(s) \in 1..n /\ f[s \ {Max(s)}] \in X
      BY <1>1, <2>1, LastPosition
    <3> HIDE DEF Next1, X
    <3> QED  BY <3>1
  <2> HIDE DEF step, Next1
  <2> QED  BY <1>4, <2>1 DEF Unfolds
<1>6. PICK g : Solves(g) /\ result = g[1..n]
  BY <1>2, <1>5
<1>7. g[{}] = table
  BY <1>6
<1>8. \A k \in 1..n : g[1..k] = Next1(k, g[1..(k - 1)])
  <2> SUFFICES ASSUME NEW k \in 1..n PROVE g[1..k] = Next1(k, g[1..(k - 1)])
    OBVIOUS
  <2>1. 1..k \in SUBSET (1..n) /\ 1..k # {}
    BY <1>1
  <2>2. Max(1..k) = k /\ (1..k) \ {Max(1..k)} = 1..(k - 1)
    BY <1>1, LastPosition
  <2> HIDE DEF Next1
  <2> QED  BY <1>6, <2>1, <2>2
<1>9. \A k \in 1..n : g[1..(k - 1)] \in X => g[1..k] = step[<<k, g[1..(k - 1)]>>]
  <2> HIDE DEF Next1, X
  <2> QED  BY <1>8
<1>10. table \in Good[0]
  <2>1. ~\E i \in picked : i <= 0
    BY <1>1
  <2>2. 0 \in 0..n /\ Kept(0, table)
    BY <1>1, <2>1 DEF Has
  <2> HIDE DEF Kept, X
  <2> QED  BY <1>0, <2>2
<1>11. ASSUME NEW k \in 1..n, NEW t \in Good[k - 1] PROVE step[<<k, t>>] \in Good[k]
  <2>1. /\ k \in 1..n /\ k - 1 \in 0..n /\ k \in 0..n
        /\ \A i \in picked : i <= k => i <= k - 1 \/ i = k
    BY <1>1
  <2>2. t \in X /\ Kept(k - 1, t)
    <3> HIDE DEF Kept, X
    <3> QED  BY <1>11, <2>1
  <2>3. step[<<k, t>>] = Next1(k, t) /\ Next1(k, t) \in X
    <3>1. Next1(k, t) \in X
      BY <1>3, <2>2
    <3> HIDE DEF Next1, X
    <3> QED  BY <2>1, <2>2, <3>1
  <2>4. Kept(k, Next1(k, t))
    <3>1. PICK u : u = Next1(k, t)
      OBVIOUS
    <3>2. /\ DOMAIN t \subseteq DOMAIN u
          /\ k \in picked => id \in DOMAIN u
          /\ id \in DOMAIN t => u[id].status = t[id].status
          /\ id \notin DOMAIN t /\ id \in DOMAIN u => u[id].status = "Affirmed"
      BY <1>3, <2>2, <3>1
    <3> HIDE DEF Next1, X
    <3>3. id \notin DOMAIN t => status = "Affirmed"
      BY <2>2 DEF Has
    <3> HIDE DEF status
    <3>4. Kept(k, u)
      BY <2>1, <2>2, <3>2, <3>3
    <3> QED  BY <3>1, <3>4
  <2> HIDE DEF Kept, Next1, step, X
  <2> QED  BY <2>1, <2>3, <2>4
<1>12. g[1..n] \in Good[n]
  <2>1. Good \in [0..n -> SUBSET X]
    OBVIOUS
  <2> HIDE DEF Good, step, X
  <2> QED  BY <1>1, <1>7, <1>9, <1>10, <1>11, <2>1, FoldKeeps
<1>13. result \in X /\ Kept(n, result)
  <2>1. n \in 0..n
    BY <1>1
  <2> HIDE DEF Kept, X
  <2> QED  BY <1>6, <1>12, <2>1
<1>14. row = result[id]
  BY DEF RowAfter
<1> HIDE DEF result
<1>15. id \in DOMAIN result
  <2>1. PICK last \in picked : last \in 1..n
    OBVIOUS
  <2>2. \E m \in picked : m <= n
    BY <1>1, <2>1
  <2> QED  BY <1>13, <2>2
<1> QED  BY <1>13, <1>14, <1>15

\* A rescan adds rows that affirm, and leaves the others their status.
LEMMA RescanStatuses ==
  ASSUME NEW S, block \in Seq(Recorded),
         NEW table, table \in [DOMAIN table -> Rows(S)],
         NEW result \in Rescanned(table)
  PROVE  /\ \E T : result \in [DOMAIN result -> Rows(T)]
         /\ DOMAIN table \subseteq DOMAIN result
         /\ \A id \in DOMAIN result :
              result[id].status = IF id \in DOMAIN table THEN table[id].status ELSE "Affirmed"
<1> DEFINE ids == {PartyId(a.i, a.did, FALSE) : a \in {b \in ToSet(block) : b.kind = "Auto"}}
           more == S \union {Number(block[n].hold) : n \in 1..Len(block)}
<1>1. PICK r : /\ result = SaveAll(table, r) /\ DOMAIN r = ids
               /\ \A id \in ids : \E picked \in (SUBSET AutoEvents(id)) \ {{}} :
                    r[id] = RowAfter(table, id, picked)
  <2>1. PICK r : /\ result = SaveAll(table, r) /\ DOMAIN r = ids
                 /\ \A id \in ids :
                      r[id] \in {RowAfter(table, id, picked) : picked \in (SUBSET AutoEvents(id)) \ {{}}}
    BY DEF Rescanned
  <2> QED  BY <2>1
<1>2. Len(block) \in Nat /\ DOMAIN block = 1..Len(block)
  OBVIOUS
<1>3. table \in [DOMAIN table -> Rows(more)]
  BY RowsGrow
<1>4. \A k \in 1..Len(block) : Number(block[k].hold) \in more
  OBVIOUS
<1> HIDE DEF ids, more
<1>5. ASSUME NEW id \in ids
      PROVE  r[id] \in Rows(more)
             /\ r[id].status = IF id \in DOMAIN table THEN table[id].status ELSE "Affirmed"
  <2>1. PICK picked \in (SUBSET AutoEvents(id)) \ {{}} : r[id] = RowAfter(table, id, picked)
    BY <1>1
  <2>2. picked \in SUBSET (1..Len(block)) /\ picked # {}
    <3>1. AutoEvents(id) \subseteq DOMAIN block
      BY Zenon DEF AutoEvents
    <3> QED  BY <1>2, <2>1, <3>1
  <2> QED  BY <1>2, <1>3, <1>4, <2>1, <2>2, RescannedRow DEF Has
<1>6. /\ result = [k \in DOMAIN table \union ids |-> IF k \in ids THEN r[k] ELSE table[k]]
  BY <1>1 DEF SaveAll, Has
<1>7. result \in [DOMAIN result -> Rows(more)]
  BY <1>3, <1>5, <1>6
<1> QED  BY <1>5, <1>6, <1>7

\* What a save does to the rows that show a rejection.
LEMMA SavedRow ==
  ASSUME NEW S, aff \in [DOMAIN aff -> Rows(S)], NEW id, NEW row \in Rows(S),
         aff' = Save(aff, id, row)
  PROVE  /\ AffTyped'
         /\ \A k : Shows(k)' <=> IF k = id THEN row.status = "Rejected" ELSE Shows(k)
<1>1. aff' = [k \in DOMAIN aff \union {id} |-> IF k = id THEN row ELSE aff[k]]
  BY DEF Save
<1>2. aff' \in [DOMAIN aff' -> Rows(S)]
  BY <1>1
<1>3. AffTyped'
  BY <1>2 DEF AffTyped
<1> QED  BY <1>1, <1>3 DEF Shows

\* The id of an affirmation row begins with its instruction.
LEMMA IdOfInstruction ==
  ASSUME NEW i, NEW did
  PROVE  PartyRow(i, did)[1] = i /\ MediatorRow(i, did)[1] = i
<1>1. \A b : PartyId(i, did, b)[1] = i
  BY DEF PartyId
<1> QED  BY <1>1, Zenon DEF PartyRow, MediatorRow

\* What a handler but that of a rejection does to the rows that show one:
\* none of another instruction goes, and none comes.
RejectionsKept ==
  \A id : /\ Shows(id)' => Shows(id)
          /\ Shows(id) /\ id[1] # e.i => Shows(id)'

\* And that of a rejection adds one.
RejectionAdded ==
  \E id : id[1] = e.i /\ \A k : Shows(k)' <=> k = id \/ Shows(k)

\* Only the handler of a rejection adds a row that shows one.
LEMMA RejectionsHandled ==
  ASSUME IInv, AffTyped, Handlers
  PROVE  /\ AffTyped'
         /\ e.kind # "Rejected" => RejectionsKept
         /\ e.kind = "Rejected" => RejectionAdded
<1>0. PICK S : aff \in [DOMAIN aff -> Rows(S)]
  BY DEF AffTyped
<1>a. \A T : S \subseteq T => aff \in [DOMAIN aff -> Rows(T)]
  <2> SUFFICES ASSUME NEW T, S \subseteq T PROVE aff \in [DOMAIN aff -> Rows(T)]
    OBVIOUS
  <2>1. Rows(S) \subseteq Rows(T)
    BY RowsGrow
  <2> QED  BY <1>0, <2>1
<1>b. << >> \in Seq(S) /\ IsInjective(<< >>)
  BY DEF IsInjective
<1>1. CASE aff' = aff /\ e.kind # "Rejected"
  BY <1>1 DEF AffTyped, RejectionsKept, Shows
<1>2. ASSUME e.kind # "Rejected", aff' = Save(aff, PartyId(e.i, e.did, FALSE),
                                             Affirmed(aff, PartyId(e.i, e.did, FALSE), e.hold))
      PROVE  AffTyped' /\ RejectionsKept
  <2>1. PICK id : id = PartyId(e.i, e.did, FALSE)
    OBVIOUS
  <2>2. PICK T : T = S \union {Number(e.hold)}
    OBVIOUS
  <2>3. aff \in [DOMAIN aff -> Rows(T)] /\ Number(e.hold) \in T
    BY <1>a, <2>2
  <2>4. PICK row : row = Affirmed(aff, id, e.hold)
    OBVIOUS
  <2>5. row \in Rows(T) /\ row.status = IF Has(aff, id) THEN aff[id].status ELSE "Affirmed"
    <3>1. Has(aff, id) => aff[id] \in Rows(T)
      BY <2>3 DEF Has
    <3> QED  BY <2>3, <2>4, <3>1, AffirmedRow
  <2>6. aff' = Save(aff, id, row)
    BY <1>2, <2>1, <2>4
  <2>7. /\ AffTyped'
        /\ \A k : Shows(k)' <=> IF k = id THEN row.status = "Rejected" ELSE Shows(k)
    BY <2>3, <2>5, <2>6, SavedRow
  <2>8. row.status = "Rejected" <=> Shows(id)
    BY <2>5 DEF Has, Shows
  <2> QED  BY <2>7, <2>8 DEF RejectionsKept
<1>3. CASE handleInstructionCreated
  <2>1. e.kind = "Created"
    BY <1>3 DEF handleInstructionCreated, Handling
  <2>2. CASE aff' \in Rescanned(aff)
    <3>1. block \in Seq(Recorded)
      BY DEF IInv, Types
    <3>2. /\ \E T : aff' \in [DOMAIN aff' -> Rows(T)]
          /\ DOMAIN aff \subseteq DOMAIN aff'
          /\ \A id \in DOMAIN aff' :
               aff'[id].status = IF id \in DOMAIN aff THEN aff[id].status ELSE "Affirmed"
      BY <1>0, <2>2, <3>1, RescanStatuses
    <3> QED  BY <2>1, <3>2 DEF AffTyped, RejectionsKept, Shows
  <2>3. aff' \in Rescanned(aff) \/ aff' = aff
    BY <1>3 DEF handleInstructionCreated
  <2> QED  BY <1>1, <2>1, <2>2, <2>3
<1>4. CASE handleInstructionUpdate \/ handleAutomaticAffirmation
  <2>1. e.kind # "Rejected"
    BY <1>4 DEF handleInstructionUpdate, handleAutomaticAffirmation, Handling
  <2>2. \/ aff' = aff
        \/ aff' = Save(aff, PartyId(e.i, e.did, FALSE),
                       Affirmed(aff, PartyId(e.i, e.did, FALSE), e.hold))
    BY <1>4 DEF handleInstructionUpdate, handleAutomaticAffirmation
  <2> QED  BY <1>1, <1>2, <2>1, <2>2
<1>5. CASE handleAffirmationWithdrawn
  <2>1. PICK id : id = PartyRow(e.i, e.did)
    OBVIOUS
  <2>2. e.kind = "Withdrawn" /\ id[1] = e.i
    BY <1>5, <2>1, IdOfInstruction DEF handleAffirmationWithdrawn, Handling
  <2>3. \/ aff' = aff
        \/ aff' = Delete(aff, {id})
        \/ /\ Has(aff, id)
           /\ aff' = [aff EXCEPT ![id].portfolios = RemoveIfIncludes(@, Number(e.hold))]
    BY <1>5, <2>1 DEF handleAffirmationWithdrawn, PartyRow
  <2>4. CASE aff' = Delete(aff, {id})
    <3>1. aff' = [k \in DOMAIN aff \ {id} |-> aff[k]]
      BY <2>4 DEF Delete
    <3>2. aff' \in [DOMAIN aff' -> Rows(S)]
      BY <1>0, <3>1
    <3>3. AffTyped'
      BY <3>2 DEF AffTyped
    <3>4. \A k : Shows(k)' <=> k # id /\ Shows(k)
      BY <3>1 DEF Shows
    <3> QED  BY <2>2, <3>3, <3>4 DEF RejectionsKept
  <2>5. CASE /\ Has(aff, id)
             /\ aff' = [aff EXCEPT ![id].portfolios = RemoveIfIncludes(@, Number(e.hold))]
    <3>1. PICK T : T = S \union {Number(e.hold)}
      OBVIOUS
    <3>2. PICK row \in Rows(T) : row = aff[id]
      BY <1>a, <2>5, <3>1 DEF Has
    <3>3. PICK list : list = RemoveIfIncludes(row.portfolios, Number(e.hold))
      OBVIOUS
    <3>4. list \in Seq(T) /\ IsInjective(list)
      <4>1. row.portfolios \in Seq(T) /\ IsInjective(row.portfolios)
        BY DEF Rows
      <4>2. Number(e.hold) \in T
        BY <3>1
      <4> QED  BY <3>3, <4>1, <4>2, ItemRemoved
    <3>5. /\ [row EXCEPT !.portfolios = list] \in Rows(T)
          /\ [row EXCEPT !.portfolios = list].status = row.status
      BY <3>4 DEF Rows
    <3>6. aff' = [aff EXCEPT ![id] = [row EXCEPT !.portfolios = list]]
      BY <2>5, <3>2, <3>3
    <3>7. aff \in [DOMAIN aff -> Rows(T)]
      BY <1>a, <3>1
    <3>8. aff' \in [DOMAIN aff' -> Rows(T)] /\ DOMAIN aff' = DOMAIN aff
      BY <3>5, <3>6, <3>7
    <3>9. \A k : Shows(k)' <=> Shows(k)
      BY <2>5, <3>2, <3>5, <3>6, <3>7, <3>8 DEF Shows, Has
    <3>10. AffTyped'
      BY <3>8 DEF AffTyped
    <3> QED  BY <2>2, <3>9, <3>10 DEF RejectionsKept
  <2> QED  BY <1>1, <2>2, <2>3, <2>4, <2>5
<1>6. CASE handleInstructionRejected
  <2>1. PICK id : id[1] = e.i /\ aff' = Save(aff, id, Rejection)
    <3>1. aff' = Save(aff, PartyId(e.i, e.did, e.did \in inst[e.i].mediators), Rejection)
      BY <1>6 DEF handleInstructionRejected
    <3>2. \A b : PartyId(e.i, e.did, b)[1] = e.i
      BY DEF PartyId
    <3> QED  BY <3>1, <3>2, Zenon
  <2>2. Rejection \in Rows(S) /\ Rejection.status = "Rejected"
    BY <1>b DEF Rejection, Rows
  <2>3. AffTyped' /\ \A k : Shows(k)' <=> IF k = id THEN TRUE ELSE Shows(k)
    <3>1. PICK row : row = Rejection
      OBVIOUS
    <3> QED  BY <1>0, <2>1, <2>2, <3>1, SavedRow
  <2>4. e.kind = "Rejected"
    BY <1>6 DEF handleInstructionRejected, Handling
  <2> QED  BY <2>1, <2>3, <2>4 DEF RejectionAdded
<1>7. CASE handleMediatorAffirmationReceived
  <2>1. PICK id, row : /\ id = MediatorRow(e.i, e.did)
                       /\ row = [status |-> "Affirmed", portfolios |-> << >>]
                       /\ aff' = Save(aff, id, row)
    BY <1>7 DEF handleMediatorAffirmationReceived, MediatorRow
  <2>2. row \in Rows(S) /\ row.status = "Affirmed"
    BY <1>b, <2>1 DEF Rows
  <2>3. AffTyped' /\ \A k : Shows(k)' <=> IF k = id THEN row.status = "Rejected" ELSE Shows(k)
    BY <1>0, <2>1, <2>2, SavedRow
  <2>4. e.kind = "MediatorAffirmed" /\ id[1] = e.i
    BY <1>7, <2>1, IdOfInstruction DEF handleMediatorAffirmationReceived, Handling
  <2> QED  BY <2>2, <2>3, <2>4 DEF RejectionsKept
<1>8. CASE handleMediatorAffirmationWithdrawn
  <2>1. PICK id : id = MediatorRow(e.i, e.did)
    OBVIOUS
  <2>2. e.kind = "MediatorWithdrawn" /\ id[1] = e.i
    BY <1>8, <2>1, IdOfInstruction DEF handleMediatorAffirmationWithdrawn, Handling
  <2>3. aff' = [k \in DOMAIN aff \ {id} |-> aff[k]]
    BY <1>8, <2>1 DEF handleMediatorAffirmationWithdrawn, Delete, MediatorRow
  <2>4. aff' \in [DOMAIN aff' -> Rows(S)]
    BY <1>0, <2>3
  <2>5. \A k : Shows(k)' <=> k # id /\ Shows(k)
    BY <2>3 DEF Shows
  <2> QED  BY <2>2, <2>4, <2>5 DEF RejectionsKept, AffTyped
<1>9. CASE handleInstructionFinalizedEvent \/ handleInstructionMediators \/ handleReceiptClaimed
  BY <1>1, <1>9 DEF handleInstructionFinalizedEvent, handleInstructionMediators,
                    handleReceiptClaimed, Handling
<1> QED  BY <1>3, <1>4, <1>5, <1>6, <1>7, <1>8, <1>9 DEF Handlers

\* The handlers keep it.
LEMMA RejectionStep ==
  ASSUME RejectInv, Handlers
  PROVE  RejectionTold'
<1>0. /\ Types /\ Handling(Kinds)
      /\ e.kind # "Rejected" => RejectionsKept
      /\ e.kind = "Rejected" => RejectionAdded
  BY HandlersHandle, RejectionsHandled DEF RejectInv, IInv
<1>1. /\ UNCHANGED <<setup, pallet>>
      /\ pos \in Coming /\ e = block[pos] /\ Coming' = Coming \ {pos}
      /\ \A n \in Coming : n >= pos
      /\ Coming \subseteq 1..Len(block) /\ Len(block) \in Nat
      /\ \A n \in Coming' : block'[n] = block[n]
  BY <1>0, HandlingFacts
<1>2. Instr' = Instr /\ cStatus' = cStatus
  BY <1>1, SetupStays DEF pallet
<1>3. \A i \in Instr : About(i)' = About(i) \ {pos} /\ (pos \in About(i) <=> e.i = i)
  BY <1>1 DEF About
<1> SUFFICES ASSUME NEW i \in Instr
             PROVE  \/ cStatus[i] # "Rejected" /\ \A id : Shows(id)' => id[1] # i
                    \/ /\ cStatus[i] = "Rejected" /\ \A id : Shows(id)' => id[1] # i
                       /\ \E n \in About(i)' :
                            /\ block'[n].kind = "Rejected"
                            /\ \A m \in About(i)' :
                                 m <= n /\ (block'[m].kind = "Rejected" => m = n)
                    \/ /\ cStatus[i] = "Rejected" /\ About(i)' = {}
                       /\ \E id : /\ Shows(id)' /\ id[1] = i
                                  /\ \A k : Shows(k)' /\ k[1] = i => k = id
  BY <1>2 DEF RejectionTold
<1>4. \/ cStatus[i] # "Rejected" /\ \A id : Shows(id) => id[1] # i
      \/ /\ cStatus[i] = "Rejected" /\ \A id : Shows(id) => id[1] # i
         /\ \E n \in About(i) : /\ block[n].kind = "Rejected"
                                /\ \A m \in About(i) :
                                     m <= n /\ (block[m].kind = "Rejected" => m = n)
      \/ /\ cStatus[i] = "Rejected" /\ About(i) = {}
         /\ \E id : Shows(id) /\ id[1] = i /\ \A k : Shows(k) /\ k[1] = i => k = id
  BY DEF RejectInv, RejectionTold
<1>5. \A n \in About(i) : n \in Coming /\ n \in Nat
  BY <1>1 DEF About
<1>6. \A n \in About(i)' : block'[n] = block[n] /\ n \in About(i)
  BY <1>1, <1>3 DEF About
<1>7. CASE e.i # i
  <2>1. About(i)' = About(i)
    BY <1>3, <1>7
  <2>2. \A id : id[1] = i => (Shows(id)' <=> Shows(id))
    <3>1. CASE e.kind # "Rejected"
      BY <1>0, <1>7, <3>1 DEF RejectionsKept
    <3>2. CASE e.kind = "Rejected"
      BY <1>0, <1>7, <3>2 DEF RejectionAdded
    <3> QED  BY <3>1, <3>2
  <2> HIDE DEF Shows, About
  <2> QED  BY <1>4, <1>6, <2>1, <2>2
<1>8. CASE e.i = i /\ e.kind # "Rejected"
  <2>1. \A id : Shows(id)' => Shows(id)
    BY <1>0, <1>8 DEF RejectionsKept
  <2>2. pos \in About(i) /\ block[pos].kind # "Rejected"
    BY <1>1, <1>3, <1>8
  <2> QED  BY <1>3, <1>4, <1>6, <2>1, <2>2
<1>9. CASE e.i = i /\ e.kind = "Rejected"
  <2>1. PICK id : id[1] = i /\ \A k : Shows(k)' <=> k = id \/ Shows(k)
    BY <1>0, <1>9 DEF RejectionAdded
  <2>2. pos \in About(i) /\ block[pos].kind = "Rejected"
    BY <1>1, <1>3, <1>9
  <2>3. cStatus[i] = "Rejected"
    BY <1>0, <1>9, EventFacts DEF RejectInv
  <2>4. /\ \A k : Shows(k) => k[1] # i
        /\ \A m \in About(i) : m <= pos
    BY <1>4, <2>2, <2>3
  <2>5. About(i)' = {}
    <3> SUFFICES ASSUME NEW m \in About(i)' PROVE FALSE
      OBVIOUS
    <3>1. m \in About(i) /\ m # pos
      BY <1>3
    <3>2. m <= pos /\ m >= pos /\ m \in Nat /\ pos \in Nat
      BY <1>1, <1>5, <2>2, <2>4, <3>1
    <3> QED  BY <3>1, <3>2
  <2> QED  BY <2>1, <2>3, <2>4, <2>5
<1> QED  BY <1>7, <1>8, <1>9

\* And so do the operations of the pallet: it has none on an instruction that
\* was rejected.
LEMMA RejectionDeposited ==
  ASSUME RejectInv, Pallet
  PROVE  RejectionTold'
<1>0. Types
  BY DEF RejectInv, IInv
<1>1. PICK i \in Instr :
        \/ \E auto \in SUBSET OnChain(i) : Create(i, auto)
        \/ \E s \in OnChain(i) : Affirm(i, s) \/ Withdraw(i, s)
        \/ \E did \in Dids : Mediate(i, did) \/ Unmediate(i, did)
                             \/ Claim(i, did) \/ Reject(i, did)
        \/ \E status \in {"Executed", "Failed", "Locked"} : Finalize(i, status)
  BY DEF Pallet
<1>2. cStatus \in [Instr -> Statuses]
  BY <1>0 DEF Types
<1>3. ASSUME UNCHANGED <<setup, tables>>, Coming \subseteq Coming',
             \A n \in Coming : block'[n] = block[n],
             \A n \in Coming' \ Coming : block'[n].i = i,
             cStatus[i] # "Rejected", \A j \in Instr \ {i} : cStatus'[j] = cStatus[j],
             \/ cStatus'[i] # "Rejected"
             \/ /\ cStatus'[i] = "Rejected"
                /\ \E n \in About(i)' : /\ block'[n].kind = "Rejected"
                                        /\ \A m \in About(i)' :
                                             m <= n /\ (block'[m].kind = "Rejected" => m = n)
      PROVE  RejectionTold'
  <2>1. Instr' = Instr /\ \A id : Shows(id)' <=> Shows(id)
    BY <1>3, SetupStays DEF tables, Shows
  <2>2. \A j \in Instr \ {i} : About(j)' = About(j) /\ \A n \in About(j) : block'[n] = block[n]
    BY <1>3 DEF About
  <2>3. \A id : Shows(id) => id[1] # i
    BY <1>3 DEF RejectInv, RejectionTold
  <2> SUFFICES ASSUME NEW j \in Instr
               PROVE  \/ cStatus'[j] # "Rejected" /\ \A id : Shows(id) => id[1] # j
                      \/ /\ cStatus'[j] = "Rejected" /\ \A id : Shows(id) => id[1] # j
                         /\ \E n \in About(j)' :
                              /\ block'[n].kind = "Rejected"
                              /\ \A m \in About(j)' :
                                   m <= n /\ (block'[m].kind = "Rejected" => m = n)
                      \/ /\ cStatus'[j] = "Rejected" /\ About(j)' = {}
                         /\ \E id : /\ Shows(id) /\ id[1] = j
                                    /\ \A k : Shows(k) /\ k[1] = j => k = id
    BY <2>1 DEF RejectionTold
  <2>4. CASE j = i
    BY <1>3, <2>3, <2>4
  <2>5. CASE j # i
    <3>1. About(j)' = About(j) /\ cStatus'[j] = cStatus[j]
          /\ \A n \in About(j) : block'[n] = block[n]
      BY <1>3, <2>2, <2>5
    <3>2. \/ cStatus[j] # "Rejected" /\ \A id : Shows(id) => id[1] # j
          \/ /\ cStatus[j] = "Rejected" /\ \A id : Shows(id) => id[1] # j
             /\ \E n \in About(j) : /\ block[n].kind = "Rejected"
                                    /\ \A m \in About(j) :
                                         m <= n /\ (block[m].kind = "Rejected" => m = n)
          \/ /\ cStatus[j] = "Rejected" /\ About(j) = {}
             /\ \E id : Shows(id) /\ id[1] = j /\ \A k : Shows(k) /\ k[1] = j => k = id
      BY DEF RejectInv, RejectionTold
    <3> QED  BY <3>1, <3>2
  <2> QED  BY <2>4, <2>5
<1>4. CASE \E auto \in SUBSET OnChain(i) : Create(i, auto)
  <2>1. PICK events : Creation(i, events)
    BY <1>0, <1>4, CreationSteps
  <2>2. /\ UNCHANGED <<setup, tables>> /\ Coming \subseteq Coming'
        /\ \A n \in Coming : block'[n] = block[n]
        /\ \A n \in Coming' \ Coming : block'[n].i = i
    BY <2>1, CreationFacts DEF RejectInv
  <2>3. /\ cStatus[i] = "None" /\ cStatus'[i] = "Created"
        /\ \A j \in Instr \ {i} : cStatus'[j] = cStatus[j]
    BY <1>2, <2>1 DEF Creation
  <2> QED  BY <1>3, <2>2, <2>3
<1>5. CASE ~\E auto \in SUBSET OnChain(i) : Create(i, auto)
  <2>1. PICK a : Single(i, a)
    BY <1>0, <1>1, <1>5, SingleSteps
  <2>2. PICK last : last = Len(block) + 1
    OBVIOUS
  <2>3. /\ UNCHANGED <<setup, tables>> /\ Coming' = Coming \union {last}
        /\ Coming = 1..Len(block) /\ block'[last] = a
        /\ \A n \in Coming : n < last /\ block'[n] = block[n]
    BY <1>0, <2>1, <2>2, SingleFacts
  <2>4. /\ a.i = i /\ cStatus[i] \in {"Created", "Failed", "Locked"}
        /\ a.kind \in StatusKinds => cStatus' = [cStatus EXCEPT ![i] = a.kind]
        /\ a.kind \notin StatusKinds => cStatus' = cStatus
    BY <2>1 DEF Single
  <2>5. /\ \A j \in Instr \ {i} : cStatus'[j] = cStatus[j]
        /\ cStatus'[i] = "Rejected" => a.kind = "Rejected"
    BY <1>2, <2>4 DEF StatusKinds
  <2>6. ASSUME cStatus'[i] = "Rejected"
        PROVE  \E n \in About(i)' : /\ block'[n].kind = "Rejected"
                                    /\ \A m \in About(i)' :
                                         m <= n /\ (block'[m].kind = "Rejected" => m = n)
    <3>1. last \in About(i)' /\ block'[last].kind = "Rejected"
      BY <2>3, <2>4, <2>5, <2>6 DEF About
    <3>2. \A m \in Coming : block[m].i = i => block[m].kind # "Rejected"
      BY <2>3, <2>4 DEF RejectInv, IInv, EventsTrue
    <3>3. \A m \in About(i)' : m = last \/ (m < last /\ block'[m].kind # "Rejected")
      BY <2>3, <3>2 DEF About
    <3>4. last \in Int /\ \A m \in About(i)' : m \in Int
      BY <1>0, <2>2, <2>3 DEF About, Types
    <3> QED  BY <3>1, <3>3, <3>4
  <2>7. Coming \subseteq Coming' /\ \A n \in Coming' \ Coming : block'[n].i = i
    BY <2>3, <2>4
  <2> QED  BY <1>3, <2>3, <2>4, <2>5, <2>6, <2>7
<1> QED  BY <1>4, <1>5

\* The invariant of affirmation rows and rejections.
THEOREM RejectionInv == Spec => []RejectInv
<1>1. Init /\ IInv => RejectInv
  <2> SUFFICES ASSUME Init, IInv PROVE AffTyped /\ RejectionTold
    BY DEF RejectInv
  <2>1. aff \in [DOMAIN aff -> Rows({})] /\ DOMAIN aff = {}
    BY DEF Init, NoTable
  <2>2. \A i \in Instr : cStatus[i] = "None"
    BY DEF Init
  <2> QED  BY <2>1, <2>2 DEF AffTyped, RejectionTold, Shows
<1>2. RejectInv /\ IInv' /\ [Next]_vars => RejectInv'
  <2> SUFFICES ASSUME RejectInv, IInv', [Next]_vars PROVE AffTyped' /\ RejectionTold'
    BY DEF RejectInv
  <2>1. CASE Pallet
    <3>1. aff' = aff
      BY <2>1 DEF Pallet, Create, Affirm, Withdraw, Mediate, Unmediate, Claim, Reject,
                  Finalize, Deposit, tables
    <3> QED  BY <2>1, <3>1, RejectionDeposited DEF RejectInv, AffTyped
  <2>2. CASE Handlers
    BY <2>2, RejectionStep, RejectionsHandled DEF RejectInv
  <2>3. CASE Seal \/ UNCHANGED vars
    <3>1. /\ setup' = setup /\ block' = block /\ aff' = aff /\ cStatus' = cStatus
          /\ Coming' = Coming
      BY <2>3 DEF Seal, vars, tables, pallet, Coming, RejectInv, IInv, Types
    <3> QED  BY <3>1, SetupStays DEF RejectInv, AffTyped, RejectionTold, Shows, About
  <2> QED  BY <2>1, <2>2, <2>3 DEF Next
<1> QED  BY <1>1, <1>2, SettlementInv, PTL DEF Spec

\* A rejected instruction shows one rejection between blocks, whatever was
\* affirmed, withdrawn or affirmed automatically in the same block; and no
\* other instruction shows any.
THEOREM RejectionAlwaysOne == Spec => []OneRejection
<1>1. RejectInv => OneRejection
  <2> SUFFICES ASSUME RejectInv, CaughtUp, NEW i \in Instr
               PROVE  Cardinality({id \in DOMAIN aff : id[1] = i /\ aff[id].status = "Rejected"})
                        = IF cStatus[i] = "Rejected" THEN 1 ELSE 0
    BY DEF OneRejection
  <2> DEFINE shown == {id \in DOMAIN aff : id[1] = i /\ aff[id].status = "Rejected"}
  <2>1. About(i) = {}
    BY DEF CaughtUp, Coming, About
  <2>2. \A id : id \in shown <=> Shows(id) /\ id[1] = i
    BY DEF Shows
  <2> HIDE DEF shown
  <2>3. CASE cStatus[i] = "Rejected"
    <3>1. PICK id : Shows(id) /\ id[1] = i /\ \A k : Shows(k) /\ k[1] = i => k = id
      BY <2>1, <2>3 DEF RejectInv, RejectionTold
    <3>2. shown = {id}
      BY <2>2, <3>1
    <3>3. Cardinality(shown) = 1
      BY <3>2, FS_Singleton
    <3> QED  BY <2>3, <3>3 DEF shown
  <2>4. CASE cStatus[i] # "Rejected"
    <3>1. shown = {}
      BY <2>2, <2>4 DEF RejectInv, RejectionTold
    <3>2. Cardinality(shown) = 0
      BY <3>1, FS_EmptySet
    <3> QED  BY <2>4, <3>2 DEF shown
  <2> QED  BY <2>3, <2>4
<1> QED  BY <1>1, RejectionInv, PTL

=============================================================================
