------------------------------- MODULE Venues -------------------------------
(***************************************************************************)
(* Venues and the signers of their receipts                                *)
(* (src/mappings/entities/settlements/mapVenue.ts).                        *)
(***************************************************************************)
EXTENDS Store, Common, FiniteSets

CONSTANTS
  Venue, Signer, Owner,
  Text          \* details and types, as far as the rows tell them apart

VARIABLES
  cVenue,       \* the pallet's venues: [owner, details, type, signers]
  venue         \* Venue rows, with the signers as a list

vars == <<cVenue, venue>>

Init == cVenue = NoTable /\ venue = NoTable

\* The lists a signer update can bring: distinct signers in any order.
Batches == {s \in TupleOf(Signer, 1) \union TupleOf(Signer, 2) : IsInjective(s)}

\* getVenue throws when there is no row: the handler then does not happen.
handleVenueCreated(v, o, d, t) ==
  /\ ~Has(cVenue, v)
  /\ cVenue' = Save(cVenue, v, [owner |-> o, details |-> d, type |-> t, signers |-> {}])
  /\ venue' = Save(venue, v, [owner |-> o, details |-> d, type |-> t, signers |-> << >>])

handleVenueDetailsUpdated(v, d) ==
  /\ Has(cVenue, v) /\ Has(venue, v)
  /\ cVenue' = [cVenue EXCEPT ![v].details = d]
  /\ venue' = [venue EXCEPT ![v].details = d]

handleVenueTypeUpdated(v, t) ==
  /\ Has(cVenue, v) /\ Has(venue, v)
  /\ cVenue' = [cVenue EXCEPT ![v].type = t]
  /\ venue' = [venue EXCEPT ![v].type = t]

\* The pallet adds only new signers and removes only present ones.
handleVenueSignersAdded(v, batch) ==
  /\ Has(cVenue, v) /\ Has(venue, v)
  /\ ToSet(batch) \cap cVenue[v].signers = {}
  /\ cVenue' = [cVenue EXCEPT ![v].signers = @ \union ToSet(batch)]
  /\ venue' = [venue EXCEPT ![v].signers = FoldLeft(AddIfNotIncludes, @, batch)]

handleVenueSignersRemoved(v, batch) ==
  /\ Has(cVenue, v) /\ Has(venue, v)
  /\ ToSet(batch) \subseteq cVenue[v].signers
  /\ cVenue' = [cVenue EXCEPT ![v].signers = @ \ ToSet(batch)]
  /\ venue' = [venue EXCEPT ![v].signers = FoldLeft(RemoveIfIncludes, @, batch)]

Next ==
  \E v \in Venue :
    \/ \E o \in Owner, d, t \in Text : handleVenueCreated(v, o, d, t)
    \/ \E x \in Text : handleVenueDetailsUpdated(v, x) \/ handleVenueTypeUpdated(v, x)
    \/ \E batch \in Batches : handleVenueSignersAdded(v, batch)
                              \/ handleVenueSignersRemoved(v, batch)

Spec == Init /\ [][Next]_vars

-----------------------------------------------------------------------------
\* Whatever updates a venue went through, no signer is listed that the chain
\* does not know, none twice, and the other columns are the chain's.
SignersSound ==
  /\ DOMAIN venue = DOMAIN cVenue
  /\ \A v \in DOMAIN venue :
       /\ ToSet(venue[v].signers) \subseteq cVenue[v].signers
       /\ IsInjective(venue[v].signers)
       /\ venue[v].details = cVenue[v].details /\ venue[v].type = cVenue[v].type

\* removeIfIncludes removes the item it is given: every signer the chain knows
\* stays listed.
SignersComplete ==
  \A v \in DOMAIN venue : cVenue[v].signers \subseteq ToSet(venue[v].signers)
=============================================================================
