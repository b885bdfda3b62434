------------------------------- MODULE Claims -------------------------------
(***************************************************************************)
(* Claims about identities (src/mappings/entities/identities/mapClaim.ts). *)
(* A kind of claim is its type with the custom type, jurisdiction and CDD  *)
(* id that go with it, as far as ids tell them apart; a scope is the other *)
(* part of an id.                                                          *)
(***************************************************************************)
EXTENDS Store, FiniteSets

CONSTANTS
  Target,       \* the identities claims are made about; not validated
  Issuer, Kind,
  Scope, NoScope    \* NoScope is not a scope

VARIABLES
  cClaim,       \* the pallet: the state of each claim of an issuer
  claim,        \* Claim rows: [issuer, revoked], by getId
  claimScope,   \* ClaimScope rows, by target and scope
  identity      \* the targets that have an Identity row

vars == <<cClaim, claim, claimScope, identity>>

Scoped == Kind \X (Scope \union {NoScope})

\* Mutant: the scope is not part of the id.
Id_Unscoped(t, k) == <<t, k[1]>>

\* getId: the target, the kind and the scope.
Id(t, k) == <<t, k>>

Init ==
  /\ cClaim = [c \in Target \X Issuer \X Scoped |-> "None"]
  /\ claim = NoTable /\ claimScope = {} /\ identity = {}

\* A claim is added or renewed; its target gets an Identity row if needed.
handleClaimAdded(t, i, k) ==
  /\ cClaim' = [cClaim EXCEPT ![<<t, i, k>>] = "Standing"]
  /\ identity' = identity \union {t}
  /\ claim' = Save(claim, Id(t, k), [issuer |-> i, revoked |-> FALSE])
  /\ claimScope' = IF k[2] = NoScope THEN claimScope
                                     ELSE claimScope \union {<<t, k[2]>>}

\* The row stays, with the date of the revocation; a row that is not there is
\* passed over.
handleClaimRevoked(t, i, k) ==
  /\ cClaim[<<t, i, k>>] = "Standing"
  /\ cClaim' = [cClaim EXCEPT ![<<t, i, k>>] = "Revoked"]
  /\ claim' = IF Has(claim, Id(t, k)) THEN [claim EXCEPT ![Id(t, k)].revoked = TRUE]
                                      ELSE claim
  /\ UNCHANGED <<claimScope, identity>>

Next ==
  \E t \in Target, i \in Issuer, k \in Scoped :
    handleClaimAdded(t, i, k) \/ handleClaimRevoked(t, i, k)

Spec == Init /\ [][Next]_vars

-----------------------------------------------------------------------------
Shows(t, i, k) ==
  cClaim[<<t, i, k>>] # "None" =>
    /\ Has(claim, Id(t, k))
    /\ claim[Id(t, k)] = [issuer |-> i, revoked |-> cClaim[<<t, i, k>>] = "Revoked"]

\* A claim that only one issuer ever made about a target is shown as it
\* stands, through revocation and renewal; the target has an Identity row and
\* the scope its ClaimScope row.
SoleClaimsMirrorChain ==
  \A t \in Target, k \in Scoped :
    LET issuers == {i \in Issuer : cClaim[<<t, i, k>>] # "None"}
    IN /\ Cardinality(issuers) = 1 => \A i \in issuers : Shows(t, i, k)
       /\ issuers # {} => /\ t \in identity
                          /\ k[2] \in Scope => <<t, k[2]>> \in claimScope

\* "A claim made about an Identity": every claim of every issuer is shown as
\* it stands.
ClaimsMirrorChain ==
  \A t \in Target, i \in Issuer, k \in Scoped : Shows(t, i, k)
=============================================================================
