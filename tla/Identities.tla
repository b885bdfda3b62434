----------------------------- MODULE Identities -----------------------------
(***************************************************************************)
(* Identities, their keys and the permissions of the keys                  *)
(* (src/mappings/entities/identities/mapIdentities.ts,                     *)
(* mapAuthorization.ts), next to the identity pallet.  Each step is one    *)
(* event of the pallet with its handler; a key rotation that demotes the   *)
(* old primary key, or promotes a secondary one, is several such steps.    *)
(***************************************************************************)
EXTENDS Store, FiniteSets

CONSTANTS
  Did, NoDid,
  Key, NoKey,
  Perms,        \* the permissions a secondary key may have
  Whole,        \* those of a primary key: no restriction is stored
  AuthId        \* authorization ids

ASSUME IdentitiesAssumption ==
  NoDid \notin Did /\ NoKey \notin Key /\ Whole \notin Perms

VARIABLES
  cPrimary,     \* the pallet: the primary key of a DID, NoKey without a DID
  cKey,         \* the pallet: the identity of a key, and its permissions
  cFrozen,      \* the pallet: the identities with frozen secondary keys
  cParent,      \* the pallet: the parent of a child identity
  cAuth,        \* the pallet: authorizations, [from, status]
  identity,     \* Identity rows: [primaryAccount, secondaryKeysFrozen]
  account,      \* Account rows: the identity, NoDid when unlinked
  permissions,  \* Permissions rows, by key
  portfolio0,   \* the identities with a row for the default portfolio
  child,        \* ChildIdentity rows: the parent, by child
  authorization \* Authorization rows: [from, status]

pallet == <<cPrimary, cKey, cFrozen, cParent, cAuth>>
tables == <<identity, account, permissions, portfolio0, child, authorization>>
vars == <<pallet, tables>>

Free == [did |-> NoDid, perms |-> Whole]

Init ==
  /\ cPrimary = [d \in Did |-> NoKey]
  /\ cKey = [k \in Key |-> Free]
  /\ cFrozen = {}
  /\ cParent = [d \in Did |-> NoDid]
  /\ cAuth = NoTable
  /\ identity = NoTable /\ account = NoTable /\ permissions = NoTable
  /\ portfolio0 = {} /\ child = NoTable /\ authorization = NoTable

Registered(d) == cPrimary[d] # NoKey
Secondary(k) == cKey[k].did # NoDid /\ cPrimary[cKey[k].did] # k

-----------------------------------------------------------------------------

\* Mutant: nobody without a row is expected to give an authorization.
CreateIdentityIfNotExists_Never(d) == UNCHANGED <<identity, portfolio0>>

\* Mutant: the placeholder gets no portfolio.
CreateIdentityIfNotExists_Bare(d) ==
  /\ identity' = IF Has(identity, d) THEN identity
                 ELSE Save(identity, d, [primaryAccount |-> NoKey,
                                         secondaryKeysFrozen |-> FALSE])
  /\ UNCHANGED portfolio0

\* createIdentityIfNotExists: a placeholder without a primary account, and its
\* default portfolio.
CreateIdentityIfNotExists(d) ==
  /\ identity' = IF Has(identity, d) THEN identity
                 ELSE Save(identity, d, [primaryAccount |-> NoKey,
                                         secondaryKeysFrozen |-> FALSE])
  /\ portfolio0' = IF Has(identity, d) THEN portfolio0 ELSE portfolio0 \union {d}

\* handleAuthorization, AuthorizationAdded: cdd_register_did deposits those of
\* the secondary keys before the DID itself is created.
AuthorizationAdded(d, a) ==
  /\ ~Has(cAuth, a)
  /\ cAuth' = Save(cAuth, a, [from |-> d, status |-> "Pending"])
  /\ CreateIdentityIfNotExists(d)
  /\ authorization' = Save(authorization, a, [from |-> d, status |-> "Pending"])
  /\ UNCHANGED <<cPrimary, cKey, cFrozen, cParent, account, permissions, child>>

\* handleAuthorization, AuthorizationConsumed, Revoked or Rejected
AuthorizationClosed(a, status) ==
  /\ Has(cAuth, a) /\ cAuth[a].status = "Pending" /\ Has(authorization, a)
  /\ cAuth' = [cAuth EXCEPT ![a].status = status]
  /\ authorization' = [authorization EXCEPT ![a].status = status]
  /\ UNCHANGED <<cPrimary, cKey, cFrozen, cParent,
                 identity, account, permissions, portfolio0, child>>

\* handleDidCreated and handleDidRegistered.  A placeholder is completed, and
\* getPortfolio throws if it has no default portfolio.
handleDidCreated(d, k) ==
  /\ ~Registered(d) /\ cKey[k] = Free
  /\ cPrimary' = [cPrimary EXCEPT ![d] = k]
  /\ cKey' = [cKey EXCEPT ![k].did = d]
  /\ Has(identity, d) => d \in portfolio0
  /\ identity' =
       IF Has(identity, d) THEN [identity EXCEPT ![d].primaryAccount = k]
       ELSE Save(identity, d, [primaryAccount |-> k, secondaryKeysFrozen |-> FALSE])
  /\ portfolio0' = portfolio0 \union {d}
  /\ permissions' = Save(permissions, k, Whole)
  /\ account' = Save(account, k, d)
  /\ UNCHANGED <<cFrozen, cParent, cAuth, child, authorization>>

handleSecondaryKeysAdded(d, keys, p) ==
  /\ Registered(d) /\ \A k \in keys : cKey[k] = Free
  /\ cKey' = [k \in Key |-> IF k \in keys THEN [did |-> d, perms |-> p] ELSE cKey[k]]
  /\ Has(identity, d)
  /\ permissions' = SaveAll(permissions, [k \in keys |-> p])
  /\ account' = SaveAll(account, [k \in keys |-> d])
  /\ UNCHANGED <<cPrimary, cFrozen, cParent, cAuth,
                 identity, portfolio0, child, authorization>>

handleSecondaryKeysPermissionsUpdated(k, p) ==
  /\ Secondary(k)
  /\ cKey' = [cKey EXCEPT ![k].perms = p]
  /\ Has(permissions, k)
  /\ permissions' = [permissions EXCEPT ![k] = p]
  /\ UNCHANGED <<cPrimary, cFrozen, cParent, cAuth,
                 identity, account, portfolio0, child, authorization>>

Unlink(keys) == cKey' = [k \in Key |-> IF k \in keys THEN Free ELSE cKey[k]]

\* handleSecondaryKeysRemoved and, for a single key, handleSignerLeft
handleSecondaryKeysRemoved(keys) ==
  /\ \A k \in keys : Secondary(k)
  /\ Unlink(keys)
  /\ account' = Delete(account, keys)
  /\ permissions' = Delete(permissions, keys)
  /\ UNCHANGED <<cPrimary, cFrozen, cParent, cAuth,
                 identity, portfolio0, child, authorization>>

\* The row of the account stays, without an identity.
handleSecondaryKeyLeftIdentity(k) ==
  /\ Secondary(k)
  /\ Unlink({k})
  /\ Has(account, k)
  /\ account' = [account EXCEPT ![k] = NoDid]
  /\ permissions' = Delete(permissions, {k})
  /\ UNCHANGED <<cPrimary, cFrozen, cParent, cAuth,
                 identity, portfolio0, child, authorization>>

\* Mutant: the old key's account stays linked.
RotateAccount_Linked(d, k, old) == Save(account, k, d)

\* The rows of the old key's account, which is unlinked, and of the new key's.
RotateAccount(d, k, old) == Save([account EXCEPT ![old] = NoDid], k, d)

\* Mutant: the old key's permissions stay.
RotatePermissions_Kept(k, old) ==
  Save(permissions, k, IF Has(permissions, old) THEN permissions[old] ELSE Whole)

\* The new key takes over the permissions row of the old one.
RotatePermissions(k, old) ==
  Delete(Save(permissions, k, IF Has(permissions, old)
                              THEN permissions[old] ELSE Whole), {old})

handlePrimaryKeyUpdated(d, k) ==
  /\ Registered(d) /\ cKey[k] = Free
  /\ cPrimary' = [cPrimary EXCEPT ![d] = k]
  /\ cKey' = [cKey EXCEPT ![k].did = d, ![cPrimary[d]] = Free]
  /\ Has(identity, d)
  /\ LET old == identity[d].primaryAccount
     IN /\ Has(account, old)
        /\ account' = RotateAccount(d, k, old)
        /\ permissions' = RotatePermissions(k, old)
  /\ identity' = [identity EXCEPT ![d].primaryAccount = k]
  /\ UNCHANGED <<cFrozen, cParent, cAuth, portfolio0, child, authorization>>

\* handleSecondaryKeysFrozen and handleSecondaryKeysUnfrozen
SecondaryKeysFrozen(d, frozen) ==
  /\ Registered(d) /\ (d \in cFrozen) # frozen
  /\ cFrozen' = IF frozen THEN cFrozen \union {d} ELSE cFrozen \ {d}
  /\ Has(identity, d)
  /\ identity' = [identity EXCEPT ![d].secondaryKeysFrozen = frozen]
  /\ UNCHANGED <<cPrimary, cKey, cParent, cAuth,
                 account, permissions, portfolio0, child, authorization>>

handleChildDidCreated(parent, d) ==
  /\ Registered(parent) /\ Registered(d) /\ parent # d
  /\ cParent[d] = NoDid /\ cParent[parent] = NoDid
  /\ cParent' = [cParent EXCEPT ![d] = parent]
  /\ child' = Save(child, d, parent)
  /\ UNCHANGED <<cPrimary, cKey, cFrozen, cAuth,
                 identity, account, permissions, portfolio0, authorization>>

handleChildDidUnlinked(d) ==
  /\ cParent[d] # NoDid
  /\ cParent' = [cParent EXCEPT ![d] = NoDid]
  /\ child' = Delete(child, {d})
  /\ UNCHANGED <<cPrimary, cKey, cFrozen, cAuth,
                 identity, account, permissions, portfolio0, authorization>>

Next ==
  \/ \E d \in Did :
       \/ \E a \in AuthId : AuthorizationAdded(d, a)
       \/ \E k \in Key : handleDidCreated(d, k) \/ handlePrimaryKeyUpdated(d, k)
       \/ \E keys \in (SUBSET Key) \ {{}}, p \in Perms : handleSecondaryKeysAdded(d, keys, p)
       \/ \E frozen \in BOOLEAN : SecondaryKeysFrozen(d, frozen)
       \/ \E parent \in Did : handleChildDidCreated(parent, d)
       \/ handleChildDidUnlinked(d)
  \/ \E k \in Key, p \in Perms : handleSecondaryKeysPermissionsUpdated(k, p)
  \/ \E keys \in (SUBSET Key) \ {{}} : handleSecondaryKeysRemoved(keys)
  \/ \E k \in Key : handleSecondaryKeyLeftIdentity(k)
  \/ \E a \in AuthId, status \in {"Consumed", "Revoked", "Rejected"} :
       AuthorizationClosed(a, status)

Spec == Init /\ [][Next]_vars

-----------------------------------------------------------------------------
(* Properties.                                                             *)

\* Through any sequence of joining, leaving, removal and rotation, a key's
\* account is linked to the identity the chain links it to, and to no other;
\* an identity's primary account is its primary key.
KeysMirrorChain ==
  /\ \A k \in Key : (IF Has(account, k) THEN account[k] ELSE NoDid) = cKey[k].did
  /\ \A d \in Did : Registered(d) => /\ Has(identity, d)
                                     /\ identity[d].primaryAccount = cPrimary[d]
                                     /\ identity[d].secondaryKeysFrozen = (d \in cFrozen)

\* A key has a permissions row exactly while it belongs to an identity: a
\* primary key's is unrestricted, also after a rotation, and a secondary key's
\* is what the chain gives it, never what an earlier membership gave it.
PermissionsMirrorChain ==
  \A k \in Key :
    /\ Has(permissions, k) <=> cKey[k].did # NoDid
    /\ Has(permissions, k) => permissions[k] = cKey[k].perms

\* Whatever creates an identity's row first, an authorization or the DID, the
\* identity has the default portfolio handleDidCreated relies on.
DefaultPortfolioKnown == DOMAIN identity = portfolio0

\* Child identities and authorizations are those of the chain, and whoever gave
\* an authorization has a row, although it may be deposited before the DID is
\* created.
LinksMirrorChain ==
  /\ \A d \in Did : (IF Has(child, d) THEN child[d] ELSE NoDid) = cParent[d]
  /\ authorization = cAuth
  /\ \A a \in DOMAIN authorization : Has(identity, authorization[a].from)
=============================================================================
