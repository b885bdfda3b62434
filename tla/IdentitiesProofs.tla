-------------------------- MODULE IdentitiesProofs --------------------------
(***************************************************************************)
(* Proofs about Identities, for every set of DIDs, keys, permissions and   *)
(* authorizations: through any sequence of registrations, rotations,       *)
(* departures and removals the rows of accounts, identities, permissions,  *)
(* portfolios, children and authorizations are those of the pallet.        *)
(***************************************************************************)
EXTENDS Identities, TLAPS

KeyState == [did : Did \union {NoDid}, perms : Perms \union {Whole}]
Status == {"Pending", "Consumed", "Revoked", "Rejected"}

\* The types of the pallet's maps; the tables are functions on their ids.
PalletTypes ==
  /\ cPrimary \in [Did -> Key \union {NoKey}]
  /\ cKey \in [Key -> KeyState]
  /\ cFrozen \subseteq Did
  /\ cParent \in [Did -> Did \union {NoDid}]
  /\ cAuth \in [DOMAIN cAuth -> [from : Did, status : Status]]

\* What the pallet keeps among its own maps: a primary key is an unrestricted
\* key of its identity, so that no key is the primary key of two, and only a
\* registered identity has keys or can be frozen.
PrimaryKeysBelong ==
  /\ \A d \in Did : Registered(d) =>
       cPrimary[d] \in Key /\ cKey[cPrimary[d]] = [did |-> d, perms |-> Whole]
  /\ \A k \in Key : cKey[k].did # NoDid => Registered(cKey[k].did)
  /\ \A d \in cFrozen : Registered(d)

Row(primary, frozen) ==
  [primaryAccount |-> primary, secondaryKeysFrozen |-> frozen]

\* A row of an identity, a placeholder's too, tells the pallet's state: without
\* it the row a placeholder becomes could hold an account the chain never gave.
IdentityRows ==
  /\ \A d \in Did : Registered(d) => Has(identity, d)
  /\ DOMAIN identity \subseteq Did
  /\ \A d \in DOMAIN identity :
       identity[d] = IF d \in cFrozen THEN Row(cPrimary[d], TRUE)
                                      ELSE Row(cPrimary[d], FALSE)

\* The first conjunct of KeysMirrorChain, which needs no row of an identity.
AccountsMirrorChain ==
  \A k \in Key : (IF Has(account, k) THEN account[k] ELSE NoDid) = cKey[k].did

IInv ==
  /\ PalletTypes
  /\ PrimaryKeysBelong
  /\ IdentityRows
  /\ AccountsMirrorChain
  /\ PermissionsMirrorChain
  /\ DefaultPortfolioKnown
  /\ LinksMirrorChain
-----------------------------------------------------------------------------
\* The empty pallet and the empty tables agree.
LEMMA InitInv == Init => IInv
<1> SUFFICES ASSUME Init PROVE IInv
  OBVIOUS
<1> USE IdentitiesAssumption DEF Init, NoTable, Has, Free, Registered
<1>1. PalletTypes
  BY DEF PalletTypes, KeyState, Status
<1>2. PrimaryKeysBelong
  BY DEF PrimaryKeysBelong
<1>3. IdentityRows /\ DefaultPortfolioKnown
  BY DEF IdentityRows, DefaultPortfolioKnown
<1>4. AccountsMirrorChain /\ PermissionsMirrorChain
  BY DEF AccountsMirrorChain, PermissionsMirrorChain
<1>5. LinksMirrorChain
  BY DEF LinksMirrorChain
<1> QED  BY <1>1, <1>2, <1>3, <1>4, <1>5 DEF IInv

\* An update of one field of an identity's row keeps the other field.
LEMMA RowUpdates ==
  ASSUME NEW p, NEW f, NEW x
  PROVE  /\ [Row(p, f) EXCEPT !.primaryAccount = x] = Row(x, f)
         /\ [Row(p, f) EXCEPT !.secondaryKeysFrozen = x] = Row(p, x)
BY DEF Row

\* Such an update saves the whole row.
LEMMA UpdatedRow ==
  ASSUME NEW d, d \in DOMAIN identity, NEW p, NEW f, identity[d] = Row(p, f), NEW x
  PROVE  /\ [identity EXCEPT ![d].primaryAccount = x] = Save(identity, d, Row(x, f))
         /\ [identity EXCEPT ![d].secondaryKeysFrozen = x] = Save(identity, d, Row(p, x))
<1>1. DOMAIN identity \union {d} = DOMAIN identity
  OBVIOUS
<1>2. /\ [identity EXCEPT ![d].primaryAccount = x] =
            Save(identity, d, [identity[d] EXCEPT !.primaryAccount = x])
      /\ [identity EXCEPT ![d].secondaryKeysFrozen = x] =
            Save(identity, d, [identity[d] EXCEPT !.secondaryKeysFrozen = x])
  BY <1>1 DEF Save
<1>3. /\ [identity[d] EXCEPT !.primaryAccount = x] = Row(x, f)
      /\ [identity[d] EXCEPT !.secondaryKeysFrozen = x] = Row(p, x)
  BY RowUpdates
<1> QED  BY <1>2, <1>3

\* A step of the authorizations: the placeholder it may create has the state
\* the pallet gives an identity it does not know.
LEMMA AuthorizationStep ==
  ASSUME IInv,
         \/ \E d \in Did, a \in AuthId : AuthorizationAdded(d, a)
         \/ \E a \in AuthId, status \in {"Consumed", "Revoked", "Rejected"} :
              AuthorizationClosed(a, status)
  PROVE  IInv'
<1> USE DEF IInv, Has
<1>1. CASE \E d \in Did, a \in AuthId : AuthorizationAdded(d, a)
  <2>1. PICK d \in Did, a \in AuthId : AuthorizationAdded(d, a)
    BY <1>1
  <2> USE <2>1 DEF AuthorizationAdded, CreateIdentityIfNotExists
  <2>2. PalletTypes'
    BY DEF PalletTypes, Status, Save
  <2>3. PrimaryKeysBelong' /\ AccountsMirrorChain' /\ PermissionsMirrorChain'
    BY DEF PrimaryKeysBelong, AccountsMirrorChain, PermissionsMirrorChain, Registered
  <2>4. IdentityRows'
    <3>1. CASE d \in DOMAIN identity
      BY <3>1 DEF IdentityRows, Registered
    <3>2. CASE d \notin DOMAIN identity
      <4>1. cPrimary[d] = NoKey /\ d \notin cFrozen
        BY <3>2 DEF IdentityRows, PrimaryKeysBelong, Registered
      <4>2. identity' = Save(identity, d, Row(NoKey, FALSE))
        BY <3>2 DEF Row
      <4> QED  BY <4>1, <4>2 DEF IdentityRows, Registered, Save
    <3> QED  BY <3>1, <3>2
  <2>5. DefaultPortfolioKnown'
    BY DEF DefaultPortfolioKnown, Save
  <2>6. LinksMirrorChain'
    BY DEF LinksMirrorChain, PalletTypes, Save
  <2> QED  BY <2>2, <2>3, <2>4, <2>5, <2>6
<1>2. CASE \E a \in AuthId, status \in {"Consumed", "Revoked", "Rejected"} :
              AuthorizationClosed(a, status)
  <2>1. PICK a \in AuthId, status \in {"Consumed", "Revoked", "Rejected"} :
               AuthorizationClosed(a, status)
    BY <1>2
  <2> USE <2>1 DEF AuthorizationClosed
  <2>2. PalletTypes'
    BY DEF PalletTypes, Status
  <2>3. PrimaryKeysBelong' /\ AccountsMirrorChain' /\ PermissionsMirrorChain'
    BY DEF PrimaryKeysBelong, AccountsMirrorChain, PermissionsMirrorChain, Registered
  <2>4. IdentityRows' /\ DefaultPortfolioKnown'
    BY DEF IdentityRows, DefaultPortfolioKnown, Registered
  <2>5. LinksMirrorChain'
    BY DEF LinksMirrorChain, PalletTypes
  <2> QED  BY <2>2, <2>3, <2>4, <2>5
<1> QED  BY <1>1, <1>2

\* The registration of a DID, whether a placeholder was there or not.
LEMMA DidCreatedStep ==
  ASSUME IInv, NEW d \in Did, NEW k \in Key, handleDidCreated(d, k)
  PROVE  IInv'
<1> USE IdentitiesAssumption DEF IInv, Has, handleDidCreated, Free
<1>1. cPrimary[d] = NoKey /\ cKey[k].did = NoDid /\ cKey[k].perms = Whole
  BY DEF Registered
<1>2. PalletTypes'
  BY DEF PalletTypes, KeyState
<1>3. PrimaryKeysBelong'
  <2>1. /\ cKey'[k] = [did |-> d, perms |-> Whole]
        /\ \A other \in Key \ {k} : cKey'[other] = cKey[other]
    BY <1>1 DEF PalletTypes, KeyState
  <2>2. /\ cPrimary'[d] = k
        /\ \A other \in Did \ {d} : cPrimary'[other] = cPrimary[other]
    BY DEF PalletTypes
  <2>3. ASSUME NEW other \in Did, Registered(other), cPrimary[other] = k
        PROVE  FALSE
    <3>1. cKey[k] = [did |-> other, perms |-> Whole]
      BY <2>3 DEF PrimaryKeysBelong
    <3> QED  BY <1>1, <3>1
  <2> QED  BY <2>1, <2>2, <2>3 DEF PrimaryKeysBelong, Registered, PalletTypes, KeyState
<1>4. IdentityRows'
  <2>1. d \notin cFrozen
    BY <1>1 DEF PrimaryKeysBelong, Registered
  <2>2. identity' = Save(identity, d, Row(k, FALSE))
    <3>1. CASE d \in DOMAIN identity
      <4>1. identity[d] = Row(NoKey, FALSE)
        BY <1>1, <2>1, <3>1 DEF IdentityRows
      <4>2. identity' = [identity EXCEPT ![d].primaryAccount = k]
        BY <3>1
      <4>3. PICK f : f = FALSE
        OBVIOUS
      <4>4. identity[d] = Row(NoKey, f)
        BY <4>1, <4>3
      <4>5. [identity EXCEPT ![d].primaryAccount = k] = Save(identity, d, Row(k, f))
        BY <3>1, <4>4, UpdatedRow
      <4> QED  BY <4>2, <4>3, <4>5
    <3>2. CASE d \notin DOMAIN identity
      BY <3>2 DEF Row
    <3> QED  BY <3>1, <3>2
  <2> QED  BY <1>1, <2>1, <2>2 DEF IdentityRows, Registered, Save, PalletTypes
<1>5. AccountsMirrorChain'
  BY DEF AccountsMirrorChain, Save, PalletTypes, KeyState
<1>6. PermissionsMirrorChain'
  BY DEF PermissionsMirrorChain, Save, PalletTypes, KeyState
<1>7. DefaultPortfolioKnown'
  BY DEF DefaultPortfolioKnown, Save
<1>8. LinksMirrorChain'
  BY DEF LinksMirrorChain, Save
<1> QED  BY <1>2, <1>3, <1>4, <1>5, <1>6, <1>7, <1>8

\* Keys that join an identity get its account and their permissions.
LEMMA SecondaryKeysAddedStep ==
  ASSUME IInv, NEW d \in Did, NEW keys \in SUBSET Key, NEW p \in Perms,
         handleSecondaryKeysAdded(d, keys, p)
  PROVE  IInv'
<1> USE IdentitiesAssumption DEF IInv, Has, handleSecondaryKeysAdded, Free
<1>1. PalletTypes'
  BY DEF PalletTypes, KeyState
<1>2. PrimaryKeysBelong'
  <2>1. ASSUME NEW other \in Did, Registered(other)
        PROVE  cPrimary[other] \notin keys
    <3>1. cKey[cPrimary[other]] = [did |-> other, perms |-> Whole]
      BY <2>1 DEF PrimaryKeysBelong
    <3> QED  BY <3>1
  <2> QED  BY <2>1 DEF PrimaryKeysBelong, Registered, PalletTypes
<1>3. IdentityRows' /\ DefaultPortfolioKnown' /\ LinksMirrorChain'
  BY DEF IdentityRows, DefaultPortfolioKnown, LinksMirrorChain, Registered
<1>4. AccountsMirrorChain'
  BY DEF AccountsMirrorChain, SaveAll
<1>5. PermissionsMirrorChain'
  BY DEF PermissionsMirrorChain, SaveAll
<1> QED  BY <1>1, <1>2, <1>3, <1>4, <1>5

\* New permissions of a secondary key.
LEMMA PermissionsUpdatedStep ==
  ASSUME IInv, NEW k \in Key, NEW p \in Perms,
         handleSecondaryKeysPermissionsUpdated(k, p)
  PROVE  IInv'
<1> USE IdentitiesAssumption DEF IInv, Has, handleSecondaryKeysPermissionsUpdated
<1>1. /\ cKey'[k].did = cKey[k].did /\ cKey'[k].perms = p
      /\ \A other \in Key \ {k} : cKey'[other] = cKey[other]
  BY DEF PalletTypes, KeyState
<1>2. PalletTypes'
  BY DEF PalletTypes, KeyState
<1>3. PrimaryKeysBelong'
  <2>1. ASSUME NEW other \in Did, Registered(other)
        PROVE  cPrimary[other] # k
    <3>1. cKey[cPrimary[other]] = [did |-> other, perms |-> Whole]
      BY <2>1 DEF PrimaryKeysBelong
    <3> QED  BY <3>1 DEF Secondary
  <2> QED  BY <1>1, <2>1 DEF PrimaryKeysBelong, Registered, PalletTypes
<1>4. IdentityRows' /\ DefaultPortfolioKnown' /\ LinksMirrorChain'
  BY DEF IdentityRows, DefaultPortfolioKnown, LinksMirrorChain, Registered
<1>5. AccountsMirrorChain' /\ PermissionsMirrorChain'
  BY <1>1 DEF AccountsMirrorChain, PermissionsMirrorChain
<1> QED  BY <1>2, <1>3, <1>4, <1>5

\* Keys that are removed, and a key that leaves: the pallet unlinks only
\* secondary keys, so every primary key stays.
LEMMA UnlinkedStep ==
  ASSUME IInv,
         \/ \E keys \in SUBSET Key : handleSecondaryKeysRemoved(keys)
         \/ \E k \in Key : handleSecondaryKeyLeftIdentity(k)
  PROVE  IInv'
<1> USE IdentitiesAssumption DEF IInv, Has, Free
<1>1. PICK keys \in SUBSET Key :
        /\ \A k \in keys : Secondary(k)
        /\ Unlink(keys)
        /\ \/ account' = Delete(account, keys)
           \/ \E k \in DOMAIN account :
                keys = {k} /\ account' = [account EXCEPT ![k] = NoDid]
        /\ permissions' = Delete(permissions, keys)
        /\ UNCHANGED <<cPrimary, cFrozen, cParent, cAuth,
                       identity, portfolio0, child, authorization>>
  BY DEF handleSecondaryKeysRemoved, handleSecondaryKeyLeftIdentity
<1>2. PalletTypes'
  BY <1>1 DEF PalletTypes, KeyState, Unlink
<1>3. PrimaryKeysBelong'
  <2>1. ASSUME NEW other \in Did, Registered(other)
        PROVE  cPrimary[other] \in Key \ keys
    <3>1. /\ cPrimary[other] \in Key
          /\ cKey[cPrimary[other]] = [did |-> other, perms |-> Whole]
      BY <2>1 DEF PrimaryKeysBelong
    <3> QED  BY <1>1, <3>1 DEF Secondary
  <2> QED  BY <1>1, <2>1 DEF PrimaryKeysBelong, Registered, Unlink
<1>4. IdentityRows' /\ DefaultPortfolioKnown' /\ LinksMirrorChain'
  BY <1>1 DEF IdentityRows, DefaultPortfolioKnown, LinksMirrorChain, Registered
<1>5. AccountsMirrorChain'
  BY <1>1 DEF AccountsMirrorChain, Unlink, Delete
<1>6. PermissionsMirrorChain'
  BY <1>1 DEF PermissionsMirrorChain, Unlink, Delete
<1> QED  BY <1>2, <1>3, <1>4, <1>5, <1>6

\* A key rotation: the row of the identity names the key the pallet replaces,
\* which is unlinked, and whose unrestricted permissions the new key takes.
LEMMA PrimaryKeyUpdatedStep ==
  ASSUME IInv, NEW d \in Did, NEW k \in Key, handlePrimaryKeyUpdated(d, k)
  PROVE  IInv'
<1> DEFINE old == cPrimary[d]
<1> USE IdentitiesAssumption DEF IInv, Has, Free
<1>1. /\ Registered(d) /\ cKey[k] = Free
      /\ cPrimary' = [cPrimary EXCEPT ![d] = k]
      /\ cKey' = [cKey EXCEPT ![k].did = d, ![old] = Free]
      /\ UNCHANGED <<cFrozen, cParent, cAuth, portfolio0, child, authorization>>
  BY DEF handlePrimaryKeyUpdated
<1>2. /\ old \in Key /\ old # k
      /\ cKey[old] = [did |-> d, perms |-> Whole]
  BY <1>1 DEF PrimaryKeysBelong
<1>3. PICK f : /\ identity[d] = Row(old, f)
               /\ f = IF d \in cFrozen THEN TRUE ELSE FALSE
  BY <1>1 DEF IdentityRows
<1>4. /\ d \in DOMAIN identity
      /\ account' = RotateAccount(d, k, old)
      /\ permissions' = RotatePermissions(k, old)
      /\ identity' = Save(identity, d, Row(k, f))
  <2>1. d \in DOMAIN identity /\ identity[d].primaryAccount = old
    BY <1>1, <1>3 DEF IdentityRows, Row
  <2>2. identity' = [identity EXCEPT ![d].primaryAccount = k]
    BY DEF handlePrimaryKeyUpdated
  <2>3. [identity EXCEPT ![d].primaryAccount = k] = Save(identity, d, Row(k, f))
    <3>1. identity[d] = Row(old, f)
      BY <1>3
    <3> HIDE DEF IInv
    <3> QED  BY <2>1, <3>1, UpdatedRow
  <2> QED  BY <2>1, <2>2, <2>3 DEF handlePrimaryKeyUpdated
<1>5. /\ cKey'[k] = [did |-> d, perms |-> Whole] /\ cKey'[old] = Free
      /\ \A other \in Key \ {k, old} : cKey'[other] = cKey[other]
  BY <1>1, <1>2 DEF PalletTypes, KeyState
<1>6. PalletTypes'
  BY <1>1, <1>2 DEF PalletTypes, KeyState
<1>7. PrimaryKeysBelong'
  <2>1. ASSUME NEW other \in Did \ {d}, Registered(other)
        PROVE  cPrimary[other] \in Key \ {k, old}
    <3>1. /\ cPrimary[other] \in Key
          /\ cKey[cPrimary[other]] = [did |-> other, perms |-> Whole]
      BY <2>1 DEF PrimaryKeysBelong
    <3> QED  BY <1>1, <1>2, <3>1
  <2>2. cPrimary'[d] = k /\ \A other \in Did \ {d} : cPrimary'[other] = cPrimary[other]
    BY <1>1 DEF PalletTypes
  <2> QED  BY <1>1, <1>5, <2>1, <2>2 DEF PrimaryKeysBelong, Registered, PalletTypes
<1>8. IdentityRows'
  <2>1. cPrimary'[d] = k /\ \A other \in Did \ {d} : cPrimary'[other] = cPrimary[other]
    BY <1>1 DEF PalletTypes
  <2>2. /\ DOMAIN identity' = DOMAIN identity
        /\ identity'[d] = Row(k, f)
        /\ \A other \in DOMAIN identity \ {d} : identity'[other] = identity[other]
    BY <1>4 DEF Save
  <2> QED  BY <1>1, <1>3, <1>4, <2>1, <2>2 DEF IdentityRows, Registered
<1>9. DefaultPortfolioKnown' /\ LinksMirrorChain'
  BY <1>1, <1>4 DEF DefaultPortfolioKnown, LinksMirrorChain, Save
<1>10. AccountsMirrorChain'
  BY <1>2, <1>4, <1>5 DEF AccountsMirrorChain, RotateAccount, Save
<1>11. PermissionsMirrorChain'
  BY <1>2, <1>4, <1>5 DEF PermissionsMirrorChain, RotatePermissions, Save, Delete
<1> QED  BY <1>6, <1>7, <1>8, <1>9, <1>10, <1>11

\* The secondary keys of an identity are frozen or unfrozen.
LEMMA FrozenStep ==
  ASSUME IInv, NEW d \in Did, NEW frozen \in BOOLEAN, SecondaryKeysFrozen(d, frozen)
  PROVE  IInv'
<1> USE DEF IInv, Has
<1>1. /\ Registered(d)
      /\ cFrozen' = IF frozen THEN cFrozen \union {d} ELSE cFrozen \ {d}
      /\ UNCHANGED <<cPrimary, cKey, cParent, cAuth,
                     account, permissions, portfolio0, child, authorization>>
  BY DEF SecondaryKeysFrozen
<1>2. d \in DOMAIN identity /\ identity' = Save(identity, d, Row(cPrimary[d], frozen))
  <2>1. PICK f : identity[d] = Row(cPrimary[d], f)
    BY <1>1 DEF IdentityRows
  <2>2. /\ d \in DOMAIN identity
        /\ identity' = [identity EXCEPT ![d].secondaryKeysFrozen = frozen]
    BY DEF SecondaryKeysFrozen
  <2>3. [identity EXCEPT ![d].secondaryKeysFrozen = frozen] =
          Save(identity, d, Row(cPrimary[d], frozen))
    <3>1. PICK x : x = frozen
      OBVIOUS
    <3>2. [identity EXCEPT ![d].secondaryKeysFrozen = x] =
            Save(identity, d, Row(cPrimary[d], x))
      <4>1. d \in DOMAIN identity
        BY <2>2
      <4> HIDE DEF IInv, Has
      <4> QED  BY <2>1, <4>1, UpdatedRow
    <3> QED  BY <3>1, <3>2
  <2> QED  BY <2>2, <2>3
<1>3. PalletTypes' /\ PrimaryKeysBelong'
  BY <1>1 DEF PalletTypes, PrimaryKeysBelong, Registered
<1>4. IdentityRows'
  <2>1. /\ DOMAIN identity' = DOMAIN identity
        /\ identity'[d] = Row(cPrimary[d], frozen)
        /\ \A other \in DOMAIN identity \ {d} : identity'[other] = identity[other]
    BY <1>2 DEF Save
  <2>2. CASE frozen = TRUE
    BY <1>1, <1>2, <2>1, <2>2 DEF IdentityRows, Registered
  <2>3. CASE frozen = FALSE
    BY <1>1, <1>2, <2>1, <2>3 DEF IdentityRows, Registered
  <2> QED  BY <2>2, <2>3
<1>5. DefaultPortfolioKnown'
  BY <1>1, <1>2 DEF DefaultPortfolioKnown, Save
<1>6. AccountsMirrorChain' /\ PermissionsMirrorChain' /\ LinksMirrorChain'
  <2>1. DOMAIN identity' = DOMAIN identity
    BY <1>2 DEF Save
  <2> QED  BY <1>1, <2>1 DEF AccountsMirrorChain, PermissionsMirrorChain, LinksMirrorChain
<1> QED  BY <1>3, <1>4, <1>5, <1>6

\* A child identity is created or unlinked.
LEMMA ChildStep ==
  ASSUME IInv, NEW d \in Did,
         \/ \E parent \in Did : handleChildDidCreated(parent, d)
         \/ handleChildDidUnlinked(d)
  PROVE  IInv'
<1> USE IdentitiesAssumption DEF IInv, Has
<1>1. PICK parent \in Did \union {NoDid} :
        /\ cParent' = [cParent EXCEPT ![d] = parent]
        /\ \/ parent # NoDid /\ child' = Save(child, d, parent)
           \/ parent = NoDid /\ child' = Delete(child, {d})
        /\ UNCHANGED <<cPrimary, cKey, cFrozen, cAuth,
                       identity, account, permissions, portfolio0, authorization>>
  BY DEF handleChildDidCreated, handleChildDidUnlinked
<1>2. PalletTypes' /\ PrimaryKeysBelong'
  BY <1>1 DEF PalletTypes, PrimaryKeysBelong, Registered
<1>3. IdentityRows' /\ DefaultPortfolioKnown'
  BY <1>1 DEF IdentityRows, DefaultPortfolioKnown, Registered
<1>4. AccountsMirrorChain' /\ PermissionsMirrorChain'
  BY <1>1 DEF AccountsMirrorChain, PermissionsMirrorChain
<1>5. LinksMirrorChain'
  BY <1>1 DEF LinksMirrorChain, PalletTypes, Save, Delete
<1> QED  BY <1>2, <1>3, <1>4, <1>5

-----------------------------------------------------------------------------

\* Every event of the pallet, with its handler, keeps the invariant.
LEMMA StepInv == IInv /\ [Next]_vars => IInv'
<1> SUFFICES ASSUME IInv, [Next]_vars PROVE IInv'
  OBVIOUS
<1>1. CASE Next
  <2>1. CASE \E d \in Did, a \in AuthId : AuthorizationAdded(d, a)
    BY <2>1, AuthorizationStep
  <2>2. CASE \E a \in AuthId, status \in {"Consumed", "Revoked", "Rejected"} :
               AuthorizationClosed(a, status)
    BY <2>2, AuthorizationStep
  <2>3. CASE \E d \in Did, k \in Key : handleDidCreated(d, k)
    BY <2>3, DidCreatedStep
  <2>4. CASE \E d \in Did, k \in Key : handlePrimaryKeyUpdated(d, k)
    BY <2>4, PrimaryKeyUpdatedStep
  <2>5. CASE \E d \in Did, keys \in SUBSET Key, p \in Perms :
               handleSecondaryKeysAdded(d, keys, p)
    BY <2>5, SecondaryKeysAddedStep
  <2>6. CASE \E d \in Did, frozen \in BOOLEAN : SecondaryKeysFrozen(d, frozen)
    BY <2>6, FrozenStep
  <2>7. CASE \E d \in Did : \/ \E parent \in Did : handleChildDidCreated(parent, d)
                            \/ handleChildDidUnlinked(d)
    BY <2>7, ChildStep
  <2>8. CASE \E k \in Key, p \in Perms : handleSecondaryKeysPermissionsUpdated(k, p)
    BY <2>8, PermissionsUpdatedStep
  <2>9. CASE \/ \E keys \in SUBSET Key : handleSecondaryKeysRemoved(keys)
             \/ \E k \in Key : handleSecondaryKeyLeftIdentity(k)
    BY <2>9, UnlinkedStep
  <2> QED  BY <1>1, <2>1, <2>2, <2>3, <2>4, <2>5, <2>6, <2>7, <2>8, <2>9 DEF Next
<1>2. CASE UNCHANGED vars
  BY <1>2 DEF vars, pallet, tables, IInv, PalletTypes, PrimaryKeysBelong, IdentityRows,
              AccountsMirrorChain, PermissionsMirrorChain, DefaultPortfolioKnown,
              LinksMirrorChain, Registered, Has
<1> QED  BY <1>1, <1>2

\* The strengthened invariant holds throughout.
THEOREM IdentitiesInv == Spec => []IInv
BY InitInv, StepInv, PTL DEF Spec

\* A row of an identity that has the pallet's values has them field by field.
LEMMA RowsAreKeys == IInv => KeysMirrorChain
<1> SUFFICES ASSUME IInv PROVE KeysMirrorChain
  OBVIOUS
<1>1. ASSUME NEW d \in Did, Registered(d)
      PROVE  /\ Has(identity, d)
             /\ identity[d].primaryAccount = cPrimary[d]
             /\ identity[d].secondaryKeysFrozen = (d \in cFrozen)
  <2>1. Has(identity, d)
    BY <1>1 DEF IInv, IdentityRows
  <2>2. CASE d \in cFrozen
    <3>1. identity[d] = Row(cPrimary[d], TRUE)
      BY <2>1, <2>2 DEF IInv, IdentityRows, Has
    <3>2. identity[d].primaryAccount = cPrimary[d] /\ identity[d].secondaryKeysFrozen = TRUE
      BY <3>1 DEF Row
    <3>3. (d \in cFrozen) = TRUE
      BY <2>2
    <3> QED  BY <2>1, <3>2, <3>3
  <2>3. CASE d \notin cFrozen
    <3>1. identity[d] = Row(cPrimary[d], FALSE)
      BY <2>1, <2>3 DEF IInv, IdentityRows, Has
    <3>2. identity[d].primaryAccount = cPrimary[d] /\ identity[d].secondaryKeysFrozen = FALSE
      BY <3>1 DEF Row
    <3>3. (d \in cFrozen) = FALSE
      BY <2>3
    <3> QED  BY <2>1, <3>2, <3>3
  <2> QED  BY <2>2, <2>3
<1> QED  BY <1>1 DEF IInv, AccountsMirrorChain, KeysMirrorChain

\* Whatever the order of registrations, rotations, departures and removals, a
\* key's account is linked as the chain links it, and an identity's row has
\* its primary key and tells whether its secondary keys are frozen.
THEOREM KeysAlwaysMirrorChain == Spec => []KeysMirrorChain
BY IdentitiesInv, RowsAreKeys, PTL

\* A key has the permissions the chain gives it, and none when it has no
\* identity, also the old and the new key of a rotation.
THEOREM PermissionsAlwaysMirrorChain == Spec => []PermissionsMirrorChain
<1>1. IInv => PermissionsMirrorChain
  BY DEF IInv
<1> QED  BY <1>1, IdentitiesInv, PTL

\* Whichever event mentions an identity first, its row comes with the default
\* portfolio without which handleDidCreated throws.
THEOREM DefaultPortfolioAlwaysKnown == Spec => []DefaultPortfolioKnown
<1>1. IInv => DefaultPortfolioKnown
  BY DEF IInv
<1> QED  BY <1>1, IdentitiesInv, PTL

\* Children and authorizations are those of the chain, and whoever gave an
\* authorization has a row.
THEOREM LinksAlwaysMirrorChain == Spec => []LinksMirrorChain
<1>1. IInv => LinksMirrorChain
  BY DEF IInv
<1> QED  BY <1>1, IdentitiesInv, PTL
=============================================================================
