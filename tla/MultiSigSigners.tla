--------------------------- MODULE MultiSigSigners ---------------------------
(***************************************************************************)
(* A multisig, its signers and its admins                                  *)
(* (src/mappings/entities/multiSig/mapMultiSig.ts).                        *)
(***************************************************************************)
EXTENDS Store, FiniteSets

CONSTANTS Signer, Admin

VARIABLES
  is7xChain,    \* whether the block is of a chain from 7.0.0 on
  cSigner,      \* the pallet: the state of each signer
  cAdmin,       \* the pallet: the admins of the multisig
  cRequired,    \* the pallet: the signatures it requires, 0 before it exists
  multiSig,     \* MultiSig rows: the signatures required, at id 0
  signer,       \* MultiSigSigner rows: the status
  admin         \* MultiSigAdmin rows: the status

pallet == <<is7xChain, cSigner, cAdmin, cRequired>>
vars == <<pallet, multiSig, signer, admin>>

Init ==
  /\ is7xChain \in BOOLEAN
  /\ cSigner = [s \in Signer |-> "None"]
  /\ cAdmin = {} /\ cRequired = 0
  /\ multiSig = NoTable /\ signer = NoTable /\ admin = NoTable

Exists == cRequired > 0
Become(signers, status) ==
  cSigner' = [s \in Signer |-> IF s \in signers THEN status ELSE cSigner[s]]

\* Signers that do not approve yet, and those that must stay.
Candidates == {s \in Signer : cSigner[s] # "Approved"}
Approved == {s \in Signer : cSigner[s] = "Approved"}

\* Mutant: the spec version is not looked at.
CreatorIsAdmin_Always == TRUE

\* Up to 7.x the creator is an admin without an event of its own.
CreatorIsAdmin == ~is7xChain

handleMultiSigCreated(creator, signers, required) ==
  /\ ~Exists /\ required \in 1..Cardinality(signers)
  /\ cRequired' = required
  /\ Become(signers, "Authorized")
  /\ cAdmin' = IF is7xChain THEN {} ELSE {creator}
  /\ multiSig' = Save(multiSig, 0, required)
  /\ signer' = SaveAll(signer, [s \in signers |-> "Authorized"])
  /\ admin' = IF CreatorIsAdmin THEN Save(admin, creator, "Authorized") ELSE admin
  /\ UNCHANGED is7xChain

handleMultiSigAddedAdmin(did) ==
  /\ Exists /\ is7xChain
  /\ cAdmin' = cAdmin \union {did}
  /\ admin' = Save(admin, did, "Authorized")
  /\ UNCHANGED <<is7xChain, cSigner, cRequired, multiSig, signer>>

handleMultiSigRemovedAdmin(did) ==
  /\ did \in cAdmin /\ is7xChain
  /\ cAdmin' = cAdmin \ {did}
  /\ admin' = IF Has(admin, did) THEN [admin EXCEPT ![did] = "Removed"] ELSE admin
  /\ UNCHANGED <<is7xChain, cSigner, cRequired, multiSig, signer>>

\* handleMultiSigSignerAuthorized and, for a list, handleMultiSigSignersAuthorized
handleMultiSigSignersAuthorized(signers) ==
  /\ Exists /\ signers \subseteq Candidates
  /\ Become(signers, "Authorized")
  /\ signer' = SaveAll(signer, [s \in signers |-> "Authorized"])
  /\ UNCHANGED <<is7xChain, cAdmin, cRequired, multiSig, admin>>

\* handleMultiSigSignerStatus throws when there is no row.
handleMultiSigSignerAdded(s) ==
  /\ cSigner[s] = "Authorized" /\ Has(signer, s)
  /\ Become({s}, "Approved")
  /\ signer' = [signer EXCEPT ![s] = "Approved"]
  /\ UNCHANGED <<is7xChain, cAdmin, cRequired, multiSig, admin>>

\* handleMultiSigSignerRemoved and, for a list, handleMultiSigSignersRemoved,
\* which passes over the signers that have no row.
handleMultiSigSignersRemoved(signers) ==
  /\ signers \subseteq Approved /\ Cardinality(Approved \ signers) >= cRequired
  /\ Become(signers, "Removed")
  /\ signer' = SaveAll(signer, [s \in signers \cap DOMAIN signer |-> "Removed"])
  /\ UNCHANGED <<is7xChain, cAdmin, cRequired, multiSig, admin>>

handleMultiSigSignaturesRequiredChanged(required) ==
  /\ Exists /\ required \in 1..Cardinality(Approved) /\ Has(multiSig, 0)
  /\ cRequired' = required
  /\ multiSig' = [multiSig EXCEPT ![0] = required]
  /\ UNCHANGED <<is7xChain, cSigner, cAdmin, signer, admin>>

Next ==
  \/ \E signers \in (SUBSET Signer) \ {{}} :
       \/ \E creator \in Admin, required \in 1..Cardinality(Signer) :
            handleMultiSigCreated(creator, signers, required)
       \/ handleMultiSigSignersAuthorized(signers)
       \/ handleMultiSigSignersRemoved(signers)
  \/ \E s \in Signer : handleMultiSigSignerAdded(s)
  \/ \E did \in Admin : handleMultiSigAddedAdmin(did) \/ handleMultiSigRemovedAdmin(did)
  \/ \E required \in 1..Cardinality(Signer) :
       handleMultiSigSignaturesRequiredChanged(required)

Spec == Init /\ [][Next]_vars

-----------------------------------------------------------------------------
\* A reader can tell from the tables who can sign: through any sequence of
\* authorization, acceptance, removal and new authorization, singly or in
\* lists, each signer and each admin has the status it has on the chain, and
\* the number of signatures required is the chain's.
SignersMirrorChain ==
  /\ \A s \in Signer : (IF Has(signer, s) THEN signer[s] ELSE "None") = cSigner[s]
  /\ {did \in DOMAIN admin : admin[did] = "Authorized"} = cAdmin
  /\ Exists <=> Has(multiSig, 0)
  /\ Exists => multiSig[0] = cRequired
=============================================================================
