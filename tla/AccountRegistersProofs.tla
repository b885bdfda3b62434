----------------------- MODULE AccountRegistersProofs -----------------------
(***************************************************************************)
(* Proofs about the registers of accounts and of what they decide:         *)
(* portfolios, the signers and the proposals of a multisig, claims, the    *)
(* import of the identities of the first block, the votes on governance    *)
(* proposals, venues, confidential transactions and movements of POLYX.    *)
(* For any number of them, and any sequence of the events and writes their *)
(* handlers see, the rows are those of the pallet.  Each section gives the *)
(* inductive invariant of a register, shows that the register's own steps  *)
(* keep it and that the other registers' steps leave its state alone.      *)
(***************************************************************************)
EXTENDS MCRegisters, FoldProofs

-----------------------------------------------------------------------------
(* Portfolios.                                                             *)

\* The chain numbers portfolios without gaps.  A row of no portfolio is as it was
\* made up for a leg, so that the creation of the portfolio, which keeps what the
\* row has, leaves nothing behind.
PortfolioInv ==
  /\ cPortfolio = P!NoTable \/ \E last \in 0..MaxNumber : DOMAIN cPortfolio = 0..last
  /\ \A n \in DOMAIN cPortfolio : P!Has(portfolio, n) /\ portfolio[n] = cPortfolio[n]
  /\ \A n \in DOMAIN portfolio \ DOMAIN cPortfolio :
       P!MadeUp(n) /\ portfolio[n] = P!New(NoName)
  /\ \A l \in leg : l[2] /\ l[1] # 0 => P!Has(portfolio, l[1])
  /\ ownerKnown <=> P!Has(portfolio, 0)

PortfolioColumns == {"name", "custodian", "deleted"}

\* A made-up row with a name is the row of a new portfolio of that name.
LEMMA Completed ==
  ASSUME NEW name
  PROVE  [P!New(NoName) EXCEPT !.name = name] = P!New(name)
<1> DEFINE row == [P!New(NoName) EXCEPT !.name = name]
<1>1. /\ row = [k \in PortfolioColumns |-> row[k]]
      /\ P!New(name) = [k \in PortfolioColumns |-> P!New(name)[k]]
  BY DEF P!New, PortfolioColumns
<1>2. \A k \in PortfolioColumns : row[k] = P!New(name)[k]
  <2>1. /\ row.name = name /\ row.custodian = NoCustodian /\ row.deleted = FALSE
        /\ P!New(name).name = name /\ P!New(name).custodian = NoCustodian
        /\ P!New(name).deleted = FALSE
    BY DEF P!New
  <2> QED  BY <2>1 DEF PortfolioColumns
<1> HIDE DEF row
<1>3. row = P!New(name)
  BY <1>1, <1>2
<1> QED  BY <1>3 DEF row

\* The number of a new portfolio is the first that is free.
LEMMA NextNumber ==
  ASSUME PortfolioInv, NEW n \in P!Number, NEW name \in Name,
         P!handlePortfolioCreated(n, name)
  PROVE  /\ n \notin DOMAIN cPortfolio
         /\ DOMAIN cPortfolio \union {n} = 0..n
<1> DEFINE Free(m) == m \notin DOMAIN cPortfolio /\ 1..(m - 1) \subseteq DOMAIN cPortfolio
<1> USE RegistersAssumption
<1>1. PICK last \in 0..MaxNumber : DOMAIN cPortfolio = 0..last
  BY DEF PortfolioInv, P!handlePortfolioCreated, P!Has, P!NoTable
<1>2. last + 1 \in 1..(MaxNumber + 1) /\ Free(last + 1)
  BY <1>1
<1>3. n \in 1..(MaxNumber + 1) /\ Free(n)
  <2>1. n = CHOOSE m \in 1..(MaxNumber + 1) : Free(m)
    BY DEF P!handlePortfolioCreated
  <2> QED  BY <1>2, <2>1
<1>4. n = last + 1
  BY <1>1, <1>3
<1> QED  BY <1>1, <1>4

\* Every event of a portfolio, a leg that makes up a row too, keeps the rows and
\* the numbering.
LEMMA PortfolioStep == PortfolioInv /\ P!Next => PortfolioInv'
<1> SUFFICES ASSUME PortfolioInv, P!Next PROVE PortfolioInv'
  OBVIOUS
<1> USE DEF PortfolioInv, P!Has, P!Save, P!New, P!MadeUp, P!NoTable
<1>1. CASE P!Upgrade
  BY <1>1 DEF P!Upgrade
<1>2. CASE P!handleDidCreated
  <2> USE <1>2 DEF P!handleDidCreated
  <2>1. cPortfolio = P!NoTable
    BY RegistersAssumption
  <2>2. DOMAIN cPortfolio' = 0..0 /\ 0 \in 0..MaxNumber /\ cPortfolio'[0] = P!New(NoName)
    BY <2>1, RegistersAssumption
  <2>3. /\ DOMAIN portfolio' = DOMAIN portfolio \union {0}
        /\ \A n \in DOMAIN portfolio : portfolio'[n] = portfolio[n]
        /\ portfolio'[0] = P!New(NoName)
    <3>1. CASE ownerKnown
      BY <3>1, <2>1
    <3>2. CASE ~ownerKnown
      BY <3>2
    <3> QED  BY <3>1, <3>2
  <2>4. ownerKnown' /\ UNCHANGED leg
    OBVIOUS
  <2> QED  BY <2>1, <2>2, <2>3, <2>4
<1>3. ASSUME NEW n \in P!Number, NEW name \in Name, P!handlePortfolioCreated(n, name)
      PROVE PortfolioInv'
  <2> USE <1>3 DEF P!handlePortfolioCreated, P!Number
  <2>1. DOMAIN cPortfolio' = 0..n /\ n \in 0..MaxNumber /\ n \notin DOMAIN cPortfolio
    BY NextNumber
  <2>2. /\ \A m \in DOMAIN cPortfolio : cPortfolio'[m] = cPortfolio[m]
        /\ cPortfolio'[n] = P!New(name) /\ DOMAIN cPortfolio' = DOMAIN cPortfolio \union {n}
    BY <2>1
  <2>3. /\ DOMAIN portfolio' = DOMAIN portfolio \union {n}
        /\ \A m \in DOMAIN portfolio \ {n} : portfolio'[m] = portfolio[m]
        /\ portfolio'[n] = P!New(name)
    <3>1. CASE n \in DOMAIN portfolio
      <4>1. portfolio[n] = P!New(NoName)
        BY <3>1, <2>1
      <4>2. portfolio' = [portfolio EXCEPT ![n].name = name]
        BY <3>1
      <4>3. portfolio'[n] = [portfolio[n] EXCEPT !.name = name]
        BY <3>1, <4>2
      <4>4. DOMAIN portfolio' = DOMAIN portfolio
            /\ \A m \in DOMAIN portfolio \ {n} : portfolio'[m] = portfolio[m]
        BY <3>1, <4>2
      <4>5. [P!New(NoName) EXCEPT !.name = name] = P!New(name)
        BY Completed
      <4> QED  BY ONLY <3>1, <4>1, <4>3, <4>4, <4>5
    <3>2. CASE n \notin DOMAIN portfolio
      BY <3>2
    <3> QED  BY <3>1, <3>2
  <2>4. n # 0 /\ UNCHANGED <<ownerKnown, leg>>
    BY <2>1
  <2>5. \A m \in DOMAIN portfolio' \ DOMAIN cPortfolio' :
          P!MadeUp(m) /\ portfolio'[m] = P!New(NoName)
    BY <2>2, <2>3
  <2>6. cPortfolio' # P!NoTable
    BY <2>1
  <2>7. \A m \in DOMAIN cPortfolio' : P!Has(portfolio', m) /\ portfolio'[m] = cPortfolio'[m]
    BY <2>2, <2>3
  <2> HIDE <1>3 DEF P!handlePortfolioCreated
  <2> QED  BY <2>1, <2>2, <2>3, <2>4, <2>5, <2>6, <2>7
<1>4. ASSUME NEW n \in P!Number, NEW name \in Name, P!handlePortfolioRenamed(n, name)
      PROVE PortfolioInv'
  BY <1>4 DEF P!handlePortfolioRenamed, P!Live
<1>5. ASSUME NEW n \in P!Number, P!handlePortfolioDeleted(n)
      PROVE PortfolioInv'
  BY <1>5 DEF P!handlePortfolioDeleted, P!Live
<1>6. ASSUME NEW n \in P!Number, NEW c \in Custodian, P!handlePortfolioCustodianChanged(n, c)
      PROVE PortfolioInv'
  BY <1>6 DEF P!handlePortfolioCustodianChanged, P!Live
<1>7. ASSUME NEW n \in P!Number, P!CreateLeg(n)
      PROVE PortfolioInv'
  BY <1>7 DEF P!CreateLeg, P!CreatePortfolioIfNotExists, P!IdentityPortfolios
<1> QED  BY <1>1, <1>2, <1>3, <1>4, <1>5, <1>6, <1>7 DEF P!Next

\* At the start there is no portfolio, on either side.
LEMMA PortfolioInit == P!Init => PortfolioInv
BY DEF P!Init, PortfolioInv, P!NoTable, P!Has

\* The invariant holds whatever the other registers do.
LEMMA PortfolioInvAlways == Spec => []PortfolioInv
<1>1. Init => PortfolioInv
  BY PortfolioInit DEF Init
<1>2. PortfolioInv /\ [Next]_vars => PortfolioInv'
  <2> SUFFICES ASSUME PortfolioInv, [Next]_vars PROVE PortfolioInv'
    OBVIOUS
  <2>1. P!Next \/ UNCHANGED portfolioVars
    BY DEF Next, Only, vars, Rules
  <2>2. CASE P!Next
    BY <2>2, PortfolioStep
  <2>3. CASE UNCHANGED portfolioVars
    BY <2>3 DEF portfolioVars, PortfolioInv, P!Has, P!New, P!NoTable, P!MadeUp
  <2> QED  BY <2>1, <2>2, <2>3
<1> QED  BY <1>1, <1>2, PTL DEF Spec

\* Creation, renaming, deletion, change of custodian, and the legs that name a
\* portfolio before its identity or itself is known: every portfolio of the chain
\* has its row, with the name and the custodian the chain gives it, and every
\* other row is an empty one that a leg from 7.0.0 on made up.
THEOREM PortfoliosAlwaysMirrorChain == Spec => []PortfoliosMirrorChain
<1>1. PortfolioInv => PortfoliosMirrorChain
  BY DEF PortfolioInv, PortfoliosMirrorChain, P!PortfoliosMirrorChain
<1> QED  BY <1>1, PortfolioInvAlways, PTL
-----------------------------------------------------------------------------
(* Signers and admins of a multisig.                                       *)

\* Before the multisig exists it has no admin, whatever rows there are.
SignerInv ==
  /\ cRequired \in Nat
  /\ cRequired = 0 => cAdmin = {}
  /\ SignersMirrorChain

\* At the start there are neither signers nor admins, nor rows of any.
LEMMA SignerInit == M!Init => SignerInv
BY DEF M!Init, SignerInv, SignersMirrorChain, M!SignersMirrorChain, M!Has, M!NoTable, M!Exists

\* The instance counts as FiniteSets does.
LEMMA SignerCardinality == \A S : M!Cardinality(S) = Cardinality(S)
BY DEF M!Cardinality, Cardinality

\* Every event of a multisig keeps the status of its signers and admins, in the
\* events of both chains: a signer's, and a list of signers.
LEMMA SignerStep == SignerInv /\ M!Next => SignerInv'
<1> SUFFICES ASSUME SignerInv, M!Next PROVE SignerInv'
  OBVIOUS
<1> USE DEF SignerInv, SignersMirrorChain, M!SignersMirrorChain, M!Has, M!Save,
            M!SaveAll, M!Exists, M!Become
<1>1. ASSUME NEW signers \in SUBSET Signer, NEW creator \in Admin,
             NEW required \in 1..Cardinality(Signer),
             M!handleMultiSigCreated(creator, signers, required)
      PROVE  SignerInv'
  BY <1>1 DEF M!handleMultiSigCreated, M!CreatorIsAdmin
<1>2. ASSUME NEW signers \in SUBSET Signer, M!handleMultiSigSignersAuthorized(signers)
      PROVE  SignerInv'
  BY <1>2 DEF M!handleMultiSigSignersAuthorized
<1>3. ASSUME NEW signers \in SUBSET Signer, M!handleMultiSigSignersRemoved(signers)
      PROVE  SignerInv'
  BY <1>3 DEF M!handleMultiSigSignersRemoved, M!Approved
<1>4. ASSUME NEW s \in Signer, M!handleMultiSigSignerAdded(s)
      PROVE  SignerInv'
  BY <1>4 DEF M!handleMultiSigSignerAdded
<1>5. ASSUME NEW did \in Admin, M!handleMultiSigAddedAdmin(did)
      PROVE  SignerInv'
  BY <1>5 DEF M!handleMultiSigAddedAdmin
<1>6. ASSUME NEW did \in Admin, M!handleMultiSigRemovedAdmin(did)
      PROVE  SignerInv'
  BY <1>6 DEF M!handleMultiSigRemovedAdmin
<1>7. ASSUME NEW required \in 1..Cardinality(Signer),
             M!handleMultiSigSignaturesRequiredChanged(required)
      PROVE  SignerInv'
  BY <1>7 DEF M!handleMultiSigSignaturesRequiredChanged
<1> QED  BY <1>1, <1>2, <1>3, <1>4, <1>5, <1>6, <1>7, SignerCardinality DEF M!Next

\* The invariant holds whatever the other registers do.
LEMMA SignerInvAlways == Spec => []SignerInv
<1>1. Init => SignerInv
  BY SignerInit DEF Init
<1>2. SignerInv /\ [Next]_vars => SignerInv'
  <2> SUFFICES ASSUME SignerInv, [Next]_vars PROVE SignerInv'
    OBVIOUS
  <2>1. M!Next \/ UNCHANGED multiSigVars
    BY DEF Next, Only, vars, Rules
  <2>2. CASE M!Next
    BY <2>2, SignerStep
  <2>3. CASE UNCHANGED multiSigVars
    BY <2>3 DEF multiSigVars, SignerInv, SignersMirrorChain, M!SignersMirrorChain,
                M!Has, M!Exists
  <2> QED  BY <2>1, <2>2, <2>3
<1> QED  BY <1>1, <1>2, PTL DEF Spec

\* A signer that is invited, accepts, is removed and invited again, before and
\* after the chain's 7.x: its row always has the status the chain gives it, and
\* so do the admins.
THEOREM SignersAlwaysMirrorChain == Spec => []SignersMirrorChain
<1>1. SignerInv => SignersMirrorChain
  BY DEF SignerInv
<1> QED  BY <1>1, SignerInvAlways, PTL


-----------------------------------------------------------------------------
(* Claims.                                                                 *)

\* A row of claims, as the handlers write it.
ClaimRow(i, revoked) == [issuer |-> i, revoked |-> revoked]

\* The claims of a kind about a target that only i ever made are shown as they
\* stand: what SoleClaimsMirrorChain says, without counting issuers.
ClaimInv ==
  /\ cClaim \in [Target \X Issuer \X C!Scoped -> {"None", "Standing", "Revoked"}]
  /\ \A t \in Target, i \in Issuer, k \in C!Scoped :
       /\ (\A j \in Issuer : cClaim[<<t, j, k>>] # "None" => j = i)
            /\ cClaim[<<t, i, k>>] # "None"
          => /\ C!Id(t, k) \in DOMAIN claim
             /\ claim[C!Id(t, k)] = IF cClaim[<<t, i, k>>] = "Revoked"
                                    THEN ClaimRow(i, TRUE) ELSE ClaimRow(i, FALSE)
       /\ cClaim[<<t, i, k>>] # "None" =>
            t \in identity /\ (k[2] \in Scope => <<t, k[2]>> \in claimScope)

\* At the start nothing is claimed.
LEMMA ClaimInit == C!Init => ClaimInv
BY DEF C!Init, ClaimInv

\* The only column that changes later.
LEMMA ClaimRowRevoked ==
  \A i, revoked, x : [ClaimRow(i, revoked) EXCEPT !.revoked = x] = ClaimRow(i, x)
BY DEF ClaimRow

\* A claim that is made, made again or revoked touches the row of its target,
\* kind and scope, which another issuer's claim may have taken before.
LEMMA ClaimStep == ClaimInv /\ C!Next => ClaimInv'
<1> SUFFICES ASSUME ClaimInv,
                    NEW t \in Target, NEW i \in Issuer, NEW k \in C!Scoped,
                    C!handleClaimAdded(t, i, k) \/ C!handleClaimRevoked(t, i, k)
             PROVE  ClaimInv'
  BY DEF C!Next
<1> USE DEF ClaimInv, C!Id, C!Has
<1>1. CASE C!handleClaimAdded(t, i, k)
  <2>1. claim' = C!Save(claim, <<t, k>>, ClaimRow(i, FALSE))
    BY <1>1 DEF C!handleClaimAdded, ClaimRow
  <2>2. /\ <<t, k>> \in DOMAIN claim' /\ claim'[<<t, k>>] = ClaimRow(i, FALSE)
        /\ \A id \in DOMAIN claim : id \in DOMAIN claim' /\ (id # <<t, k>> => claim'[id] = claim[id])
    BY <2>1 DEF C!Save
  <2>3. /\ cClaim' \in [Target \X Issuer \X C!Scoped -> {"None", "Standing", "Revoked"}]
        /\ cClaim'[<<t, i, k>>] = "Standing"
        /\ \A c \in Target \X Issuer \X C!Scoped : c # <<t, i, k>> => cClaim'[c] = cClaim[c]
    BY <1>1 DEF C!handleClaimAdded
  <2>4. /\ identity' = identity \union {t} /\ claimScope \subseteq claimScope'
        /\ k[2] \in Scope => <<t, k[2]>> \in claimScope'
    BY <1>1, RegistersAssumption DEF C!handleClaimAdded
  <2>5. ASSUME NEW u \in Target, NEW j \in Issuer, NEW l \in C!Scoped,
               cClaim'[<<u, j, l>>] # "None"
        PROVE  u \in identity' /\ (l[2] \in Scope => <<u, l[2]>> \in claimScope')
    BY <2>3, <2>4, <2>5
  <2>6. ASSUME NEW u \in Target, NEW j \in Issuer, NEW l \in C!Scoped,
               \A other \in Issuer : cClaim'[<<u, other, l>>] # "None" => other = j,
               cClaim'[<<u, j, l>>] # "None"
        PROVE  /\ <<u, l>> \in DOMAIN claim'
               /\ claim'[<<u, l>>] = IF cClaim'[<<u, j, l>>] = "Revoked"
                                     THEN ClaimRow(j, TRUE) ELSE ClaimRow(j, FALSE)
    <3>1. CASE u = t /\ l = k
      <4>1. j = i
        BY <2>3, <2>6, <3>1
      <4> QED  BY <2>2, <2>3, <3>1, <4>1
    <3>2. CASE <<u, l>> # <<t, k>>
      <4>1. \A other \in Issuer : cClaim'[<<u, other, l>>] = cClaim[<<u, other, l>>]
        BY <2>3, <3>2
      <4> QED  BY <2>2, <2>6, <3>2, <4>1
    <3> QED  BY <3>1, <3>2
  <2> QED  BY <2>3, <2>5, <2>6
<1>2. CASE C!handleClaimRevoked(t, i, k)
  <2>1. /\ cClaim' \in [Target \X Issuer \X C!Scoped -> {"None", "Standing", "Revoked"}]
        /\ cClaim'[<<t, i, k>>] = "Revoked" /\ cClaim[<<t, i, k>>] = "Standing"
        /\ \A c \in Target \X Issuer \X C!Scoped : c # <<t, i, k>> => cClaim'[c] = cClaim[c]
    BY <1>2 DEF C!handleClaimRevoked
  <2>2. /\ DOMAIN claim' = DOMAIN claim
        /\ \A id \in DOMAIN claim : id # <<t, k>> => claim'[id] = claim[id]
        /\ UNCHANGED <<claimScope, identity>>
    BY <1>2 DEF C!handleClaimRevoked
  <2>3. ASSUME NEW u \in Target, NEW j \in Issuer, NEW l \in C!Scoped,
               cClaim'[<<u, j, l>>] # "None"
        PROVE  u \in identity' /\ (l[2] \in Scope => <<u, l[2]>> \in claimScope')
    BY <2>1, <2>2, <2>3
  <2>4. ASSUME NEW u \in Target, NEW j \in Issuer, NEW l \in C!Scoped,
               \A other \in Issuer : cClaim'[<<u, other, l>>] # "None" => other = j,
               cClaim'[<<u, j, l>>] # "None"
        PROVE  /\ <<u, l>> \in DOMAIN claim'
               /\ claim'[<<u, l>>] = IF cClaim'[<<u, j, l>>] = "Revoked"
                                     THEN ClaimRow(j, TRUE) ELSE ClaimRow(j, FALSE)
    <3>1. \A other \in Issuer : cClaim[<<u, other, l>>] # "None" => other = j
      BY <2>1, <2>4
    <3>2. CASE u = t /\ l = k
      <4>1. j = i
        BY <2>1, <2>4, <3>2
      <4>2. <<t, k>> \in DOMAIN claim /\ claim[<<t, k>>] = ClaimRow(i, FALSE)
        BY <2>1, <3>1, <3>2, <4>1
      <4>3. claim' = [claim EXCEPT ![<<t, k>>].revoked = TRUE]
        BY <1>2, <4>2 DEF C!handleClaimRevoked
      <4>4. claim'[<<t, k>>] = [claim[<<t, k>>] EXCEPT !.revoked = TRUE]
        BY <4>2, <4>3
      <4>5. claim'[<<t, k>>] = ClaimRow(i, TRUE)
        <5>1. [ClaimRow(i, FALSE) EXCEPT !.revoked = TRUE] = ClaimRow(i, TRUE)
          BY ClaimRowRevoked, Zenon
        <5> QED  BY <4>2, <4>4, <5>1
      <4> QED  BY <2>1, <2>2, <3>2, <4>1, <4>2, <4>5
    <3>3. CASE <<u, l>> # <<t, k>>
      BY <2>1, <2>2, <2>4, <3>1, <3>3
    <3> QED  BY <3>2, <3>3
  <2> QED  BY <2>1, <2>3, <2>4
<1> QED  BY <1>1, <1>2

\* The instance counts as FiniteSets does.
LEMMA ClaimCardinality == \A S : C!Cardinality(S) = Cardinality(S)
BY DEF C!Cardinality, Cardinality

\* A set of issuers with one member has no other issuer than that one.
LEMMA ClaimImplies == ClaimInv => SoleClaimsMirrorChain
<1> SUFFICES ASSUME ClaimInv, NEW t \in Target, NEW k \in C!Scoped
             PROVE  LET issuers == {i \in Issuer : cClaim[<<t, i, k>>] # "None"}
                    IN /\ Cardinality(issuers) = 1 => \A i \in issuers : C!Shows(t, i, k)
                       /\ issuers # {} => /\ t \in identity
                                          /\ k[2] \in Scope => <<t, k[2]>> \in claimScope
  BY ClaimCardinality DEF SoleClaimsMirrorChain, C!SoleClaimsMirrorChain
<1> DEFINE issuers == {i \in Issuer : cClaim[<<t, i, k>>] # "None"}
<1>1. IsFiniteSet(issuers)
  BY RegistersAssumption, FS_Subset
<1>2. ASSUME Cardinality(issuers) = 1, NEW i \in issuers
      PROVE  C!Shows(t, i, k)
  <2>1. \A j \in issuers : j = i
    BY <1>1, <1>2, FS_Singleton
  <2>2. /\ C!Id(t, k) \in DOMAIN claim
        /\ claim[C!Id(t, k)] = IF cClaim[<<t, i, k>>] = "Revoked"
                               THEN ClaimRow(i, TRUE) ELSE ClaimRow(i, FALSE)
    BY <2>1 DEF ClaimInv
  <2>3. PICK revoked : revoked = (cClaim[<<t, i, k>>] = "Revoked")
    OBVIOUS
  <2>4. claim[C!Id(t, k)] = ClaimRow(i, revoked)
    BY <2>2, <2>3
  <2> QED  BY <2>2, <2>3, <2>4 DEF C!Shows, C!Has, ClaimRow
<1>3. issuers # {} => /\ t \in identity
                      /\ k[2] \in Scope => <<t, k[2]>> \in claimScope
  BY DEF ClaimInv
<1> QED  BY <1>2, <1>3

\* The invariant holds whatever the other registers do.
LEMMA ClaimInvAlways == Spec => []ClaimInv
<1>1. Init => ClaimInv
  BY ClaimInit DEF Init
<1>2. ClaimInv /\ [Next]_vars => ClaimInv'
  <2> SUFFICES ASSUME ClaimInv, [Next]_vars PROVE ClaimInv'
    OBVIOUS
  <2>1. C!Next \/ UNCHANGED claimVars
    BY DEF Next, Only, vars, Rules
  <2>2. CASE C!Next
    BY <2>2, ClaimStep
  <2>3. CASE UNCHANGED claimVars
    BY <2>3 DEF claimVars, ClaimInv, C!Id
  <2> QED  BY <2>1, <2>2, <2>3
<1> QED  BY <1>1, <1>2, PTL DEF Spec

\* A claim that one issuer only has ever made about a target is shown as it
\* stands, with its target and its scope registered; the run on two issuers
\* shows that with a second issuer of the same claim it is not.
THEOREM SoleClaimsAlwaysMirrorChain == Spec => []SoleClaimsMirrorChain
BY ClaimInvAlways, ClaimImplies, PTL


-----------------------------------------------------------------------------
(* Proposals of a multisig.                                                *)

Ballots == {"None", "Approved", "Rejected"}
Statuses == {"None", "Active", "Approved"} \union U!Closed
ProposalRow == [status : Statuses, approvalCount : Int, rejectionCount : Int]

ProposalTypes ==
  /\ cStatus \in [Proposal -> Statuses]
  /\ cMultiSigVote \in [Proposal -> [Voter -> Ballots]]
  /\ spec \in 6..8
  /\ oldSpecVersion \in Int /\ oldTxVersion \in Int
  /\ DOMAIN multiSigProposal \subseteq Proposal
  /\ \A p \in DOMAIN multiSigProposal : multiSigProposal[p] \in ProposalRow

\* Nobody has voted on a proposal that does not exist, and what was missed is
\* gone for good.
ProposalHistory ==
  /\ \A p \in Proposal : cStatus[p] = "None" =>
       \A s \in Voter : cMultiSigVote[p][s] = "None"
  /\ missed \subseteq {p \in Proposal : cStatus[p] = "Deleted"}

\* The versions the handler remembers are never ahead of the chain, even after
\* queries that failed: an upgrade that changes the transaction version is seen
\* as one.
KnownVersions ==
  oldTxVersion # 0 => oldTxVersion <= TxVersions[spec] /\ oldSpecVersion <= spec

ProposalInv == ProposalTypes /\ ProposalHistory /\ KnownVersions /\ ProposalsMirrorChain

\* The signers that vote one way; U!Voters says it of a proposal.
Casting(votes, action) == {s \in Voter : votes[s] = action}

\* The instance counts as FiniteSets does.
LEMMA ProposalCardinality == \A S : U!Cardinality(S) = Cardinality(S)
BY DEF U!Cardinality, Cardinality

\* The transaction version never goes back.
LEMMA TxVersionsGrow ==
  /\ \A v \in 6..8 : TxVersions[v] \in 1..2
  /\ \A v \in 6..7 : TxVersions[v] <= TxVersions[v + 1]
BY DEF TxVersions

\* At the start there are neither proposals nor votes, and no known version.
LEMMA ProposalInit == U!Init => ProposalInv
<1> SUFFICES ASSUME U!Init PROVE ProposalInv
  OBVIOUS
<1> USE RegistersAssumption DEF U!Init, U!NoTable, U!Has
<1>1. ProposalTypes
  <2>1. cStatus \in [Proposal -> Statuses]
    BY DEF Statuses
  <2>2. [s \in Voter |-> "None"] \in [Voter -> Ballots]
    BY DEF Ballots
  <2>3. cMultiSigVote \in [Proposal -> [Voter -> Ballots]]
    BY <2>2
  <2> QED  BY <2>1, <2>3 DEF ProposalTypes
<1>2. ProposalHistory /\ KnownVersions
  BY DEF ProposalHistory, KnownVersions
<1>3. ProposalsMirrorChain
  BY DEF ProposalsMirrorChain, U!ProposalsMirrorChain, U!CountsMatchVotes, U!VotesMirrorChain,
         U!StatusMirrorsChain, U!PreviousVote
<1> QED  BY <1>1, <1>2, <1>3 DEF ProposalInv

\* A vote moves its signer from one set of voters to the other.
LEMMA VoteCounted ==
  ASSUME NEW votes \in [Voter -> Ballots], NEW s \in Voter, NEW action,
         votes[s] # action, NEW a
  PROVE  LET cast == Cardinality(Casting(votes, a))
         IN /\ cast \in Nat
            /\ Cardinality(Casting([votes EXCEPT ![s] = action], a)) =
                 cast - (IF votes[s] = a THEN 1 ELSE 0) + (IF action = a THEN 1 ELSE 0)
<1> DEFINE before == Casting(votes, a)
           after == Casting([votes EXCEPT ![s] = action], a)
<1>1. IsFiniteSet(before)
  BY RegistersAssumption, FS_Subset DEF Casting
<1>2. Cardinality(before) \in Nat
  BY <1>1, FS_CardinalityType
<1>3. CASE action = a
  <2>1. after = before \union {s} /\ s \notin before /\ votes[s] # a
    BY <1>3 DEF Casting
  <2> HIDE DEF before, after
  <2>2. Cardinality(after) = Cardinality(before) + 1
    BY <1>1, <2>1, FS_AddElement
  <2> QED  BY <1>2, <1>3, <2>1, <2>2 DEF before, after
<1>4. CASE action # a
  <2>1. after = before \ {s} /\ (s \in before <=> votes[s] = a)
    BY <1>4 DEF Casting
  <2> HIDE DEF before, after
  <2>2. Cardinality(after) = IF s \in before THEN Cardinality(before) - 1
                                             ELSE Cardinality(before)
    BY <1>1, <2>1, FS_RemoveElement
  <2> QED  BY <1>2, <1>4, <2>1, <2>2 DEF before, after
<1> QED  BY <1>3, <1>4

\* The columns of a row after a vote.
LEMMA RecountedRow ==
  ASSUME NEW row \in ProposalRow, NEW previous \in Ballots, NEW action \in U!Actions
  PROVE  LET new == U!Recount(row, previous, action)
         IN /\ new \in ProposalRow /\ new.status = row.status
            /\ new.approvalCount = row.approvalCount
                 - (IF previous = "Approved" THEN 1 ELSE 0)
                 + (IF action = "Approved" THEN 1 ELSE 0)
            /\ new.rejectionCount = row.rejectionCount
                 - (IF previous = "Rejected" THEN 1 ELSE 0)
                 + (IF action = "Rejected" THEN 1 ELSE 0)
<1> DEFINE new == U!Recount(row, previous, action)
           mid == [row EXCEPT !.approvalCount = @ - (IF previous = "Approved" THEN 1 ELSE 0)
                                                  + (IF action = "Approved" THEN 1 ELSE 0)]
<1>1. /\ new.status = row.status
      /\ new.approvalCount = row.approvalCount - (IF previous = "Approved" THEN 1 ELSE 0)
                                               + (IF action = "Approved" THEN 1 ELSE 0)
      /\ new.rejectionCount = row.rejectionCount - (IF previous = "Rejected" THEN 1 ELSE 0)
                                                 + (IF action = "Approved" THEN 0 ELSE 1)
  BY DEF U!Recount, ProposalRow
<1>2. (IF action = "Approved" THEN 0 ELSE 1) = IF action = "Rejected" THEN 1 ELSE 0
  BY DEF U!Actions
<1>3. mid \in ProposalRow
  BY DEF ProposalRow
<1>4. new = [mid EXCEPT !.rejectionCount = @ - (IF previous = "Rejected" THEN 1 ELSE 0)
                                            + (IF action = "Approved" THEN 0 ELSE 1)]
  BY DEF U!Recount, ProposalRow
<1> HIDE DEF new, mid
<1>5. new \in ProposalRow
  BY <1>3, <1>4 DEF ProposalRow
<1> QED  BY <1>1, <1>2, <1>5 DEF new

\* Both event schemes lead to the same handling of a vote, which moves the
\* counts as the vote moves the sets of voters.
LEMMA VoteStep ==
  ASSUME ProposalInv, NEW p \in Proposal, NEW s \in Voter, NEW action \in U!Actions,
         U!Vote(p, s, action)
  PROVE  ProposalInv'
<1> DEFINE previous == U!PreviousVote(p, s)
           new == U!Recount(multiSigProposal[p], previous, action)
<1>1. /\ cStatus[p] = "Active" /\ cMultiSigVote[p][s] # action
      /\ cMultiSigVote' = [cMultiSigVote EXCEPT ![p][s] = action]
      /\ UNCHANGED <<cStatus, spec, oldSpecVersion, oldTxVersion, missed>>
  BY DEF U!Vote, U!upgrade
<1>2. U!VoteAction(p, s, action)
  BY DEF U!Vote, U!ApprovedEvent, U!is7xChain, ProposalInv, ProposalTypes
<1>3. previous = cMultiSigVote[p][s] /\ previous \in Ballots
  BY DEF ProposalInv, ProposalTypes, ProposalsMirrorChain, U!ProposalsMirrorChain,
         U!VotesMirrorChain
<1>4. p \in DOMAIN multiSigProposal /\ multiSigProposal[p] \in ProposalRow
  BY <1>2 DEF U!VoteAction, U!Has, ProposalInv, ProposalTypes
<1>5. /\ new \in ProposalRow /\ new.status = multiSigProposal[p].status
      /\ new.approvalCount = multiSigProposal[p].approvalCount
           - (IF previous = "Approved" THEN 1 ELSE 0)
           + (IF action = "Approved" THEN 1 ELSE 0)
      /\ new.rejectionCount = multiSigProposal[p].rejectionCount
           - (IF previous = "Rejected" THEN 1 ELSE 0)
           + (IF action = "Rejected" THEN 1 ELSE 0)
  BY <1>3, <1>4, RecountedRow
<1>6. /\ DOMAIN multiSigProposal' = DOMAIN multiSigProposal
      /\ multiSigProposal'[p] = new
      /\ \A q \in DOMAIN multiSigProposal \ {p} : multiSigProposal'[q] = multiSigProposal[q]
  BY <1>2, <1>4 DEF U!VoteAction
<1> HIDE DEF previous, new
<1>7. ProposalTypes'
  BY <1>1, <1>5, <1>6 DEF ProposalInv, ProposalTypes, Ballots, U!Actions
<1>8. ProposalHistory' /\ KnownVersions'
  BY <1>1 DEF ProposalInv, ProposalHistory, KnownVersions, ProposalTypes
<1>9. U!CountsMatchVotes'
  <2>1. /\ cMultiSigVote[p] \in [Voter -> Ballots]
        /\ cMultiSigVote'[p] = [cMultiSigVote[p] EXCEPT ![s] = action]
        /\ \A q \in Proposal \ {p} : cMultiSigVote'[q] = cMultiSigVote[q]
    BY <1>1 DEF ProposalInv, ProposalTypes
  <2>2. \A a : Cardinality(Casting(cMultiSigVote'[p], a)) =
                 Cardinality(Casting(cMultiSigVote[p], a))
                   - (IF previous = a THEN 1 ELSE 0) + (IF action = a THEN 1 ELSE 0)
    BY <1>1, <1>3, <2>1, VoteCounted
  <2>3. \A q \in DOMAIN multiSigProposal :
          /\ multiSigProposal[q].approvalCount = Cardinality(Casting(cMultiSigVote[q], "Approved"))
          /\ multiSigProposal[q].rejectionCount = Cardinality(Casting(cMultiSigVote[q], "Rejected"))
    BY ProposalCardinality
       DEF Casting, U!Voters, ProposalInv, ProposalsMirrorChain, U!ProposalsMirrorChain, U!CountsMatchVotes
  <2>4. ASSUME NEW q \in DOMAIN multiSigProposal'
        PROVE  /\ multiSigProposal'[q].approvalCount =
                    Cardinality(Casting(cMultiSigVote'[q], "Approved"))
               /\ multiSigProposal'[q].rejectionCount =
                    Cardinality(Casting(cMultiSigVote'[q], "Rejected"))
    <3>1. CASE q = p
      BY <1>4, <1>5, <1>6, <2>2, <2>3, <3>1
    <3>2. CASE q # p
      BY <1>6, <2>1, <2>3, <3>2 DEF ProposalInv, ProposalTypes
    <3> QED  BY <3>1, <3>2
  <2> QED  BY <2>4, ProposalCardinality DEF U!CountsMatchVotes, Casting, U!Voters
<1>10. U!VotesMirrorChain'
  <2>1. ASSUME NEW q \in Proposal, NEW v \in Voter
        PROVE  U!PreviousVote(q, v)' = cMultiSigVote'[q][v]
    <3>1. U!PreviousVote(q, v) = cMultiSigVote[q][v]
      BY DEF ProposalInv, ProposalsMirrorChain, U!ProposalsMirrorChain, U!VotesMirrorChain
    <3>2. multiSigVote' = U!Save(multiSigVote, <<p, s>>, action)
      BY <1>2 DEF U!VoteAction
    <3> QED  BY <1>1, <3>1, <3>2 DEF U!PreviousVote, U!Save, U!Has, ProposalInv, ProposalTypes
  <2> QED  BY <2>1 DEF U!VotesMirrorChain
<1>11. U!StatusMirrorsChain'
  BY <1>1, <1>5, <1>6
     DEF U!StatusMirrorsChain, U!Has, ProposalInv, ProposalsMirrorChain, U!ProposalsMirrorChain
<1> QED  BY <1>7, <1>8, <1>9, <1>10, <1>11
         DEF ProposalInv, ProposalsMirrorChain, U!ProposalsMirrorChain

\* Events that close a vote, or say how the call went, set the status only.
LEMMA StatusStep ==
  ASSUME ProposalInv, NEW p \in Proposal, NEW status \in Statuses \ {"None"},
         cStatus[p] \in {"Active", "Approved"},
         cStatus' = [cStatus EXCEPT ![p] = status], U!SetStatus(p, status),
         UNCHANGED <<cMultiSigVote, spec, oldSpecVersion, oldTxVersion, missed>>
  PROVE  ProposalInv'
<1>1. /\ DOMAIN multiSigProposal' = DOMAIN multiSigProposal
      /\ multiSigVote' = multiSigVote
      /\ p \in DOMAIN multiSigProposal
      /\ multiSigProposal'[p] = [multiSigProposal[p] EXCEPT !.status = status]
      /\ \A q \in DOMAIN multiSigProposal \ {p} : multiSigProposal'[q] = multiSigProposal[q]
  BY DEF U!SetStatus, U!Has
<1>2. /\ multiSigProposal'[p] \in ProposalRow /\ multiSigProposal'[p].status = status
      /\ multiSigProposal'[p].approvalCount = multiSigProposal[p].approvalCount
      /\ multiSigProposal'[p].rejectionCount = multiSigProposal[p].rejectionCount
  BY <1>1 DEF ProposalInv, ProposalTypes, ProposalRow
<1>3. ProposalTypes'
  BY <1>1, <1>2 DEF ProposalInv, ProposalTypes
<1>4. ProposalHistory' /\ KnownVersions'
  BY DEF ProposalInv, ProposalHistory, KnownVersions, ProposalTypes
<1>5. U!CountsMatchVotes'
  <2>1. \A q \in DOMAIN multiSigProposal :
          /\ multiSigProposal'[q].approvalCount = multiSigProposal[q].approvalCount
          /\ multiSigProposal'[q].rejectionCount = multiSigProposal[q].rejectionCount
    BY <1>1, <1>2
  <2> QED  BY <1>1, <2>1 DEF U!CountsMatchVotes, U!Voters, ProposalInv,
                             ProposalsMirrorChain, U!ProposalsMirrorChain
<1>6. U!VotesMirrorChain'
  BY <1>1 DEF U!VotesMirrorChain, U!PreviousVote, U!Has,
              ProposalInv, ProposalsMirrorChain, U!ProposalsMirrorChain
<1>7. U!StatusMirrorsChain'
  BY <1>1, <1>2 DEF U!StatusMirrorsChain, U!Has, ProposalInv, ProposalTypes,
                    ProposalsMirrorChain, U!ProposalsMirrorChain
<1> QED  BY <1>3, <1>4, <1>5, <1>6, <1>7
         DEF ProposalInv, ProposalsMirrorChain, U!ProposalsMirrorChain

\* A new proposal has no votes.
LEMMA AddedStep ==
  ASSUME ProposalInv, NEW p \in Proposal, U!handleMultiSigProposalAdded(p)
  PROVE  ProposalInv'
<1> DEFINE row == [status |-> "Active", approvalCount |-> 0, rejectionCount |-> 0]
<1>1. /\ cStatus[p] = "None" /\ cStatus' = [cStatus EXCEPT ![p] = "Active"]
      /\ UNCHANGED <<cMultiSigVote, spec, multiSigVote, oldSpecVersion, oldTxVersion, missed>>
      /\ DOMAIN multiSigProposal' = DOMAIN multiSigProposal \union {p}
      /\ multiSigProposal'[p] = row
      /\ \A q \in DOMAIN multiSigProposal \ {p} : multiSigProposal'[q] = multiSigProposal[q]
  BY DEF U!handleMultiSigProposalAdded, U!Save, U!upgrade
<1>2. row \in ProposalRow
  BY DEF ProposalRow, Statuses
<1>3. ProposalTypes'
  BY <1>1, <1>2 DEF ProposalInv, ProposalTypes, Statuses
<1>4. ProposalHistory' /\ KnownVersions'
  BY <1>1 DEF ProposalInv, ProposalHistory, KnownVersions, ProposalTypes
<1>5. U!CountsMatchVotes'
  <2>1. U!Voters(p, "Approved") = {} /\ U!Voters(p, "Rejected") = {}
    BY <1>1 DEF U!Voters, ProposalInv, ProposalHistory
  <2>2. U!Cardinality({}) = 0
    BY FS_EmptySet, ProposalCardinality
  <2>3. ASSUME NEW q \in DOMAIN multiSigProposal'
        PROVE  /\ multiSigProposal'[q].approvalCount = U!Cardinality(U!Voters(q, "Approved"))
               /\ multiSigProposal'[q].rejectionCount = U!Cardinality(U!Voters(q, "Rejected"))
    <3>1. CASE q = p
      BY <1>1, <2>1, <2>2, <3>1
    <3>2. CASE q # p
      BY <1>1, <3>2 DEF U!CountsMatchVotes, ProposalInv,
                        ProposalsMirrorChain, U!ProposalsMirrorChain
    <3> QED  BY <3>1, <3>2
  <2> QED  BY <1>1, <2>3 DEF U!CountsMatchVotes, U!Voters
<1>6. U!VotesMirrorChain'
  BY <1>1 DEF U!VotesMirrorChain, U!PreviousVote, U!Has,
              ProposalInv, ProposalsMirrorChain, U!ProposalsMirrorChain
<1>7. U!StatusMirrorsChain'
  BY <1>1 DEF U!StatusMirrorsChain, U!Has, ProposalInv, ProposalTypes,
              ProposalsMirrorChain, U!ProposalsMirrorChain
<1> QED  BY <1>3, <1>4, <1>5, <1>6, <1>7
         DEF ProposalInv, ProposalsMirrorChain, U!ProposalsMirrorChain

\* A query returns rows that match, and all of them if they fit one page.
LEMMA ProposalPages ==
  ASSUME NEW ids, NEW found \in U!getPaginatedData(ids)
  PROVE  found \subseteq ids /\ (~U!Crowded(ids) => found = ids)
BY DEF U!getPaginatedData, U!FoundAmong, U!Crowded

\* An upgrade that drops proposals changes the transaction version, and since
\* the remembered versions are not ahead of the chain, the handler sees that it
\* does and marks the rows it finds; if they are more than a page, or its queries
\* fail, what was dropped is missed.
LEMMA MigrationStep ==
  ASSUME ProposalInv, NEW dropped \in SUBSET Proposal, U!handleMigration(dropped)
  PROVE  ProposalInv'
<1> DEFINE new == spec + 1
           knownSpec == IF oldTxVersion = 0 THEN spec ELSE oldSpecVersion
           knownTx == IF oldTxVersion = 0 THEN TxVersions[spec] ELSE oldTxVersion
           stored == {p \in Proposal : cStatus'[p] = "Active"}
<1>1. /\ spec < SpecLast /\ spec' = new
      /\ dropped \subseteq {p \in Proposal : cStatus[p] = "Active"}
      /\ TxVersions[new] = TxVersions[spec] => dropped = {}
      /\ cStatus' = [p \in Proposal |-> IF p \in dropped THEN "Deleted" ELSE cStatus[p]]
      /\ UNCHANGED <<cMultiSigVote, multiSigVote>>
  BY DEF U!handleMigration
<1>2. /\ spec \in 6..7 /\ new \in 7..8
      /\ TxVersions[spec] \in 1..2 /\ TxVersions[new] \in 1..2
      /\ TxVersions[spec] <= TxVersions[new]
      /\ knownSpec \in Int /\ knownSpec <= spec
      /\ knownTx \in Int /\ knownTx <= TxVersions[spec]
  BY <1>1, RegistersAssumption, TxVersionsGrow
     DEF ProposalInv, ProposalTypes, KnownVersions
<1>3. \/ /\ oldTxVersion' = TxVersions[new] /\ oldSpecVersion' = new
         /\ \E found \in SUBSET U!ActiveRows :
              /\ U!MarkDeleted(found, stored)
              /\ \/ found = U!ActiveRows /\ missed' = missed
                 \/ missed' = missed \union dropped
      \/ /\ TxVersions[new] = knownTx
         /\ UNCHANGED multiSigProposal /\ oldTxVersion' = knownTx
         /\ oldSpecVersion' = new /\ missed' = missed
      \/ /\ missed' = missed \union dropped
         /\ UNCHANGED multiSigProposal
         /\ \/ oldSpecVersion' = knownSpec /\ oldTxVersion' = knownTx
            \/ UNCHANGED <<oldSpecVersion, oldTxVersion>>
  <2>1. knownSpec # new
    <3>1. spec \in Int
      BY <1>2
    <3> HIDE DEF knownSpec, knownTx
    <3> QED  BY <1>2, <3>1
  <2>2. \/ /\ IF knownSpec # new /\ TxVersions[new] # knownTx
              THEN /\ \E found \in U!getPaginatedData(U!ActiveRows) :
                        U!MarkDeleted(found, stored)
                   /\ missed' = IF U!Crowded(U!ActiveRows) THEN missed \union dropped
                                                           ELSE missed
                   /\ oldTxVersion' = TxVersions[new]
              ELSE UNCHANGED <<multiSigProposal, missed>> /\ oldTxVersion' = knownTx
           /\ oldSpecVersion' = IF knownSpec # new THEN new ELSE knownSpec
        \/ /\ missed' = missed \union dropped
           /\ UNCHANGED multiSigProposal
           /\ \/ oldSpecVersion' = knownSpec /\ oldTxVersion' = knownTx
              \/ UNCHANGED U!upgrade
    BY DEF U!handleMigration
  <2> HIDE DEF knownSpec, knownTx, stored, new
  <2> QED  BY <2>1, <2>2, ProposalPages DEF U!upgrade
<1>4. /\ DOMAIN multiSigProposal' = DOMAIN multiSigProposal
      /\ \A p \in DOMAIN multiSigProposal :
           /\ multiSigProposal'[p].approvalCount = multiSigProposal[p].approvalCount
           /\ multiSigProposal'[p].rejectionCount = multiSigProposal[p].rejectionCount
           /\ multiSigProposal'[p] \in ProposalRow
  BY <1>3 DEF U!MarkDeleted, ProposalInv, ProposalTypes, ProposalRow, Statuses, U!Closed
<1>5. ProposalTypes'
  BY <1>1, <1>2, <1>3, <1>4 DEF ProposalInv, ProposalTypes, Statuses, U!Closed
<1>6. ProposalHistory'
  BY <1>1, <1>3 DEF ProposalInv, ProposalHistory
<1>7. KnownVersions'
  BY <1>1, <1>2, <1>3 DEF ProposalInv, KnownVersions
<1>8. U!CountsMatchVotes'
  BY <1>1, <1>4 DEF U!CountsMatchVotes, U!Voters, ProposalInv,
                    ProposalsMirrorChain, U!ProposalsMirrorChain
<1>9. U!VotesMirrorChain'
  BY <1>1 DEF U!VotesMirrorChain, U!PreviousVote, U!Has,
              ProposalInv, ProposalsMirrorChain, U!ProposalsMirrorChain
<1>10. U!StatusMirrorsChain'
  <2> SUFFICES ASSUME NEW p \in Proposal
               PROVE  IF cStatus'[p] = "None" THEN p \notin DOMAIN multiSigProposal'
                      ELSE /\ p \in DOMAIN multiSigProposal'
                           /\ multiSigProposal'[p].status \in
                                {cStatus'[p]} \union IF p \in missed' THEN {"Active"} ELSE {}
    BY DEF U!StatusMirrorsChain, U!Has
  <2>1. IF cStatus[p] = "None" THEN p \notin DOMAIN multiSigProposal
        ELSE /\ p \in DOMAIN multiSigProposal
             /\ multiSigProposal[p].status \in
                  {cStatus[p]} \union IF p \in missed THEN {"Active"} ELSE {}
    BY DEF U!StatusMirrorsChain, U!Has, ProposalInv,
           ProposalsMirrorChain, U!ProposalsMirrorChain
  <2>2. ASSUME NEW found \in SUBSET U!ActiveRows, U!MarkDeleted(found, stored),
               \/ found = U!ActiveRows /\ missed' = missed
               \/ missed' = missed \union dropped
        PROVE  IF cStatus'[p] = "None" THEN p \notin DOMAIN multiSigProposal'
               ELSE /\ p \in DOMAIN multiSigProposal'
                    /\ multiSigProposal'[p].status \in
                         {cStatus'[p]} \union IF p \in missed' THEN {"Active"} ELSE {}
    <3>1. p \in missed => cStatus[p] = "Deleted"
      BY DEF ProposalInv, ProposalHistory
    <3>2. p \in DOMAIN multiSigProposal =>
            multiSigProposal'[p].status =
              IF p \in found /\ p \notin stored
              THEN "Deleted" ELSE multiSigProposal[p].status
      BY <2>2 DEF U!MarkDeleted, ProposalInv, ProposalTypes, ProposalRow
    <3>3. missed \subseteq missed'
      BY <1>3
    <3>4. p \in found => p \in DOMAIN multiSigProposal /\ multiSigProposal[p].status = "Active"
      BY DEF U!ActiveRows
    <3>5. p \in stored <=> cStatus'[p] = "Active"
      OBVIOUS
    <3> HIDE DEF stored
    <3>6. CASE p \in dropped
      <4>1. cStatus[p] = "Active" /\ cStatus'[p] = "Deleted"
        BY <1>1, <3>6
      <4>2. p \in DOMAIN multiSigProposal /\ multiSigProposal[p].status = "Active"
        BY <2>1, <4>1
      <4>3. p \in found \/ p \in missed'
        BY <2>2, <3>6, <4>2 DEF U!ActiveRows
      <4> QED  BY <1>4, <3>2, <3>5, <4>1, <4>2, <4>3
    <3>7. CASE p \notin dropped
      BY <1>1, <1>4, <2>1, <3>1, <3>2, <3>3, <3>4, <3>5, <3>7
    <3> QED  BY <3>6, <3>7
  <2>3. CASE UNCHANGED multiSigProposal /\ dropped = {}
    BY <1>1, <1>3, <2>1, <2>3
  <2>4. CASE UNCHANGED multiSigProposal /\ missed' = missed \union dropped
    BY <1>1, <2>1, <2>4
  <2>5. CASE \E found \in SUBSET U!ActiveRows :
               /\ U!MarkDeleted(found, stored)
               /\ \/ found = U!ActiveRows /\ missed' = missed
                  \/ missed' = missed \union dropped
    <3>1. PICK found \in SUBSET U!ActiveRows :
               /\ U!MarkDeleted(found, stored)
               /\ \/ found = U!ActiveRows /\ missed' = missed
                  \/ missed' = missed \union dropped
      BY <2>5
    <3> QED  BY <2>2, <3>1
  <2>6. CASE TxVersions[new] = knownTx /\ UNCHANGED multiSigProposal
    <3>1. TxVersions[new] = TxVersions[spec]
      <4> HIDE DEF knownTx
      <4> QED  BY <1>2, <2>6
    <3> QED  BY <1>1, <2>3, <2>6, <3>1
  <2> HIDE DEF new, knownTx, knownSpec, stored
  <2> QED  BY <1>3, <2>4, <2>5, <2>6
<1> QED  BY <1>5, <1>6, <1>7, <1>8, <1>9, <1>10
         DEF ProposalInv, ProposalsMirrorChain, U!ProposalsMirrorChain

\* Every event of a proposal, every upgrade of the chain and every restart of
\* the indexer keeps the invariant.
LEMMA ProposalStep == ProposalInv /\ U!Next => ProposalInv'
<1> SUFFICES ASSUME ProposalInv, U!Next PROVE ProposalInv'
  OBVIOUS
<1>1. ASSUME NEW p \in Proposal, U!handleMultiSigProposalAdded(p)
      PROVE  ProposalInv'
  BY <1>1, AddedStep
<1>2. ASSUME NEW p \in Proposal, NEW s \in Voter, NEW action \in U!Actions,
             U!Vote(p, s, action)
      PROVE  ProposalInv'
  BY <1>2, VoteStep
<1>3. ASSUME NEW p \in Proposal, NEW s \in Voter, U!handleMultiSigProposalApproved(p, s)
      PROVE  ProposalInv'
  <2>1. /\ cStatus[p] = "Active" /\ cStatus' = [cStatus EXCEPT ![p] = "Approved"]
        /\ U!SetStatus(p, "Approved")
        /\ UNCHANGED <<cMultiSigVote, spec, oldSpecVersion, oldTxVersion, missed>>
    BY <1>3 DEF U!handleMultiSigProposalApproved, U!ApprovedEvent, U!is7xChain, U!upgrade
  <2> QED  BY <2>1, StatusStep DEF Statuses
<1>4. ASSUME NEW p \in Proposal, U!handleMultiSigProposalRejected(p)
      PROVE  ProposalInv'
  <2>1. /\ cStatus[p] = "Active" /\ cStatus' = [cStatus EXCEPT ![p] = "Rejected"]
        /\ U!SetStatus(p, "Rejected")
        /\ UNCHANGED <<cMultiSigVote, spec, oldSpecVersion, oldTxVersion, missed>>
    BY <1>4 DEF U!handleMultiSigProposalRejected, U!upgrade
  <2> QED  BY <2>1, StatusStep DEF Statuses, U!Closed
<1>5. ASSUME NEW p \in Proposal, NEW success \in BOOLEAN,
             U!handleMultiSigProposalExecuted(p, success)
      PROVE  ProposalInv'
  <2>1. PICK status \in {"Success", "Failed"} :
          /\ cStatus[p] \in {"Active", "Approved"}
          /\ cStatus' = [cStatus EXCEPT ![p] = status]
          /\ U!SetStatus(p, status)
          /\ UNCHANGED <<cMultiSigVote, spec, oldSpecVersion, oldTxVersion, missed>>
    BY <1>5 DEF U!handleMultiSigProposalExecuted, U!upgrade
  <2> QED  BY <2>1, StatusStep DEF Statuses, U!Closed
<1>6. ASSUME NEW dropped \in SUBSET Proposal, U!handleMigration(dropped)
      PROVE  ProposalInv'
  BY <1>6, MigrationStep
<1>7. CASE U!Restart
  <2>1. /\ oldSpecVersion' = 0 /\ oldTxVersion' = 0
        /\ UNCHANGED <<cStatus, cMultiSigVote, spec, multiSigProposal, multiSigVote, missed>>
    BY <1>7 DEF U!Restart, U!pallet
  <2>2. ProposalTypes' /\ ProposalHistory' /\ KnownVersions'
    BY <2>1 DEF ProposalInv, ProposalTypes, ProposalHistory, KnownVersions
  <2>3. ProposalsMirrorChain'
    BY <2>1 DEF ProposalInv, ProposalsMirrorChain, U!ProposalsMirrorChain,
                U!CountsMatchVotes, U!VotesMirrorChain, U!StatusMirrorsChain,
                U!PreviousVote, U!Voters, U!Has
  <2> QED  BY <2>2, <2>3 DEF ProposalInv
<1> QED  BY <1>1, <1>2, <1>3, <1>4, <1>5, <1>6, <1>7 DEF U!Next

\* The invariant holds whatever the other registers do.
LEMMA ProposalInvAlways == Spec => []ProposalInv
<1>1. Init => ProposalInv
  BY ProposalInit DEF Init
<1>2. ProposalInv /\ [Next]_vars => ProposalInv'
  <2> SUFFICES ASSUME ProposalInv, [Next]_vars PROVE ProposalInv'
    OBVIOUS
  <2>1. U!Next \/ UNCHANGED multiSigProposalVars
    BY DEF Next, Only, vars, Rules
  <2>2. CASE U!Next
    BY <2>2, ProposalStep
  <2>3. CASE UNCHANGED multiSigProposalVars
    <3>1. ProposalTypes' /\ ProposalHistory' /\ KnownVersions'
      BY <2>3 DEF multiSigProposalVars, ProposalInv, ProposalTypes, ProposalHistory,
                  KnownVersions
    <3>2. ProposalsMirrorChain'
      BY <2>3 DEF multiSigProposalVars, ProposalInv, ProposalsMirrorChain,
                  U!ProposalsMirrorChain, U!CountsMatchVotes, U!VotesMirrorChain,
                  U!StatusMirrorsChain, U!PreviousVote, U!Voters, U!Has
    <3> QED  BY <3>1, <3>2 DEF ProposalInv
  <2> QED  BY <2>1, <2>2, <2>3
<1> QED  BY <1>1, <1>2, PTL DEF Spec

\* Votes that are cast and changed, in the events of both chains, the upgrades
\* that drop proposals, with queries that fail, and restarts that forget the
\* known versions: counts, votes and status of every proposal are the chain's,
\* except the status of one dropped while the handler's queries failed, or while
\* more proposals were active than a query is sure to find.
THEOREM ProposalsAlwaysMirrorChain == Spec => []ProposalsMirrorChain
<1>1. ProposalInv => ProposalsMirrorChain
  BY DEF ProposalInv
<1> QED  BY <1>1, ProposalInvAlways, PTL

-----------------------------------------------------------------------------
(* Genesis.                                                                *)

\* The writes that were started, landed or not.
Started == genesisRows \union flight

DidKinds == {"Identity", "Portfolio", "Account"}

\* What a multisig may have found of its creator, and the rows there may be.
AccountsFound(m) == {NoKey, cPrimary[cCreator[m]]}
Allowed == E!Facts \union E!Phantoms \union {E!Blank(m) : m \in MultiSig}

GenesisTypes ==
  /\ \A d \in SystemDid : cPrimary[d] # NoKey
  /\ cCreator \in [MultiSig -> E!Known] /\ todo \subseteq MultiSig
  /\ current = E!None \/ \E m \in MultiSig \ todo : \E a \in AccountsFound(m) : current = <<m, a>>
  /\ sigs \in {"query", "reading", "done", "failed"}
  /\ sigs = "query" => current = E!None

\* What a branch has started, and what has landed when it is done.
BranchesSound ==
  /\ <<"Block", 0>> \in Started /\ Started \subseteq Allowed
  /\ dids \in {"writing", "done"} => E!DidWrites \subseteq Started
  /\ dids = "done" => E!Landed(DidKinds)
  /\ sigs \in {"reading", "done"} =>
       \A m \in MultiSig \ todo : \/ current # E!None /\ current[1] = m
                                  \/ \E a \in AccountsFound(m) : E!SigWrites(m, a) \subseteq Started
  /\ sigs = "done" => todo = {} /\ current = E!None /\ E!Landed(E!Awaited)
  /\ outcome = "ok" => dids = "done" /\ sigs = "done" /\ E!Landed({"Block"})

\* A multisig is written once, after it was read.
WrittenOnce ==
  /\ \A w \in Started : w[1] = "MultiSig" =>
       sigs # "query" /\ w[2] \notin todo /\ (current # E!None => current[1] # w[2])
  /\ \A v, w \in Started : v[1] = "MultiSig" /\ w[1] = "MultiSig" /\ v[2] = w[2] => v = w

GenesisInv == GenesisTypes /\ BranchesSound /\ WrittenOnce

\* The kinds of the writes of a branch.
LEMMA DidKind == \A w \in E!DidWrites : w[1] \in DidKinds
BY DEF E!DidWrites, DidKinds

\* The writes of a multisig, and that one of them is its own.
LEMMA SigKind ==
  \A m, a : \A w \in E!SigWrites(m, a) :
     /\ w[1] \in {"MultiSig", "Signer", "Admin"}
     /\ w[1] = "MultiSig" => w = <<"MultiSig", m, cCreator[m], a>> /\ w[2] = m
BY DEF E!SigWrites

\* The facts, one by one.
LEMMA FactsAre ==
  /\ <<"Block", 0>> \in E!Facts
  /\ \A d \in E!Known : E!IdentityFacts(d) \union E!AccountFacts(d) \subseteq E!Facts
  /\ \A m \in MultiSig : /\ E!SignerFacts(m) \union {E!MultiSigFact(m)} \subseteq E!Facts
                         /\ is7xChainAtGenesis => E!AdminFact(m) \in E!Facts
<1> DEFINE OfDid(d) == E!IdentityFacts(d) \union E!AccountFacts(d)
           OfSig(m) == E!SignerFacts(m) \union {E!MultiSigFact(m)}
<1>1. \A w : \/ w = <<"Block", 0>>
             \/ \E d \in E!Known : w \in OfDid(d)
             \/ \E m \in MultiSig : w \in OfSig(m)
             \/ is7xChainAtGenesis /\ \E m \in MultiSig : w = E!AdminFact(m)
             => w \in E!Facts
  <2>1. \A w : \/ w \in {<<"Block", 0>>}
               \/ w \in UNION {OfDid(d) : d \in E!Known}
               \/ w \in UNION {OfSig(m) : m \in MultiSig}
               \/ w \in IF is7xChainAtGenesis THEN {E!AdminFact(m) : m \in MultiSig} ELSE {}
               => w \in E!Facts
    BY Zenon DEF E!Facts
  <2> HIDE DEF OfDid, OfSig
  <2> QED  BY <2>1
<1> QED  BY <1>1

\* What the branches write is a fact, or one of the rows that are known not to be.
LEMMA DidsAllowed == GenesisTypes => E!DidWrites \subseteq Allowed
<1> SUFFICES ASSUME GenesisTypes, NEW w \in E!DidWrites PROVE w \in Allowed
  OBVIOUS
<1>1. ASSUME NEW d \in E!GenesisDid, w \in {<<"Identity", d, cPrimary[d]>>, <<"Portfolio", d>>}
      PROVE  w \in Allowed
  <2>1. CASE d \in E!Known
    <3>1. w \in E!IdentityFacts(d)
      BY <1>1 DEF E!IdentityFacts
    <3>2. w \in E!Facts
      BY <2>1, <3>1, FactsAre
    <3> QED  BY <3>2 DEF Allowed
  <2>2. CASE d \notin E!Known
    <3>1. d \in GcDid \ E!Known /\ cPrimary[d] = NoKey
      BY <2>2 DEF GenesisTypes, E!Known, E!GenesisDid
    <3>2. w \in E!Phantoms
      BY <1>1, <3>1 DEF E!Phantoms
    <3> QED  BY <3>2 DEF Allowed
  <2> QED  BY <2>1, <2>2
<1>2. ASSUME NEW d \in GcDid, cPrimary[d] # NoKey, NEW k \in E!KeysOf(d),
             w = <<"Account", d, k>>
      PROVE  w \in Allowed
  <2>1. d \in E!Known
    BY <1>2 DEF E!Known, E!GenesisDid
  <2>2. w \in E!AccountFacts(d)
    BY <1>2 DEF E!AccountFacts
  <2>3. w \in E!Facts
    BY <2>1, <2>2, FactsAre
  <2> QED  BY <2>3 DEF Allowed
<1>3. ASSUME w \in {"Portfolio"} \X E!GenesisDid
      PROVE  \E d \in E!GenesisDid : w = <<"Portfolio", d>>
  BY <1>3
<1> QED  BY <1>1, <1>2, <1>3 DEF E!DidWrites

LEMMA SigsAllowed ==
  ASSUME NEW m \in MultiSig, NEW a \in AccountsFound(m)
  PROVE  E!SigWrites(m, a) \subseteq Allowed
<1>1. <<"MultiSig", m, cCreator[m], a>> \in {E!MultiSigFact(m), E!Blank(m)}
  BY DEF AccountsFound, E!MultiSigFact, E!Blank
<1>2. E!SignerFacts(m) \union {E!MultiSigFact(m), E!Blank(m)} \subseteq Allowed
  <2>1. E!SignerFacts(m) \union {E!MultiSigFact(m)} \subseteq E!Facts
    BY FactsAre
  <2> QED  BY <2>1 DEF Allowed
<1>3. is7xChainAtGenesis => E!AdminFact(m) \in Allowed
  <2>1. is7xChainAtGenesis => E!AdminFact(m) \in E!Facts
    BY FactsAre
  <2> QED  BY <2>1 DEF Allowed
<1> QED  BY <1>1, <1>2, <1>3 DEF E!SigWrites, E!SignerFacts, E!AdminFact

\* Only the write of the block is under way at first.
LEMMA GenesisInit == E!Init => GenesisInv
<1> SUFFICES ASSUME E!Init PROVE GenesisInv
  OBVIOUS
<1>1. /\ cCreator \in [MultiSig -> E!Known] /\ \A d \in SystemDid : cPrimary[d] # NoKey
      /\ dids = "query" /\ sigs = "query"
      /\ todo = {} /\ current = E!None /\ flight = {<<"Block", 0>>} /\ genesisRows = {}
      /\ outcome = "running"
  BY DEF E!Init
<1>2. Started = {<<"Block", 0>>} /\ Started \subseteq Allowed
  BY <1>1, FactsAre DEF Started, Allowed
<1>3. \A w \in Started : w[1] # "MultiSig"
  BY <1>2
<1> QED  BY <1>1, <1>2, <1>3 DEF GenesisInv, GenesisTypes, BranchesSound, WrittenOnce

\* Where the branches are done everything has landed.
LEMMA GenesisDone == GenesisInv => GenesisImported
<1> SUFFICES ASSUME GenesisInv PROVE GenesisImported
  OBVIOUS
<1>1. ASSUME outcome = "ok"
      PROVE  /\ E!DidWrites \subseteq genesisRows
             /\ \A m \in MultiSig :
                  /\ {E!MultiSigFact(m), E!Blank(m)} \intersect genesisRows # {}
                  /\ E!SignerFacts(m) \subseteq genesisRows
                  /\ is7xChainAtGenesis => E!AdminFact(m) \in genesisRows \union flight
  <2>1. /\ dids = "done" /\ sigs = "done" /\ todo = {} /\ current = E!None
        /\ E!Landed(DidKinds) /\ E!Landed(E!Awaited)
        /\ E!DidWrites \subseteq Started
    BY <1>1 DEF GenesisInv, BranchesSound
  <2>2. E!DidWrites \subseteq genesisRows
    BY <2>1, DidKind DEF E!Landed, Started
  <2>3. ASSUME NEW m \in MultiSig
        PROVE  /\ {E!MultiSigFact(m), E!Blank(m)} \intersect genesisRows # {}
               /\ E!SignerFacts(m) \subseteq genesisRows
               /\ is7xChainAtGenesis => E!AdminFact(m) \in genesisRows \union flight
    <3>1. PICK a \in AccountsFound(m) : E!SigWrites(m, a) \subseteq Started
      BY <2>1 DEF GenesisInv, BranchesSound
    <3>2. \A w \in E!SigWrites(m, a) : w[1] \in {"MultiSig", "Signer"} => w \in genesisRows
      BY <2>1, <3>1 DEF E!Landed, E!Awaited, E!Sigs, Started
    <3>3. /\ <<"MultiSig", m, cCreator[m], a>> \in E!SigWrites(m, a)
          /\ E!SignerFacts(m) \subseteq E!SigWrites(m, a)
          /\ is7xChainAtGenesis => E!AdminFact(m) \in E!SigWrites(m, a)
      BY DEF E!SigWrites, E!SignerFacts, E!AdminFact
    <3>4. /\ <<"MultiSig", m, cCreator[m], a>>[1] = "MultiSig"
          /\ \A w \in {"Signer"} \X {m} \X GenesisSigner : w[1] = "Signer"
      OBVIOUS
    <3>5. <<"MultiSig", m, cCreator[m], a>> \in {E!MultiSigFact(m), E!Blank(m)}
      BY DEF AccountsFound, E!MultiSigFact, E!Blank
    <3>6. <<"MultiSig", m, cCreator[m], a>> \in genesisRows
      BY <3>2, <3>3, <3>4
    <3>7. E!SignerFacts(m) \subseteq genesisRows
      BY <3>2, <3>3, <3>4 DEF E!SignerFacts
    <3> QED  BY <3>1, <3>3, <3>5, <3>6, <3>7 DEF Started
  <2> QED  BY <2>2, <2>3
<1>5. ASSUME NEW d \in E!Known
      PROVE  /\ E!IdentityFacts(d) \subseteq E!DidWrites
             /\ d \in GcDid => E!AccountFacts(d) \subseteq E!DidWrites
  <2>1. d \in E!GenesisDid /\ cPrimary[d] # NoKey
    BY DEF E!Known
  <2>2. E!IdentityFacts(d) \subseteq E!DidWrites
    BY <2>1 DEF E!IdentityFacts, E!DidWrites
  <2>3. ASSUME d \in GcDid, NEW w \in E!AccountFacts(d) PROVE w \in E!DidWrites
    <3>1. PICK k \in E!KeysOf(d) : w = <<"Account", d, k>>
      BY DEF E!AccountFacts
    <3> QED  BY <2>1, <2>3, <3>1 DEF E!DidWrites
  <2> QED  BY <2>2, <2>3
<1>2. genesisRows \subseteq Allowed
  BY DEF GenesisInv, BranchesSound, Started
<1>3. ASSUME NEW m \in MultiSig
      PROVE  E!Cardinality({w \in genesisRows : w[1] = "MultiSig" /\ w[2] = m}) <= 1
  <2> DEFINE S == {w \in genesisRows : w[1] = "MultiSig" /\ w[2] = m}
  <2>1. \A v, w \in S : v = w
    BY DEF GenesisInv, WrittenOnce, Started
  <2> HIDE DEF S
  <2>2. Cardinality(S) = 0 \/ Cardinality(S) = 1
    <3>1. CASE S = {}
      BY <3>1, FS_EmptySet
    <3>2. CASE S # {}
      <4>1. PICK v : S = {v}
        BY <2>1, <3>2
      <4> QED  BY <4>1, FS_Singleton
    <3> QED  BY <3>1, <3>2
  <2>3. E!Cardinality(S) = Cardinality(S)
    BY DEF E!Cardinality, Cardinality
  <2>4. E!Cardinality(S) <= 1
    BY <2>2, <2>3
  <2> QED  BY <2>4 DEF S
<1> QED  BY <1>1, <1>2, <1>3, <1>5 DEF GenesisImported, E!GenesisImported, Allowed

\* The constants of an import stay, and what is made of them.
LEMMA GenesisConstant ==
  ASSUME UNCHANGED <<is7xChainAtGenesis, cPrimary, cSecondary, cCreator>>
  PROVE  /\ E!DidWrites' = E!DidWrites /\ Allowed' = Allowed
         /\ E!Known' = E!Known
         /\ \A m, a : E!SigWrites(m, a)' = E!SigWrites(m, a)
         /\ \A m : AccountsFound(m)' = AccountsFound(m)
<1>1. E!Known' = E!Known /\ \A d : E!KeysOf(d)' = E!KeysOf(d)
  BY DEF E!Known, E!KeysOf
<1>2. /\ \A d : /\ E!IdentityFacts(d)' = E!IdentityFacts(d)
                /\ E!AccountFacts(d)' = E!AccountFacts(d)
      /\ \A m : /\ E!AdminFact(m)' = E!AdminFact(m) /\ E!Blank(m)' = E!Blank(m)
                /\ E!MultiSigFact(m)' = E!MultiSigFact(m)
                /\ E!SignerFacts(m)' = E!SignerFacts(m)
  BY <1>1 DEF E!IdentityFacts, E!AccountFacts, E!AdminFact, E!Blank, E!MultiSigFact,
              E!SignerFacts
<1>3. E!Facts' = E!Facts /\ E!Phantoms' = E!Phantoms
  BY <1>1, <1>2 DEF E!Facts, E!Phantoms
<1>4. Allowed' = Allowed
  BY <1>2, <1>3 DEF Allowed
<1>5. /\ E!DidWrites' = E!DidWrites
      /\ \A m, a : E!SigWrites(m, a)' = E!SigWrites(m, a)
      /\ \A m : AccountsFound(m)' = AccountsFound(m)
  BY <1>1 DEF E!DidWrites, E!SigWrites, AccountsFound
<1> QED  BY <1>1, <1>4, <1>5

\* A write lands.
LEMMA GenesisLand ==
  ASSUME GenesisInv, NEW w \in flight, E!Land(w)
  PROVE  GenesisInv'
<1>1. /\ flight' = flight \ {w} /\ genesisRows' = genesisRows \union {w}
      /\ UNCHANGED <<is7xChainAtGenesis, cPrimary, cSecondary, cCreator, dids, sigs, todo, current, outcome>>
  BY DEF E!Land, E!chain
<1>2. Started' = Started
  BY <1>1 DEF Started
<1>3. GenesisTypes'
  BY <1>1, GenesisConstant DEF GenesisInv, GenesisTypes, AccountsFound, E!None
<1>4. /\ \A kinds : E!Landed(kinds) => \A v \in flight' : v[1] \notin kinds
      /\ E!DidWrites' = E!DidWrites /\ Allowed' = Allowed
  BY <1>1, GenesisConstant DEF E!Landed
<1>5. \A m, a : E!SigWrites(m, a)' = E!SigWrites(m, a)
  BY <1>1 DEF E!SigWrites
<1>6. BranchesSound'
  BY <1>1, <1>2, <1>4, <1>5 DEF GenesisInv, BranchesSound, E!Landed, AccountsFound, E!Awaited,
                                E!Sigs, E!None
<1>7. WrittenOnce'
  BY <1>1, <1>2 DEF GenesisInv, WrittenOnce, E!None
<1> QED  BY <1>3, <1>6, <1>7 DEF GenesisInv

\* The branch of the identities.
LEMMA GenesisDids ==
  ASSUME GenesisInv, E!QueryDids \/ E!QueryDidsFails \/ E!DidsDone
  PROVE  GenesisInv'
<1>1. /\ UNCHANGED <<is7xChainAtGenesis, cPrimary, cSecondary, cCreator, sigs, todo, current, genesisRows>>
      /\ dids' # "query" /\ (dids = "query" \/ dids = "writing")
      /\ outcome # "ok" => outcome' # "ok"
      /\ outcome' = "ok" => outcome = "ok"
  BY DEF E!QueryDids, E!QueryDidsFails, E!DidsDone, E!chain, E!Fail
<1>2. outcome' # "ok"
  BY <1>1 DEF GenesisInv, BranchesSound
<1>3. \/ dids' = "writing" /\ flight' = flight \union E!DidWrites
      \/ dids' = "failed" /\ flight' = flight
      \/ dids' = "done" /\ flight' = flight /\ dids = "writing" /\ E!Landed(DidKinds)
  BY DEF E!QueryDids, E!QueryDidsFails, E!DidsDone, DidKinds
<1>4. Started' = Started \/ Started' = Started \union E!DidWrites
  BY <1>1, <1>3 DEF Started
<1>5. /\ Started \subseteq Started' /\ Started' \subseteq Allowed
      /\ \A w \in Started' : w[1] = "MultiSig" => w \in Started
  BY <1>4, DidKind, DidsAllowed DEF GenesisInv, BranchesSound, DidKinds
<1>6. GenesisTypes'
  BY <1>1, GenesisConstant DEF GenesisInv, GenesisTypes, AccountsFound, E!None
<1>7. \A kinds : /\ E!Landed(kinds) <=> \A v \in flight : v[1] \notin kinds
                 /\ E!Landed(kinds)' <=> \A v \in flight' : v[1] \notin kinds
  BY DEF E!Landed
<1>8. \A w \in E!DidWrites : w[1] \notin E!Awaited
  BY DidKind DEF E!Awaited, E!Sigs, DidKinds
<1>9. dids' \in {"writing", "done"} => E!DidWrites \subseteq Started'
  BY <1>3, <1>5 DEF GenesisInv, BranchesSound, Started
<1>10. BranchesSound'
  BY <1>1, <1>2, <1>3, <1>5, <1>7, <1>8, <1>9, GenesisConstant
     DEF GenesisInv, BranchesSound, E!Awaited, E!Sigs, DidKinds, E!None
<1>11. WrittenOnce'
  BY <1>1, <1>5 DEF GenesisInv, WrittenOnce, E!None
<1> QED  BY <1>6, <1>10, <1>11 DEF GenesisInv

\* A multisig is to be read, or is read: nothing is written yet.
LEMMA GenesisRead ==
  ASSUME GenesisInv, E!QueryMultiSigs \/ \E m \in todo : E!GetCreator(m)
  PROVE  GenesisInv'
<1>1. /\ UNCHANGED <<is7xChainAtGenesis, cPrimary, cSecondary, cCreator, dids, flight, genesisRows, outcome>>
      /\ Started' = Started /\ sigs' = "reading" /\ sigs # "done" /\ outcome # "ok"
  BY DEF E!QueryMultiSigs, E!GetCreator, E!chain, Started, GenesisInv, BranchesSound
<1>2. \A kinds : E!Landed(kinds) <=> E!Landed(kinds)'
  BY <1>1 DEF E!Landed
<1>3. CASE E!QueryMultiSigs
  <2>1. sigs = "query" /\ todo' = MultiSig /\ current' = current /\ current = E!None
    BY <1>3 DEF E!QueryMultiSigs, GenesisInv, GenesisTypes
  <2>2. GenesisTypes'
    BY <1>1, <2>1, GenesisConstant DEF GenesisInv, GenesisTypes, E!None
  <2>3. BranchesSound'
    BY <1>1, <1>2, <2>1, GenesisConstant DEF GenesisInv, BranchesSound
  <2>4. WrittenOnce'
    BY <1>1, <2>1 DEF GenesisInv, WrittenOnce
  <2> QED  BY <2>2, <2>3, <2>4 DEF GenesisInv
<1>4. ASSUME NEW m \in todo, E!GetCreator(m) PROVE GenesisInv'
  <2>1. PICK a : a = E!PrimaryAccount(cCreator[m])
    OBVIOUS
  <2>2. /\ sigs = "reading" /\ current = E!None /\ todo' = todo \ {m} /\ current' = <<m, a>>
        /\ a \in AccountsFound(m) /\ m \in MultiSig
    BY <1>4, <2>1 DEF E!GetCreator, E!PrimaryAccount, AccountsFound, GenesisInv, GenesisTypes
  <2>3. current' # E!None /\ current'[1] = m
    BY <2>2 DEF E!None
  <2>4. GenesisTypes'
    BY <1>1, <2>2, <2>3, GenesisConstant DEF GenesisInv, GenesisTypes, AccountsFound, E!None
  <2>5. BranchesSound'
    BY <1>1, <1>2, <2>2, <2>3, GenesisConstant DEF GenesisInv, BranchesSound, E!None
  <2>6. WrittenOnce'
    BY <1>1, <2>2, <2>3 DEF GenesisInv, WrittenOnce, E!None
  <2> QED  BY <2>4, <2>5, <2>6 DEF GenesisInv
<1> QED  BY <1>3, <1>4

\* The one writes of a multisig.
LEMMA GenesisWrite ==
  ASSUME GenesisInv, E!WriteMultiSig
  PROVE  GenesisInv'
<1>1. /\ UNCHANGED <<is7xChainAtGenesis, cPrimary, cSecondary, cCreator, dids, sigs, todo, genesisRows, outcome>>
      /\ current # E!None /\ current' = E!None
      /\ flight' = flight \union E!SigWrites(current[1], current[2])
  BY DEF E!WriteMultiSig, E!chain
<1>2. PICK m \in MultiSig \ todo : \E a \in AccountsFound(m) : current = <<m, a>>
  BY <1>1 DEF GenesisInv, GenesisTypes
<1>3. PICK a \in AccountsFound(m) : current = <<m, a>>
  BY <1>2
<1>4. /\ current[1] = m /\ current[2] = a
      /\ Started' = Started \union E!SigWrites(m, a)
      /\ flight' = flight \union E!SigWrites(m, a)
  BY <1>1, <1>3 DEF Started
<1>5. E!SigWrites(m, a) \subseteq Allowed
  BY <1>2, SigsAllowed
<1>6. sigs # "done" /\ sigs # "query" /\ outcome # "ok"
  BY <1>1 DEF GenesisInv, GenesisTypes, BranchesSound
<1>7. GenesisTypes'
  BY <1>1, <1>6, GenesisConstant DEF GenesisInv, GenesisTypes, AccountsFound, E!None
<1>8. E!Landed(DidKinds) => E!Landed(DidKinds)'
  BY <1>4, SigKind DEF E!Landed, DidKinds
<1>9. ASSUME sigs \in {"reading", "done"}, NEW k \in MultiSig \ todo
      PROVE  \E b \in AccountsFound(k) : E!SigWrites(k, b) \subseteq Started'
  BY <1>2, <1>4, <1>9 DEF GenesisInv, BranchesSound
<1>10. BranchesSound'
  BY <1>1, <1>4, <1>5, <1>6, <1>8, <1>9, GenesisConstant DEF GenesisInv, BranchesSound
<1>11. WrittenOnce'
  BY <1>1, <1>2, <1>4, <1>6, SigKind DEF GenesisInv, WrittenOnce
<1> QED  BY <1>7, <1>10, <1>11 DEF GenesisInv

\* The ends of the branch of the multisigs, and of the import.
LEMMA GenesisEnds ==
  ASSUME GenesisInv, E!QueryMultiSigsFails \/ E!SigsDone \/ E!genesisHandlerReturns
  PROVE  GenesisInv'
<1>1. /\ UNCHANGED <<is7xChainAtGenesis, cPrimary, cSecondary, cCreator, dids, todo, flight, genesisRows>>
      /\ Started' = Started
  BY DEF E!QueryMultiSigsFails, E!SigsDone, E!genesisHandlerReturns, E!chain, Started
<1>2. \A kinds : E!Landed(kinds) <=> E!Landed(kinds)'
  BY <1>1 DEF E!Landed
<1>3. CASE E!QueryMultiSigsFails
  <2>1. outcome # "ok" /\ outcome' # "ok" /\ sigs' = "failed" /\ current' = E!None
    BY <1>3 DEF E!QueryMultiSigsFails, E!Fail, GenesisInv, BranchesSound
  <2>2. GenesisTypes' /\ WrittenOnce'
    BY <1>1, <2>1, GenesisConstant DEF GenesisInv, GenesisTypes, WrittenOnce, AccountsFound, E!None
  <2>3. BranchesSound'
    BY <1>1, <1>2, <2>1, GenesisConstant DEF GenesisInv, BranchesSound
  <2> QED  BY <2>2, <2>3 DEF GenesisInv
<1>4. CASE E!SigsDone
  <2>1. /\ sigs = "reading" /\ todo = {} /\ current = E!None /\ E!Landed(E!Awaited)
        /\ sigs' = "done" /\ UNCHANGED <<current, outcome>>
    BY <1>4 DEF E!SigsDone
  <2>2. GenesisTypes' /\ WrittenOnce'
    BY <1>1, <2>1, GenesisConstant DEF GenesisInv, GenesisTypes, WrittenOnce, AccountsFound, E!None
  <2>3. BranchesSound'
    BY <1>1, <1>2, <2>1, GenesisConstant
       DEF GenesisInv, BranchesSound, E!None, E!Awaited, E!Sigs
  <2> QED  BY <2>2, <2>3 DEF GenesisInv
<1>5. CASE E!genesisHandlerReturns
  <2>1. dids = "done" /\ sigs = "done" /\ E!Landed({"Block"}) /\ UNCHANGED <<sigs, current>>
    BY <1>5 DEF E!genesisHandlerReturns
  <2>2. GenesisTypes' /\ WrittenOnce'
    BY <1>1, <2>1, GenesisConstant DEF GenesisInv, GenesisTypes, WrittenOnce, AccountsFound, E!None
  <2>3. BranchesSound'
    BY <1>1, <1>2, <2>1, GenesisConstant
       DEF GenesisInv, BranchesSound, E!None, E!Awaited, E!Sigs
  <2> QED  BY <2>2, <2>3 DEF GenesisInv
<1> QED  BY <1>3, <1>4, <1>5

\* Every step of the import.
LEMMA GenesisStep == GenesisInv /\ E!Next => GenesisInv'
BY GenesisLand, GenesisDids, GenesisRead, GenesisWrite, GenesisEnds DEF E!Next

\* The other registers leave the import alone.
LEMMA GenesisAlways == Spec => []GenesisInv
<1>1. Init => GenesisInv
  BY GenesisInit DEF Init
<1>2. GenesisInv /\ [Next]_vars => GenesisInv'
  <2> SUFFICES ASSUME GenesisInv, [Next]_vars PROVE GenesisInv'
    OBVIOUS
  <2>1. E!Next \/ UNCHANGED genesisVars
    BY DEF Next, Only, vars, Rules
  <2>2. CASE E!Next
    BY <2>2, GenesisStep
  <2>3. CASE UNCHANGED genesisVars
    <3>1. /\ UNCHANGED <<is7xChainAtGenesis, cPrimary, cSecondary, cCreator, dids, sigs, todo, current,
                         flight, genesisRows, outcome>>
          /\ Started' = Started
      BY <2>3 DEF genesisVars, Started
    <3>2. GenesisTypes' /\ WrittenOnce'
      BY <3>1, GenesisConstant DEF GenesisInv, GenesisTypes, WrittenOnce, AccountsFound, E!None
    <3>3. \A kinds : E!Landed(kinds) <=> E!Landed(kinds)'
      BY <3>1 DEF E!Landed
    <3>4. BranchesSound'
      BY <3>1, <3>3, GenesisConstant DEF GenesisInv, BranchesSound, E!None, E!Awaited, E!Sigs
    <3> QED  BY <3>2, <3>4 DEF GenesisInv
  <2> QED  BY <2>1, <2>2, <2>3
<1> QED  BY <1>1, <1>2, PTL DEF Spec

\* In every state of the import, whatever failed or landed late: when it
\* returns without an error it is complete, and no row is there that should
\* not be.
THEOREM GenesisAlwaysImported == Spec => []GenesisImported
<1> QED  BY GenesisDone, GenesisAlways, PTL

-----------------------------------------------------------------------------
(* Governance proposals.                                                   *)

\* A sum in the instance is the sum the lemmas are about.
LEMMA PipSums == \A fun : G!SumFunction(fun) = SumFunctionOnSet(fun, DOMAIN fun)
BY DEF G!SumFunction, G!SumFunctionOnSet, G!FoldFunctionOnSet, G!MapThenFoldSet,
       SumFunctionOnSet, FoldFunctionOnSet, MapThenFoldSet

\* Who of a table of ballots votes on a side, and with which weight in all.
OnSide(table, side) == {v \in DOMAIN table : table[v].vote = side}
WeightOf(table, side) ==
  SumFunctionOnSet([v \in OnSide(table, side) |-> table[v].weight], OnSide(table, side))

\* The weight on a side is the one of the chain's table of ballots.
LEMMA WeightIs == \A p, side : G!Weight(p, side) = WeightOf(cVote[p], side)
<1> TAKE p, side
<1> DEFINE fun == [v \in {u \in DOMAIN cVote[p] : cVote[p][u].vote = side} |-> cVote[p][v].weight]
<1>1. G!Weight(p, side) = G!SumFunction(fun)
  BY DEF G!Weight
<1>2. fun = [v \in OnSide(cVote[p], side) |-> cVote[p][v].weight]
  BY DEF OnSide
<1>3. DOMAIN fun = OnSide(cVote[p], side)
  BY <1>2
<1> HIDE DEF fun
<1>4. G!SumFunction(fun) = SumFunctionOnSet(fun, DOMAIN fun)
  BY PipSums
<1> QED  BY <1>1, <1>2, <1>3, <1>4 DEF WeightOf

IsBallot(b) == b.vote \in BOOLEAN /\ b.weight \in Int
PipBallots(table) == DOMAIN table \subseteq Voter /\ \A v \in DOMAIN table : IsBallot(table[v])

\* A ballot that is cast adds its weight to its side, and one it replaces takes
\* its own from the side it was on.
LEMMA BallotCast ==
  ASSUME NEW table, PipBallots(table), NEW v \in Voter, NEW ballot, IsBallot(ballot), NEW side,
         NEW new, new = G!Save(table, v, ballot)
  PROVE  /\ WeightOf(table, side) \in Int
         /\ WeightOf(new, side) = WeightOf(table, side)
              - (IF v \in DOMAIN table /\ table[v].vote = side THEN table[v].weight ELSE 0)
              + (IF ballot.vote = side THEN ballot.weight ELSE 0)
<1> DEFINE S == OnSide(table, side)
           After == OnSide(new, side)
           fun == [u \in S |-> table[u].weight]
           gun == [u \in After |-> new[u].weight]
<1>1. /\ DOMAIN new = DOMAIN table \union {v} /\ new[v] = ballot
      /\ \A u \in DOMAIN table : u # v => new[u] = table[u]
  BY DEF G!Save
<1>2. /\ After \ {v} = S \ {v} /\ (v \in After <=> ballot.vote = side)
      /\ v \in S <=> v \in DOMAIN table /\ table[v].vote = side
  BY <1>1 DEF OnSide
<1>3. IsFiniteSet(S) /\ IsFiniteSet(After)
  BY <1>1, FS_Subset, RegistersAssumption DEF OnSide, PipBallots
<1>4. /\ WeightOf(table, side) = SumFunctionOnSet(fun, S)
      /\ WeightOf(new, side) = SumFunctionOnSet(gun, After)
  BY DEF WeightOf
<1>5. /\ \A u \in S : fun[u] \in Int
      /\ \A u \in After : gun[u] \in Int
      /\ \A u \in S \ {v} : gun[u] = fun[u]
      /\ v \in S => fun[v] = table[v].weight
      /\ v \in After => gun[v] = ballot.weight
  BY <1>1, <1>2 DEF OnSide, PipBallots, IsBallot
<1> HIDE DEF S, After, fun, gun
<1>6. Ints(fun, S) /\ Ints(gun, After) /\ IsFiniteSet(S \ {v}) /\ Ints(fun, S \ {v})
  BY <1>3, <1>5, FS_Subset DEF Ints
<1>7. SumFunctionOnSet(fun, S \ {v}) = SumFunctionOnSet(gun, After \ {v})
  BY <1>2, <1>5, <1>6, SumAgree
<1>8. /\ SumFunctionOnSet(fun, S) \in Int
      /\ SumFunctionOnSet(fun, S \ {v}) \in Int
  BY <1>3, <1>6, SumUnfold
<1>9. SumFunctionOnSet(fun, S) =
        SumFunctionOnSet(fun, S \ {v}) + (IF v \in S THEN table[v].weight ELSE 0)
  <2>1. CASE v \in S
    BY <1>3, <1>5, <1>6, <1>8, <2>1, SumTake
  <2>2. CASE v \notin S
    <3>1. S \ {v} = S
      BY <2>2
    <3> QED  BY <1>8, <2>2, <3>1
  <2> QED  BY <2>1, <2>2
<1>10. SumFunctionOnSet(gun, After) =
        SumFunctionOnSet(gun, After \ {v}) + (IF v \in After THEN ballot.weight ELSE 0)
  <2>1. CASE v \in After
    <3>1. SumFunctionOnSet(gun, After) = gun[v] + SumFunctionOnSet(gun, After \ {v})
      BY <1>3, <1>6, <2>1, SumTake
    <3>2. gun[v] = ballot.weight /\ SumFunctionOnSet(gun, After \ {v}) \in Int
      BY <1>5, <1>7, <1>8, <2>1
    <3>3. gun[v] \in Int
      BY <1>5, <2>1
    <3>4. SumFunctionOnSet(gun, After) = SumFunctionOnSet(gun, After \ {v}) + gun[v]
      BY <3>1, <3>2, <3>3
    <3> QED  BY <2>1, <3>2, <3>4, Zenon
  <2>2. CASE v \notin After
    <3>1. After \ {v} = After
      BY <2>2
    <3>2. SumFunctionOnSet(gun, After \ {v}) \in Int
      BY <1>7, <1>8
    <3>3. SumFunctionOnSet(gun, After) = SumFunctionOnSet(gun, After \ {v})
      BY <3>1, Zenon
    <3>4. SumFunctionOnSet(gun, After \ {v}) + 0 = SumFunctionOnSet(gun, After \ {v})
      BY <3>2
    <3> QED  BY <2>2, <3>3, <3>4, Zenon
  <2> QED  BY <2>1, <2>2, Zenon
<1>11. v \in S => table[v].weight \in Int
  BY <1>5
<1> QED  BY <1>2, <1>4, <1>7, <1>8, <1>9, <1>10, <1>11

\* What a ballot adds to either total, and the totals of a table of ballots.
Aye(b) == IF b.vote THEN b.weight ELSE 0
Nay(b) == IF b.vote THEN 0 ELSE b.weight
Ayes(table) == WeightOf(table, TRUE)
Nays(table) == WeightOf(table, FALSE)

\* A ballot counts on one side only.
LEMMA BallotWeights ==
  ASSUME NEW b, IsBallot(b)
  PROVE  /\ Aye(b) = (IF b.vote = TRUE THEN b.weight ELSE 0)
         /\ Nay(b) = (IF b.vote = FALSE THEN b.weight ELSE 0)
         /\ Aye(b) \in Int /\ Nay(b) \in Int
<1>1. CASE b.vote = TRUE
  <2>1. Aye(b) = b.weight /\ Nay(b) = 0 /\ ~(b.vote = FALSE)
    BY <1>1, Zenon DEF Aye, Nay
  <2>2. b.weight \in Int /\ 0 \in Int
    BY DEF IsBallot
  <2> QED  BY <1>1, <2>1, <2>2, Zenon
<1>2. CASE b.vote = FALSE
  <2>1. Aye(b) = 0 /\ Nay(b) = b.weight /\ ~(b.vote = TRUE)
    BY <1>2, Zenon DEF Aye, Nay
  <2>2. b.weight \in Int /\ 0 \in Int
    BY DEF IsBallot
  <2> QED  BY <1>2, <2>1, <2>2, Zenon
<1> QED  BY <1>1, <1>2, Zenon DEF IsBallot

\* Both totals of a table when a ballot is cast in it.
LEMMA TotalsCast ==
  ASSUME NEW table, PipBallots(table), NEW v \in Voter, NEW ballot, IsBallot(ballot),
         NEW new, new = G!Save(table, v, ballot)
  PROVE  /\ Ayes(table) \in Int /\ Nays(table) \in Int
         /\ v \in DOMAIN table =>
              /\ Ayes(new) = Ayes(table) - Aye(table[v]) + Aye(ballot)
              /\ Nays(new) = Nays(table) - Nay(table[v]) + Nay(ballot)
         /\ v \notin DOMAIN table =>
              /\ Ayes(new) = Ayes(table) - 0 + Aye(ballot)
              /\ Nays(new) = Nays(table) - 0 + Nay(ballot)
<1>1. \A side : /\ WeightOf(table, side) \in Int
                /\ WeightOf(new, side) = WeightOf(table, side)
                     - (IF v \in DOMAIN table /\ table[v].vote = side THEN table[v].weight ELSE 0)
                     + (IF ballot.vote = side THEN ballot.weight ELSE 0)
  BY BallotCast
<1>2. /\ Aye(ballot) = (IF ballot.vote = TRUE THEN ballot.weight ELSE 0)
      /\ Nay(ballot) = (IF ballot.vote = FALSE THEN ballot.weight ELSE 0)
  BY BallotWeights, Zenon
<1>3. CASE v \in DOMAIN table
  <2>1. IsBallot(table[v])
    BY <1>3 DEF PipBallots
  <2>2. /\ Aye(table[v]) = (IF table[v].vote = TRUE THEN table[v].weight ELSE 0)
        /\ Nay(table[v]) = (IF table[v].vote = FALSE THEN table[v].weight ELSE 0)
    BY <2>1, BallotWeights, Zenon
  <2>3. \A side : (IF v \in DOMAIN table /\ table[v].vote = side THEN table[v].weight ELSE 0)
                  = (IF table[v].vote = side THEN table[v].weight ELSE 0)
    BY <1>3, Zenon
  <2> QED  BY <1>1, <1>2, <1>3, <2>2, <2>3, Zenon DEF Ayes, Nays
<1>4. CASE v \notin DOMAIN table
  <2>1. \A side : (IF v \in DOMAIN table /\ table[v].vote = side THEN table[v].weight ELSE 0) = 0
    BY <1>4, Zenon
  <2> QED  BY <1>1, <1>2, <1>4, <2>1, Zenon DEF Ayes, Nays
<1> QED  BY <1>3, <1>4, Zenon

\* The rows of the votes are the pallet's, and a proposal has its row.
PipTypes ==
  /\ DOMAIN cState = Pip /\ DOMAIN cVote = Pip /\ DOMAIN proposal \subseteq Pip
  /\ \A p \in Pip : /\ PipBallots(cVote[p])
                    /\ \A v : G!Has(vote, <<p, v>>) <=> v \in DOMAIN cVote[p]
                    /\ \A v \in DOMAIN cVote[p] : vote[<<p, v>>] = cVote[p][v]
  /\ \A p \in Pip : cState[p] = "None" <=> p \notin DOMAIN proposal
  /\ \A p \in Pip \ DOMAIN proposal : DOMAIN cVote[p] = {}

Columns == {"state", "aye", "nay", "snapshotted"}

TotalsMatch ==
  \A p \in DOMAIN proposal :
    /\ DOMAIN proposal[p] = Columns
    /\ proposal[p].aye = Ayes(cVote[p]) /\ proposal[p].nay = Nays(cVote[p])
    /\ proposal[p].state = cState[p]

PipInv == PipTypes /\ TotalsMatch

\* The invariant says what is checked.
LEMMA PipMatch == PipInv => WeightsMatchVotes
<1> SUFFICES ASSUME PipInv, NEW p \in DOMAIN proposal
             PROVE  /\ proposal[p].aye = G!Weight(p, TRUE)
                    /\ proposal[p].nay = G!Weight(p, FALSE)
                    /\ proposal[p].state = cState[p]
  BY DEF WeightsMatchVotes, G!WeightsMatchVotes
<1>1. G!Weight(p, TRUE) = Ayes(cVote[p]) /\ G!Weight(p, FALSE) = Nays(cVote[p])
  BY WeightIs, Zenon DEF Ayes, Nays
<1>2. /\ proposal[p].aye = Ayes(cVote[p]) /\ proposal[p].nay = Nays(cVote[p])
      /\ proposal[p].state = cState[p]
  BY DEF PipInv, TotalsMatch
<1> QED  BY <1>1, <1>2, Zenon

\* There are no proposals at first.
LEMMA PipInit == G!Init => PipInv
<1> SUFFICES ASSUME G!Init PROVE PipInv
  OBVIOUS
<1>1. /\ cState = [p \in Pip |-> "None"] /\ cVote = [p \in Pip |-> G!NoTable]
      /\ DOMAIN proposal = {} /\ DOMAIN vote = {} /\ DOMAIN G!NoTable = {}
  BY DEF G!Init, G!NoTable
<1> QED  BY <1>1 DEF PipInv, PipTypes, TotalsMatch, PipBallots, G!Has

\* Nobody has voted on a new proposal.
LEMMA PipCreated ==
  ASSUME PipInv, NEW p \in Pip, G!handleProposalCreated(p)
  PROVE  PipInv'
<1>1. cState[p] = "None" /\ p \notin DOMAIN proposal /\ DOMAIN cVote[p] = {}
  BY DEF G!handleProposalCreated, PipInv, PipTypes
<1>2. /\ UNCHANGED <<cVote, vote>> /\ DOMAIN cState' = DOMAIN cState /\ cState'[p] = "Pending"
      /\ \A q \in Pip \ {p} : cState'[q] = cState[q]
  BY DEF G!handleProposalCreated, PipInv, PipTypes
<1>3. PICK no : no = FALSE
  OBVIOUS
<1>4. proposal' = G!Save(proposal, p, [state |-> "Pending", aye |-> 0, nay |-> 0,
                                       snapshotted |-> no])
  BY <1>3, Zenon DEF G!handleProposalCreated
<1>5. /\ DOMAIN proposal' = DOMAIN proposal \union {p}
      /\ \A q \in DOMAIN proposal : q # p => proposal'[q] = proposal[q]
      /\ proposal'[p].state = "Pending" /\ proposal'[p].aye = 0 /\ proposal'[p].nay = 0
      /\ DOMAIN proposal'[p] = Columns
  BY <1>4 DEF G!Save, Columns
<1>6. \A side : WeightOf(cVote[p], side) = 0
  <2> TAKE side
  <2>1. OnSide(cVote[p], side) = {}
    BY <1>1 DEF OnSide
  <2>2. SumFunctionOnSet([v \in {} |-> cVote[p][v].weight], {}) = 0
    BY ZeroSum, FS_EmptySet
  <2> QED  BY <2>1, <2>2 DEF WeightOf
<1>7. PipTypes'
  BY <1>1, <1>2, <1>5 DEF PipInv, PipTypes, PipBallots, G!Has
<1>8. Ayes(cVote[p]) = 0 /\ Nays(cVote[p]) = 0
  BY <1>6, Zenon DEF Ayes, Nays
<1>9. TotalsMatch'
  BY <1>1, <1>2, <1>5, <1>8 DEF PipInv, PipTypes, TotalsMatch
<1> QED  BY <1>7, <1>9 DEF PipInv

\* A new state changes no total.
LEMMA PipState ==
  ASSUME PipInv, NEW p \in Pip, NEW state \in G!States, G!handleProposalStateUpdated(p, state)
  PROVE  PipInv'
<1>1. /\ p \in DOMAIN proposal /\ UNCHANGED <<cVote, vote>>
      /\ cState' = [cState EXCEPT ![p] = state]
      /\ proposal' = [proposal EXCEPT ![p].state = state]
  BY DEF G!handleProposalStateUpdated, G!Has
<1>2. DOMAIN cState = Pip /\ state # "None" /\ cState[p] # "None"
  BY <1>1 DEF PipInv, PipTypes, G!States
<1>3. /\ DOMAIN cState' = DOMAIN cState /\ cState'[p] = state
      /\ \A q \in Pip \ {p} : cState'[q] = cState[q]
  BY <1>1, <1>2
<1>4. /\ DOMAIN proposal' = DOMAIN proposal
      /\ \A q \in DOMAIN proposal : q # p => proposal'[q] = proposal[q]
      /\ proposal'[p] = [proposal[p] EXCEPT !.state = state]
  BY <1>1
<1>5. proposal'[p].aye = proposal[p].aye
  BY <1>4
<1>6. proposal'[p].nay = proposal[p].nay
  BY <1>4
<1>7. DOMAIN proposal'[p] = DOMAIN proposal[p]
  BY <1>4
<1>8. "state" \in DOMAIN proposal[p]
  BY <1>1 DEF PipInv, TotalsMatch, Columns
<1>9. proposal'[p].state = state
  BY <1>4, <1>8
<1>10. PipTypes'
  BY <1>1, <1>2, <1>3, <1>4 DEF PipInv, PipTypes, PipBallots, G!Has
<1>11. TotalsMatch'
  BY <1>1, <1>2, <1>3, <1>4, <1>5, <1>6, <1>7, <1>9 DEF PipInv, PipTypes, TotalsMatch
<1> QED  BY <1>10, <1>11 DEF PipInv

\* A weight that counts for its side, or no longer does.
LEMMA Weighed ==
  ASSUME NEW row, DOMAIN row = Columns, row.aye \in Int, row.nay \in Int,
         NEW ballot, IsBallot(ballot), NEW sign \in {-1, 1},
         NEW new, new = G!Weigh(row, ballot, sign)
  PROVE  /\ DOMAIN new = Columns /\ new.state = row.state
         /\ new.aye = row.aye + sign * Aye(ballot)
         /\ new.nay = row.nay + sign * Nay(ballot)
<1>0. ballot.weight \in Int /\ ballot.vote \in BOOLEAN
  BY DEF IsBallot
<1>1. CASE ballot.vote
  <2>1. /\ new = [row EXCEPT !.aye = @ + sign * ballot.weight]
        /\ Aye(ballot) = ballot.weight /\ Nay(ballot) = 0
    BY <1>1, Zenon DEF G!Weigh, Aye, Nay
  <2>2. DOMAIN new = Columns
    BY <2>1
  <2>3. new.state = row.state
    BY <2>1
  <2>4. new.nay = row.nay
    BY <2>1
  <2>5. new.aye = row.aye + sign * ballot.weight
    BY <2>1 DEF Columns
  <2>6. row.nay + sign * 0 = row.nay
    OBVIOUS
  <2> QED  BY <2>1, <2>2, <2>3, <2>4, <2>5, <2>6, Zenon
<1>2. CASE ~ballot.vote
  <2>1. /\ new = [row EXCEPT !.nay = @ + sign * ballot.weight]
        /\ Aye(ballot) = 0 /\ Nay(ballot) = ballot.weight
    BY <1>2, Zenon DEF G!Weigh, Aye, Nay
  <2>2. DOMAIN new = Columns
    BY <2>1
  <2>3. new.state = row.state
    BY <2>1
  <2>4. new.aye = row.aye
    BY <2>1
  <2>5. new.nay = row.nay + sign * ballot.weight
    BY <2>1 DEF Columns
  <2>6. row.aye + sign * 0 = row.aye
    OBVIOUS
  <2> QED  BY <2>1, <2>2, <2>3, <2>4, <2>5, <2>6, Zenon
<1> QED  BY <1>1, <1>2, Zenon

\* A vote takes the weight of the one it changes from its side first.
LEMMA PipVoted ==
  ASSUME PipInv, NEW p \in Pip, NEW v \in Voter, NEW ballot \in G!Ballot,
         G!handleVoted(p, v, ballot)
  PROVE  PipInv'
<1>1. /\ p \in DOMAIN proposal /\ UNCHANGED cState
      /\ cVote' = [cVote EXCEPT ![p] = G!Save(@, v, ballot)]
      /\ proposal' = [proposal EXCEPT ![p] = G!Weigh(G!Revised(@, p, v), ballot, 1)]
      /\ vote' = G!Save(vote, <<p, v>>, ballot)
  BY DEF G!handleVoted, G!Has
<1>2. /\ DOMAIN cVote = Pip /\ PipBallots(cVote[p])
      /\ \A u : <<p, u>> \in DOMAIN vote <=> u \in DOMAIN cVote[p]
      /\ \A u \in DOMAIN cVote[p] : vote[<<p, u>>] = cVote[p][u]
  BY DEF PipInv, PipTypes, G!Has
<1>3. IsBallot(ballot)
  <2>1. MaxWeight \in Nat
    BY RegistersAssumption
  <2>2. ballot.weight \in Int
    BY <2>1 DEF G!Ballot
  <2>3. ballot.vote \in BOOLEAN
    BY DEF G!Ballot
  <2> QED  BY <2>2, <2>3 DEF IsBallot
<1>4. PICK old, new, mid, row :
        /\ old = cVote[p] /\ new = G!Save(old, v, ballot)
        /\ mid = G!Revised(proposal[p], p, v) /\ row = G!Weigh(mid, ballot, 1)
  OBVIOUS
<1>5. /\ DOMAIN cVote' = Pip /\ cVote'[p] = new /\ \A q \in Pip \ {p} : cVote'[q] = cVote[q]
      /\ DOMAIN proposal' = DOMAIN proposal /\ proposal'[p] = row
      /\ \A q \in DOMAIN proposal : q # p => proposal'[q] = proposal[q]
  BY <1>1, <1>2, <1>4
<1>6. /\ DOMAIN new = DOMAIN old \union {v} /\ new[v] = ballot
      /\ \A u \in DOMAIN old : u # v => new[u] = old[u]
  BY <1>4 DEF G!Save
<1>7. /\ DOMAIN vote' = DOMAIN vote \union {<<p, v>>} /\ vote'[<<p, v>>] = ballot
      /\ \A id \in DOMAIN vote : id # <<p, v>> => vote'[id] = vote[id]
  BY <1>1 DEF G!Save
<1>8. PipTypes'
  <2>1. PipBallots(new)
    BY <1>2, <1>3, <1>4, <1>6 DEF PipBallots
  <2>2. ASSUME NEW q \in Pip
        PROVE  /\ PipBallots(cVote'[q])
               /\ \A u : <<q, u>> \in DOMAIN vote' <=> u \in DOMAIN cVote'[q]
               /\ \A u \in DOMAIN cVote'[q] : vote'[<<q, u>>] = cVote'[q][u]
    <3>1. CASE q = p
      BY <1>2, <1>4, <1>5, <1>6, <1>7, <2>1, <3>1
    <3>2. CASE q # p
      <4>1. /\ PipBallots(cVote[q])
            /\ \A u : <<q, u>> \in DOMAIN vote <=> u \in DOMAIN cVote[q]
            /\ \A u \in DOMAIN cVote[q] : vote[<<q, u>>] = cVote[q][u]
        BY DEF PipInv, PipTypes, G!Has
      <4> QED  BY <1>5, <1>7, <3>2, <4>1
    <3> QED  BY <3>1, <3>2
  <2> QED  BY <1>1, <1>5, <2>2 DEF PipInv, PipTypes, G!Has
<1>9. /\ DOMAIN proposal[p] = Columns /\ proposal[p].state = cState[p]
      /\ proposal[p].aye = Ayes(old) /\ proposal[p].nay = Nays(old)
  BY <1>1, <1>4 DEF PipInv, TotalsMatch
<1>10. /\ Ayes(old) \in Int /\ Nays(old) \in Int
       /\ v \in DOMAIN old => /\ Ayes(new) = Ayes(old) - Aye(old[v]) + Aye(ballot)
                              /\ Nays(new) = Nays(old) - Nay(old[v]) + Nay(ballot)
       /\ v \notin DOMAIN old => /\ Ayes(new) = Ayes(old) - 0 + Aye(ballot)
                                 /\ Nays(new) = Nays(old) - 0 + Nay(ballot)
  BY <1>2, <1>3, <1>4, TotalsCast
<1>11. Aye(ballot) \in Int /\ Nay(ballot) \in Int
  BY <1>3, BallotWeights
<1>12. /\ DOMAIN row = Columns /\ row.state = cState[p]
       /\ row.aye = Ayes(new) /\ row.nay = Nays(new)
  <2>1. CASE v \notin DOMAIN old
    <3>1. mid = proposal[p]
      BY <1>2, <1>4, <2>1, Zenon DEF G!Revised, G!Has
    <3>2. /\ DOMAIN row = Columns /\ row.state = mid.state
          /\ row.aye = mid.aye + 1 * Aye(ballot) /\ row.nay = mid.nay + 1 * Nay(ballot)
      BY <1>3, <1>4, <1>9, <1>10, <3>1, Weighed
    <3> QED  BY <1>9, <1>10, <1>11, <2>1, <3>1, <3>2
  <2>2. CASE v \in DOMAIN old
    <3>1. mid = G!Weigh(proposal[p], old[v], -1)
      <4>1. G!Has(vote, <<p, v>>) /\ vote[<<p, v>>] = old[v]
        BY <1>2, <1>4, <2>2 DEF G!Has
      <4> QED  BY <1>4, <4>1, Zenon DEF G!Revised
    <3>2. IsBallot(old[v])
      BY <1>2, <1>4, <2>2 DEF PipBallots
    <3>3. Aye(old[v]) \in Int /\ Nay(old[v]) \in Int
      BY <3>2, BallotWeights
    <3>4. /\ DOMAIN mid = Columns /\ mid.state = proposal[p].state
          /\ mid.aye = proposal[p].aye + (-1) * Aye(old[v])
          /\ mid.nay = proposal[p].nay + (-1) * Nay(old[v])
      BY <1>9, <1>10, <3>1, <3>2, Weighed
    <3>5. mid.aye \in Int /\ mid.nay \in Int
      BY <1>9, <1>10, <3>3, <3>4
    <3>6. /\ DOMAIN row = Columns /\ row.state = mid.state
          /\ row.aye = mid.aye + 1 * Aye(ballot) /\ row.nay = mid.nay + 1 * Nay(ballot)
      BY <1>3, <1>4, <3>4, <3>5, Weighed
    <3> QED  BY <1>9, <1>10, <1>11, <2>2, <3>3, <3>4, <3>6
  <2> QED  BY <2>1, <2>2
<1>13. TotalsMatch'
  BY <1>1, <1>5, <1>12 DEF PipInv, PipTypes, TotalsMatch
<1> QED  BY <1>8, <1>13 DEF PipInv

\* A snapshot only marks the proposals it is of.
LEMMA PipSnapshot ==
  ASSUME PipInv, NEW pips \in SUBSET Pip, G!handleSnapshotTaken(pips)
  PROVE  PipInv'
<1>1. /\ pips \subseteq DOMAIN proposal /\ UNCHANGED <<cState, cVote, vote>>
      /\ proposal' = G!SaveAll(proposal, [p \in pips |-> [proposal[p] EXCEPT !.snapshotted = TRUE]])
  BY DEF G!handleSnapshotTaken, G!Has
<1>2. PICK yes : yes = TRUE
  OBVIOUS
<1>3. proposal' = G!SaveAll(proposal, [p \in pips |-> [proposal[p] EXCEPT !.snapshotted = yes]])
  BY <1>1, <1>2, Zenon
<1>4. /\ DOMAIN proposal' = DOMAIN proposal
      /\ \A p \in DOMAIN proposal : p \notin pips => proposal'[p] = proposal[p]
      /\ \A p \in pips : proposal'[p] = [proposal[p] EXCEPT !.snapshotted = yes]
  BY <1>1, <1>3 DEF G!SaveAll, G!Has
<1>5. ASSUME NEW p \in pips
      PROVE  /\ proposal'[p].aye = proposal[p].aye /\ proposal'[p].nay = proposal[p].nay
             /\ proposal'[p].state = proposal[p].state /\ DOMAIN proposal'[p] = DOMAIN proposal[p]
  <2>1. proposal'[p] = [proposal[p] EXCEPT !.snapshotted = yes]
    BY <1>4
  <2>2. proposal'[p].aye = proposal[p].aye
    BY <2>1
  <2>3. proposal'[p].nay = proposal[p].nay
    BY <2>1
  <2>4. proposal'[p].state = proposal[p].state
    BY <2>1
  <2>5. DOMAIN proposal'[p] = DOMAIN proposal[p]
    BY <2>1
  <2> QED  BY <2>2, <2>3, <2>4, <2>5
<1>6. PipTypes'
  <2>1. DOMAIN proposal' = DOMAIN proposal
    BY <1>4
  <2>2. UNCHANGED <<cState, cVote, vote>>
    BY <1>1
  <2> QED  BY <2>1, <2>2 DEF PipInv, PipTypes, G!Has
<1>7. TotalsMatch'
  BY <1>1, <1>4, <1>5 DEF PipInv, TotalsMatch
<1> QED  BY <1>6, <1>7 DEF PipInv

\* Every event of a proposal.
LEMMA PipStep == PipInv /\ G!Next => PipInv'
BY PipCreated, PipState, PipVoted, PipSnapshot DEF G!Next

\* The invariant of the proposals holds in every state of the registers.
LEMMA PipAlways == Spec => []PipInv
<1>1. Init => PipInv
  BY PipInit DEF Init
<1>2. PipInv /\ [Next]_vars => PipInv'
  <2> SUFFICES ASSUME PipInv, [Next]_vars PROVE PipInv'
    OBVIOUS
  <2>1. G!Next \/ UNCHANGED pipVars
    BY DEF Next, Only, vars, Rules
  <2>2. CASE G!Next
    BY <2>2, PipStep
  <2>3. CASE UNCHANGED pipVars
    BY <2>3 DEF pipVars, PipInv, PipTypes, TotalsMatch, G!Has
  <2> QED  BY <2>1, <2>2, <2>3
<1> QED  BY <1>1, <1>2, PTL DEF Spec

\* In every state the totals of a proposal are the weights of the standing
\* votes, however often they were changed.
THEOREM WeightsAlwaysMatchVotes == Spec => []WeightsMatchVotes
<1> QED  BY PipMatch, PipAlways, PTL

-----------------------------------------------------------------------------
(* Venues.                                                                 *)

VenueColumns == {"owner", "details", "type", "signers"}

\* The lists of signers are lists, of signers the chain knows, each once.
VenueInv ==
  /\ DOMAIN venue = DOMAIN cVenue
  /\ \A v \in DOMAIN venue :
       /\ DOMAIN venue[v] = VenueColumns /\ DOMAIN cVenue[v] = VenueColumns
       /\ venue[v].signers \in Seq(Signer) /\ IsInjective(venue[v].signers)
       /\ ToSet(venue[v].signers) \subseteq cVenue[v].signers
       /\ venue[v].details = cVenue[v].details /\ venue[v].type = cVenue[v].type

\* The folds of the instance are those the lemmas are about.
LEMMA VenueFolds ==
  /\ \A s : V!ToSet(s) = ToSet(s) /\ (V!IsInjective(s) <=> IsInjective(s))
  /\ \A list, batch : V!FoldLeft(V!AddIfNotIncludes, list, batch) =
                        FoldLeft(AddIfNotIncludes, list, batch)
  /\ \A list, batch : V!FoldLeft(V!RemoveIfIncludes, list, batch) =
                        FoldLeft(RemoveIfIncludes, list, batch)
<1>1. \A s : V!ToSet(s) = ToSet(s)
  BY DEF V!ToSet, ToSet
<1>2. \A s : V!IsInjective(s) <=> IsInjective(s)
  BY DEF V!IsInjective, IsInjective
<1>3. \A list, batch : V!FoldLeft(V!AddIfNotIncludes, list, batch) =
                         FoldLeft(AddIfNotIncludes, list, batch)
  BY DEF V!FoldLeft, V!MapThenFoldSet, V!AddIfNotIncludes, V!Contains, V!Max,
         FoldLeft, MapThenFoldSet, AddIfNotIncludes, Contains, Max
<1>4. \A list, batch : V!FoldLeft(V!RemoveIfIncludes, list, batch) =
                         FoldLeft(RemoveIfIncludes, list, batch)
  BY DEF V!FoldLeft, V!MapThenFoldSet, V!RemoveIfIncludes, V!Contains, V!SelectInSeq, V!Min, V!Max,
         FoldLeft, MapThenFoldSet, RemoveIfIncludes, Contains, SelectInSeq, Min, Max
<1> QED  BY <1>1, <1>2, <1>3, <1>4

\* There are no venues at first.
LEMMA VenueInit == V!Init => VenueInv
BY DEF V!Init, V!NoTable, VenueInv

\* A new venue has no signers.
LEMMA VenueCreated ==
  ASSUME VenueInv, NEW v \in Venue, NEW o \in Owner, NEW d \in Text, NEW t \in Text,
         V!handleVenueCreated(v, o, d, t)
  PROVE  VenueInv'
<1> DEFINE chain == [owner |-> o, details |-> d, type |-> t, signers |-> {}]
           row == [owner |-> o, details |-> d, type |-> t, signers |-> << >>]
<1>1. /\ cVenue' = V!Save(cVenue, v, chain) /\ venue' = V!Save(venue, v, row)
      /\ v \notin DOMAIN cVenue
  BY DEF V!handleVenueCreated, V!Has
<1>2. /\ DOMAIN chain = VenueColumns /\ DOMAIN row = VenueColumns
      /\ row.signers = << >> /\ row.details = chain.details /\ row.type = chain.type
      /\ chain.signers = {}
  BY DEF VenueColumns
<1>3. << >> \in Seq(Signer) /\ IsInjective(<< >>) /\ ToSet(<< >>) = {}
  BY DEF IsInjective, ToSet
<1> HIDE DEF chain, row
<1>4. /\ DOMAIN venue' = DOMAIN venue \union {v} /\ DOMAIN cVenue' = DOMAIN cVenue \union {v}
      /\ venue'[v] = row /\ cVenue'[v] = chain
      /\ \A u \in DOMAIN venue : u # v => venue'[u] = venue[u]
      /\ \A u \in DOMAIN cVenue : u # v => cVenue'[u] = cVenue[u]
  BY <1>1 DEF V!Save
<1>5. \A u \in DOMAIN venue : u # v
  BY <1>1 DEF VenueInv
<1> QED  BY <1>2, <1>3, <1>4, <1>5 DEF VenueInv

\* The details and the type change on both sides.
LEMMA VenueUpdated ==
  ASSUME VenueInv, NEW v \in Venue, NEW x \in Text,
         V!handleVenueDetailsUpdated(v, x) \/ V!handleVenueTypeUpdated(v, x)
  PROVE  VenueInv'
<1>0. v \in DOMAIN venue /\ v \in DOMAIN cVenue
  BY DEF V!handleVenueDetailsUpdated, V!handleVenueTypeUpdated, V!Has
<1>1. DOMAIN venue[v] = VenueColumns /\ DOMAIN cVenue[v] = VenueColumns
  BY <1>0 DEF VenueInv
<1>2. CASE V!handleVenueDetailsUpdated(v, x)
  <2>1. /\ venue' = [venue EXCEPT ![v].details = x]
        /\ cVenue' = [cVenue EXCEPT ![v].details = x]
    BY <1>2 DEF V!handleVenueDetailsUpdated
  <2>2. venue'[v] = [venue[v] EXCEPT !.details = x] /\ cVenue'[v] = [cVenue[v] EXCEPT !.details = x]
    BY <1>0, <2>1
  <2> QED  BY <1>0, <1>1, <2>1, <2>2 DEF VenueInv, VenueColumns
<1>3. CASE V!handleVenueTypeUpdated(v, x)
  <2>1. /\ venue' = [venue EXCEPT ![v].type = x]
        /\ cVenue' = [cVenue EXCEPT ![v].type = x]
    BY <1>3 DEF V!handleVenueTypeUpdated
  <2>2. venue'[v] = [venue[v] EXCEPT !.type = x] /\ cVenue'[v] = [cVenue[v] EXCEPT !.type = x]
    BY <1>0, <2>1
  <2> QED  BY <1>0, <1>1, <2>1, <2>2 DEF VenueInv, VenueColumns
<1> QED  BY <1>2, <1>3

\* The lists an update brings are lists of signers.
LEMMA VenueBatch == ASSUME NEW batch \in V!Batches PROVE batch \in Seq(Signer)
<1>1. batch \in [1..1 -> Signer] \/ batch \in [1..2 -> Signer]
  BY DEF V!Batches, V!TupleOf
<1>2. \A n \in Nat : [1..n -> Signer] \subseteq Seq(Signer)
  OBVIOUS
<1> QED  BY <1>1, <1>2

\* Signers are added at the end, and those removed take others with them.
LEMMA VenueSigners ==
  ASSUME VenueInv, NEW v \in Venue, NEW batch \in V!Batches,
         V!handleVenueSignersAdded(v, batch) \/ V!handleVenueSignersRemoved(v, batch)
  PROVE  VenueInv'
<1>0. v \in DOMAIN venue /\ v \in DOMAIN cVenue
  BY DEF V!handleVenueSignersAdded, V!handleVenueSignersRemoved, V!Has
<1>1. /\ DOMAIN venue[v] = VenueColumns /\ DOMAIN cVenue[v] = VenueColumns
      /\ venue[v].signers \in Seq(Signer) /\ IsInjective(venue[v].signers)
      /\ ToSet(venue[v].signers) \subseteq cVenue[v].signers
  BY <1>0 DEF VenueInv
<1>2. PICK list, known :
        /\ venue' = [venue EXCEPT ![v].signers = list]
        /\ cVenue' = [cVenue EXCEPT ![v].signers = known]
        /\ list \in Seq(Signer) /\ IsInjective(list) /\ ToSet(list) \subseteq known
  <2>1. CASE V!handleVenueSignersAdded(v, batch)
    <3> DEFINE list == FoldLeft(AddIfNotIncludes, venue[v].signers, batch)
               known == cVenue[v].signers \union ToSet(batch)
    <3>1. /\ venue' = [venue EXCEPT ![v].signers = list]
          /\ cVenue' = [cVenue EXCEPT ![v].signers = known]
      BY <2>1, VenueFolds DEF V!handleVenueSignersAdded
    <3>2. list \in Seq(Signer) /\ IsInjective(list) /\ ToSet(list) = ToSet(venue[v].signers) \union ToSet(batch)
      BY <1>1, VenueBatch, BatchAdded
    <3> HIDE DEF list
    <3> QED  BY <1>1, <3>1, <3>2
  <2>2. CASE V!handleVenueSignersRemoved(v, batch)
    <3> DEFINE list == FoldLeft(RemoveIfIncludes, venue[v].signers, batch)
               known == cVenue[v].signers \ ToSet(batch)
    <3>1. /\ venue' = [venue EXCEPT ![v].signers = list]
          /\ cVenue' = [cVenue EXCEPT ![v].signers = known]
      BY <2>2, VenueFolds DEF V!handleVenueSignersRemoved
    <3>2. list \in Seq(Signer) /\ IsInjective(list) /\ ToSet(list) \subseteq ToSet(venue[v].signers) \ ToSet(batch)
      BY <1>1, VenueBatch, BatchRemoved
    <3> HIDE DEF list
    <3> QED  BY <1>1, <3>1, <3>2
  <2> QED  BY <2>1, <2>2
<1>3. /\ venue'[v] = [venue[v] EXCEPT !.signers = list]
      /\ cVenue'[v] = [cVenue[v] EXCEPT !.signers = known]
      /\ DOMAIN venue' = DOMAIN venue /\ DOMAIN cVenue' = DOMAIN cVenue
      /\ \A u \in DOMAIN venue : u # v => venue'[u] = venue[u]
      /\ \A u \in DOMAIN cVenue : u # v => cVenue'[u] = cVenue[u]
  BY <1>0, <1>2
<1>4. /\ DOMAIN venue'[v] = VenueColumns /\ DOMAIN cVenue'[v] = VenueColumns
      /\ venue'[v].signers = list /\ cVenue'[v].signers = known
      /\ venue'[v].details = venue[v].details /\ cVenue'[v].details = cVenue[v].details
      /\ venue'[v].type = venue[v].type /\ cVenue'[v].type = cVenue[v].type
  BY <1>1, <1>3 DEF VenueColumns
<1> QED  BY <1>2, <1>3, <1>4 DEF VenueInv

\* Every event of a venue.
LEMMA VenueStep == VenueInv /\ V!Next => VenueInv'
BY VenueCreated, VenueUpdated, VenueSigners DEF V!Next

\* The invariant of the venues holds in every state of the registers.
LEMMA VenueAlways == Spec => []VenueInv
<1>1. Init => VenueInv
  BY VenueInit DEF Init
<1>2. VenueInv /\ [Next]_vars => VenueInv'
  <2> SUFFICES ASSUME VenueInv, [Next]_vars PROVE VenueInv'
    OBVIOUS
  <2>1. V!Next \/ UNCHANGED venueVars
    BY DEF Next, Only, vars, Rules
  <2>2. CASE V!Next
    BY <2>2, VenueStep
  <2>3. CASE UNCHANGED venueVars
    BY <2>3 DEF venueVars, VenueInv
  <2> QED  BY <2>1, <2>2, <2>3
<1> QED  BY <1>1, <1>2, PTL DEF Spec

\* In every state no venue lists a signer the chain does not know, or one
\* twice, although a signer that is removed takes those after it along.
THEOREM VenueSignersAlwaysSound == Spec => []VenueSignersSound
<1>1. VenueInv => VenueSignersSound
  BY VenueFolds DEF VenueInv, VenueSignersSound, V!SignersSound
<1> QED  BY <1>1, VenueAlways, PTL

-----------------------------------------------------------------------------
(* Confidential transactions.                                              *)

LegParts(legs, n) ==
  {<<n, "Sender", legs[n].sender>>, <<n, "Receiver", legs[n].receiver>>}
    \union {<<n, "Mediator", did>> : did \in legs[n].mediators}
PartsOf(legs, S) == UNION {LegParts(legs, n) : n \in S}
Counts(legs) == [n \in DOMAIN legs |-> Cardinality(legs[n].mediators) + 2]

\* The operators of the instance.
LEMMA TransactionOperators ==
  /\ \A S : T!Cardinality(S) = Cardinality(S)
  /\ \A fun : T!SumFunction(fun) = SumFunctionOnSet(fun, DOMAIN fun)
  /\ \A legs : T!Parts(legs) = PartsOf(legs, DOMAIN legs)
<1>1. \A S : T!Cardinality(S) = Cardinality(S)
  BY DEF T!Cardinality, Cardinality
<1>2. \A fun : T!SumFunction(fun) = SumFunctionOnSet(fun, DOMAIN fun)
  BY DEF T!SumFunction, T!SumFunctionOnSet, T!FoldFunctionOnSet, T!MapThenFoldSet,
         SumFunctionOnSet, FoldFunctionOnSet, MapThenFoldSet
<1>3. \A legs : T!Parts(legs) = PartsOf(legs, DOMAIN legs)
  BY DEF T!Parts, PartsOf, LegParts
<1> QED  BY <1>1, <1>2, <1>3

\* A leg requires two affirmations, and one of each mediator.
LEMMA LegCounted ==
  ASSUME NEW legs, NEW n, IsFiniteSet(legs[n].mediators)
  PROVE  /\ IsFiniteSet(LegParts(legs, n))
         /\ Cardinality(LegParts(legs, n)) = Cardinality(legs[n].mediators) + 2
<1> DEFINE ms == legs[n].mediators
           one == <<n, "Sender", legs[n].sender>>
           two == <<n, "Receiver", legs[n].receiver>>
           others == {<<n, "Mediator", did>> : did \in ms}
           f == [did \in ms |-> <<n, "Mediator", did>>]
<1>1. f \in Injection(ms, others) /\ f \in Surjection(ms, others)
  BY DEF Injection, Surjection, IsInjective
<1>2. IsFiniteSet(ms) /\ Cardinality(ms) \in Nat
  BY FS_CardinalityType
<1>3. IsFiniteSet(others) /\ Cardinality(others) = Cardinality(ms)
  <2> HIDE DEF f, ms, others
  <2> QED  BY <1>1, <1>2, FS_Surjection
<1>4. two \notin others /\ one \notin others \union {two}
  <2>1. two \notin others
    <3> SUFFICES ASSUME NEW did \in ms, two = <<n, "Mediator", did>> PROVE FALSE
      OBVIOUS
    <3>1. two[2] = "Receiver" /\ <<n, "Mediator", did>>[2] = "Mediator"
      OBVIOUS
    <3> QED  BY <3>1
  <2>2. one \notin others
    <3> SUFFICES ASSUME NEW did \in ms, one = <<n, "Mediator", did>> PROVE FALSE
      OBVIOUS
    <3>1. one[2] = "Sender" /\ <<n, "Mediator", did>>[2] = "Mediator"
      OBVIOUS
    <3> QED  BY <3>1
  <2>3. one # two
    <3>1. one[2] = "Sender" /\ two[2] = "Receiver"
      OBVIOUS
    <3> QED  BY <3>1
  <2> QED  BY <2>1, <2>2, <2>3
<1>5. LegParts(legs, n) = (others \union {two}) \union {one}
  BY DEF LegParts
<1> HIDE DEF one, two, others, ms
<1>6. IsFiniteSet(others \union {two}) /\ Cardinality(others \union {two}) = Cardinality(ms) + 1
  BY <1>3, <1>4, FS_AddElement
<1>7. /\ IsFiniteSet((others \union {two}) \union {one})
      /\ Cardinality((others \union {two}) \union {one}) = Cardinality(ms) + 1 + 1
  BY <1>4, <1>6, FS_AddElement
<1> QED  BY <1>2, <1>5, <1>7 DEF ms

\* The affirmations that some legs require are the sum of those of each.
LEMMA LegsCounted ==
  ASSUME NEW legs, IsFiniteSet(DOMAIN legs),
         \A n \in DOMAIN legs : IsFiniteSet(legs[n].mediators)
  PROVE  /\ IsFiniteSet(PartsOf(legs, DOMAIN legs))
         /\ Cardinality(PartsOf(legs, DOMAIN legs)) = SumFunctionOnSet(Counts(legs), DOMAIN legs)
<1> DEFINE all == DOMAIN legs
           sum == [s \in SUBSET all |-> SumFunctionOnSet(Counts(legs), s)]
           good == {m \in Nat : \A s \in SUBSET all : Cardinality(s) = m =>
                   /\ IsFiniteSet(PartsOf(legs, s))
                   /\ Cardinality(PartsOf(legs, s)) = sum[s]}
<1>0. /\ IsFiniteSet(all)
      /\ \A n \in all : /\ IsFiniteSet(LegParts(legs, n)) /\ Counts(legs)[n] \in Nat
                      /\ Cardinality(LegParts(legs, n)) = Counts(legs)[n]
  BY LegCounted, FS_CardinalityType DEF Counts
<1>a. \A s \in SUBSET all : IsFiniteSet(s) /\ Ints(Counts(legs), s)
  BY <1>0, FS_Subset DEF Ints
<1>b. sum[{}] = 0
  <2>1. {} \in SUBSET all /\ sum[{}] = SumFunctionOnSet(Counts(legs), {})
    OBVIOUS
  <2> HIDE DEF sum, all
  <2> QED  BY <1>a, <2>1, SumUnfold
<1>c. ASSUME NEW s \in SUBSET all, NEW x \in s
      PROVE  sum[s \ {x}] \in Int /\ sum[s] = Counts(legs)[x] + sum[s \ {x}]
  <2>1. s \ {x} \in SUBSET all
    OBVIOUS
  <2>2. /\ SumFunctionOnSet(Counts(legs), s \ {x}) \in Int
        /\ SumFunctionOnSet(Counts(legs), s) =
             Counts(legs)[x] + SumFunctionOnSet(Counts(legs), s \ {x})
    BY <1>a, SumTake
  <2> QED  BY <2>1, <2>2
<1>d. sum[all] = SumFunctionOnSet(Counts(legs), all)
  OBVIOUS
<1> HIDE DEF sum, all
<1>1. 0 \in good
  <2> SUFFICES ASSUME NEW s \in SUBSET all, Cardinality(s) = 0
               PROVE  IsFiniteSet(PartsOf(legs, s)) /\ Cardinality(PartsOf(legs, s)) = sum[s]
    OBVIOUS
  <2>1. s = {}
    BY <1>0, Smaller
  <2>2. PartsOf(legs, s) = {}
    BY <2>1 DEF PartsOf
  <2> QED  BY <1>b, <2>1, <2>2, FS_EmptySet
<1>2. ASSUME NEW m \in Nat, m \in good PROVE m + 1 \in good
  <2> SUFFICES ASSUME NEW s \in SUBSET all, Cardinality(s) = m + 1
               PROVE  IsFiniteSet(PartsOf(legs, s)) /\ Cardinality(PartsOf(legs, s)) = sum[s]
    OBVIOUS
  <2>0. s # {} /\ \A x \in s : /\ x \in all /\ s \ {x} \in SUBSET all
                                /\ Cardinality(s \ {x}) = Cardinality(s) - 1
    <3>1. IsFiniteSet(all)
      BY <1>0
    <3>2. Cardinality(s) # 0
      OBVIOUS
    <3>3. s # {}
      BY <3>1, <3>2, Smaller
    <3>4. \A x \in s : s \ {x} \in SUBSET all /\ Cardinality(s \ {x}) = Cardinality(s) - 1
      BY <3>1, Smaller
    <3> QED  BY <3>3, <3>4
  <2>1. PICK x \in s : x \in all /\ s \ {x} \in SUBSET all /\ Cardinality(s \ {x}) = m
    BY <2>0
  <2> DEFINE rest == PartsOf(legs, s \ {x})
             first == LegParts(legs, x)
  <2>2. IsFiniteSet(rest) /\ Cardinality(rest) = sum[s \ {x}]
    BY <1>2, <2>1
  <2>3. IsFiniteSet(first) /\ Cardinality(first) = Counts(legs)[x] /\ Counts(legs)[x] \in Nat
    BY <1>0, <2>1
  <2>4. PartsOf(legs, s) = rest \union first
    BY DEF PartsOf
  <2>5. rest \cap first = {}
    <3>1. \A n : \A p \in LegParts(legs, n) : p[1] = n
      BY DEF LegParts
    <3>2. \A p \in rest : p[1] # x
      BY <3>1 DEF PartsOf
    <3>3. \A p \in first : p[1] = x
      BY <3>1
    <3> HIDE DEF rest, first
    <3> QED  BY <3>2, <3>3
  <2> HIDE DEF rest, first
  <2>6. /\ IsFiniteSet(rest \union first)
        /\ Cardinality(rest \union first) =
             Cardinality(rest) + Cardinality(first) - Cardinality(rest \cap first)
    BY <2>2, <2>3, FS_Union
  <2>7. sum[s \ {x}] \in Int /\ sum[s] = Counts(legs)[x] + sum[s \ {x}]
    BY <1>c, <2>1
  <2>8. Cardinality(rest \cap first) = 0
    BY <2>5, FS_EmptySet
  <2>9. \A b, c \in Int : b + c - 0 = c + b
    OBVIOUS
  <2>10. Cardinality(rest \union first) = sum[s]
    BY <2>2, <2>3, <2>6, <2>7, <2>8, <2>9
  <2>11. IsFiniteSet(PartsOf(legs, s)) /\ Cardinality(PartsOf(legs, s)) = sum[s]
    BY <2>4, <2>6, <2>10
  <2> QED  BY <2>11
<1> HIDE DEF good
<1>3. Nat \subseteq good
  BY <1>1, <1>2, SetInduction
<1>4. Cardinality(all) \in good
  BY <1>0, <1>3, FS_CardinalityType
<1> QED  BY <1>4, <1>d DEF good, all

\* So it is for the legs a transaction may have.
LEMMA TransactionCounted ==
  ASSUME NEW legs \in ConfLegLists
  PROVE  IsFiniteSet(T!Parts(legs)) /\ Cardinality(T!Parts(legs)) = T!PendingOf(legs)
<1>1. PICK a \in Did, b \in Did :
        \/ legs = <<ConfLeg(a, b, {b})>>
        \/ legs = <<ConfLeg(a, b, {}), ConfLeg(a, b, {})>>
        \/ legs = <<ConfLeg(a, b, {a}), ConfLeg(b, a, {b})>>
  <2>1. PICK a \in Did :
          legs \in UNION {{<<ConfLeg(a, b, {b})>>,
                          <<ConfLeg(a, b, {}), ConfLeg(a, b, {})>>,
                          <<ConfLeg(a, b, {a}), ConfLeg(b, a, {b})>>} : b \in Did \ {a}}
    BY DEF ConfLegLists
  <2>2. PICK b \in Did \ {a} :
          legs \in {<<ConfLeg(a, b, {b})>>,
                   <<ConfLeg(a, b, {}), ConfLeg(a, b, {})>>,
                   <<ConfLeg(a, b, {a}), ConfLeg(b, a, {b})>>}
    BY <2>1
  <2>3. \/ legs = <<ConfLeg(a, b, {b})>>
        \/ legs = <<ConfLeg(a, b, {}), ConfLeg(a, b, {})>>
        \/ legs = <<ConfLeg(a, b, {a}), ConfLeg(b, a, {b})>>
    BY <2>2
  <2>4. b \in Did
    BY <2>2
  <2> QED  BY <2>3, <2>4, Zenon
<1>2. \A ms : ConfLeg(a, b, ms).mediators = ms /\ ConfLeg(b, a, ms).mediators = ms
  BY DEF ConfLeg
<1>3. DOMAIN legs = 1..1 \/ DOMAIN legs = 1..2
  BY <1>1
<1>4. \A n \in DOMAIN legs : legs[n].mediators \in {{}, {a}, {b}}
  <2>1. \A x, y : /\ \A n \in DOMAIN <<x>> : <<x>>[n] = x
                  /\ \A n \in DOMAIN <<x, y>> : <<x, y>>[n] \in {x, y}
    OBVIOUS
  <2>2. \A n \in DOMAIN legs : legs[n] \in
          {ConfLeg(a, b, {b}), ConfLeg(a, b, {}), ConfLeg(a, b, {a}), ConfLeg(b, a, {b})}
    BY <1>1, <2>1
  <2> QED  BY <1>2, <2>2
<1>5. IsFiniteSet(DOMAIN legs) /\ \A n \in DOMAIN legs : IsFiniteSet(legs[n].mediators)
  <2>0. /\ IsFiniteSet(1..1) /\ IsFiniteSet(1..2)
        /\ IsFiniteSet({}) /\ IsFiniteSet({a}) /\ IsFiniteSet({b})
    <3>1. \A i, j \in Int : IsFiniteSet(i..j)
      BY FS_Interval
    <3>2. IsFiniteSet({}) /\ IsFiniteSet({a}) /\ IsFiniteSet({b})
      BY FS_EmptySet, FS_Singleton, Zenon
    <3>3. 1 \in Int /\ 2 \in Int
      OBVIOUS
    <3>4. IsFiniteSet(1..1) /\ IsFiniteSet(1..2)
      BY <3>1, <3>3, Zenon
    <3> QED  BY <3>2, <3>4, Zenon
  <2>1. IsFiniteSet(DOMAIN legs)
    BY <1>3, <2>0
  <2>2. \A ms \in {{}, {a}, {b}} : IsFiniteSet(ms)
    BY <2>0
  <2> QED  BY <1>4, <2>1, <2>2
<1>6. T!PendingOf(legs) = SumFunctionOnSet(Counts(legs), DOMAIN legs)
  <2>1. T!PendingOf(legs) = T!SumFunction(Counts(legs)) /\ DOMAIN Counts(legs) = DOMAIN legs
    BY TransactionOperators DEF T!PendingOf, Counts
  <2> QED  BY <2>1, TransactionOperators
<1> QED  BY <1>5, <1>6, LegsCounted, TransactionOperators

\* A row and what the pallet has for it: the count is what is missing.
TransactionSound(row, chain) ==
  /\ DOMAIN row = {"status", "pendingAffirmations"}
  /\ DOMAIN chain = {"status", "legs", "affirmed"}
  /\ row.status = chain.status
  /\ chain.legs \in ConfLegLists /\ chain.affirmed \subseteq T!Parts(chain.legs)
  /\ row.pendingAffirmations = Cardinality(T!Parts(chain.legs) \ chain.affirmed)
  /\ chain.status = "Executed" => chain.affirmed = T!Parts(chain.legs)

\* Every transaction has its row, and every affirmation that was given one of its
\* role, which tells of it or of a later one in the same role.
AffirmationRows(t) == {id \in DOMAIN affirmation : id[1] = t}
RowsTell(table, t, affirmed) ==
  \A id \in {x \in DOMAIN table : x[1] = t} :
    table[id] \in affirmed /\ id = <<t, table[id][2], table[id][3]>>
TransactionsInv ==
  /\ DOMAIN tx = DOMAIN cTx
  /\ \A id \in DOMAIN affirmation : id[1] \in DOMAIN cTx
  /\ \A t \in DOMAIN cTx :
       /\ TransactionSound(tx[t], cTx[t])
       /\ AffirmationRows(t) = {<<t, p[2], p[3]>> : p \in cTx[t].affirmed}
       /\ RowsTell(affirmation, t, cTx[t].affirmed)

\* A new transaction waits for all of them.
LEMMA TransactionCreated ==
  ASSUME TransactionsInv, NEW t \in Tx, NEW legs \in ConfLegLists,
         T!handleConfidentialTransactionCreated(t, legs)
  PROVE  TransactionsInv'
<1> DEFINE chain == [status |-> "Created", legs |-> legs, affirmed |-> {}]
           row == [status |-> "Created", pendingAffirmations |-> T!PendingOf(legs)]
<1>1. /\ cTx' = T!Save(cTx, t, chain) /\ tx' = T!Save(tx, t, row)
      /\ t \notin DOMAIN cTx /\ affirmation' = affirmation
  BY DEF T!handleConfidentialTransactionCreated, T!Has
<1>2. /\ DOMAIN chain = {"status", "legs", "affirmed"}
      /\ DOMAIN row = {"status", "pendingAffirmations"}
      /\ row.status = chain.status /\ chain.legs = legs /\ chain.affirmed = {}
      /\ chain.status = "Created"
      /\ row.pendingAffirmations = T!PendingOf(legs)
  OBVIOUS
<1>3. T!PendingOf(legs) = Cardinality(T!Parts(legs) \ {})
  <2>1. T!Parts(legs) \ {} = T!Parts(legs)
    OBVIOUS
  <2> QED  BY <2>1, TransactionCounted
<1> HIDE DEF chain, row
<1>4. /\ DOMAIN tx' = DOMAIN tx \union {t} /\ DOMAIN cTx' = DOMAIN cTx \union {t}
      /\ tx'[t] = row /\ cTx'[t] = chain
      /\ \A u \in DOMAIN cTx : u # t /\ (u \in DOMAIN tx => tx'[u] = tx[u]) /\ cTx'[u] = cTx[u]
  BY <1>1 DEF T!Save
<1>5. AffirmationRows(t)' = {}
  BY <1>1 DEF TransactionsInv, AffirmationRows
<1>6. \A u : AffirmationRows(u)' = AffirmationRows(u)
  BY <1>1 DEF AffirmationRows
<1>7. TransactionSound(row, chain)
  BY <1>2, <1>3 DEF TransactionSound
<1>8. AffirmationRows(t)' = {<<t, p[2], p[3]>> : p \in chain.affirmed}
  BY <1>2, <1>5
<1>9. /\ RowsTell(affirmation', t, chain.affirmed)
      /\ \A u, a : RowsTell(affirmation', u, a) = RowsTell(affirmation, u, a)
  BY <1>1, <1>5, <1>6 DEF RowsTell, AffirmationRows
<1> QED  BY <1>1, <1>4, <1>6, <1>7, <1>8, <1>9 DEF TransactionsInv

\* One affirmation is given: it has its row and is no longer missing.
LEMMA TransactionAffirmed ==
  ASSUME TransactionsInv, NEW t \in Tx, NEW part,
         T!handleConfidentialTransactionAffirmed(t, part)
  PROVE  TransactionsInv'
<1>0. /\ t \in DOMAIN cTx /\ t \in DOMAIN tx /\ part \in T!Parts(cTx[t].legs) \ cTx[t].affirmed
      /\ cTx[t].status = "Created"
  BY DEF T!handleConfidentialTransactionAffirmed, T!Has, TransactionsInv
<1> DEFINE known == cTx[t].affirmed \union {part}
           count == Cardinality(T!Parts(cTx'[t].legs) \ cTx'[t].affirmed)
           id == <<t, part[2], part[3]>>
<1>1. /\ cTx' = [cTx EXCEPT ![t] = [cTx[t] EXCEPT !.affirmed = known]]
      /\ tx' = [tx EXCEPT ![t] = [tx[t] EXCEPT !.pendingAffirmations = count]]
      /\ affirmation' = T!Save(affirmation, id, part)
  BY <1>0, TransactionOperators
     DEF T!handleConfidentialTransactionAffirmed, T!Has, T!Remaining, T!AffirmationId
<1>2. /\ DOMAIN tx[t] = {"status", "pendingAffirmations"}
      /\ DOMAIN cTx[t] = {"status", "legs", "affirmed"}
      /\ tx[t].status = cTx[t].status
      /\ cTx[t].legs \in ConfLegLists /\ cTx[t].affirmed \subseteq T!Parts(cTx[t].legs)
      /\ AffirmationRows(t) = {<<t, p[2], p[3]>> : p \in cTx[t].affirmed}
      /\ RowsTell(affirmation, t, cTx[t].affirmed)
  BY <1>0 DEF TransactionsInv, TransactionSound
<1> HIDE DEF count, known
<1>3. /\ cTx'[t] = [cTx[t] EXCEPT !.affirmed = known]
      /\ tx'[t] = [tx[t] EXCEPT !.pendingAffirmations = count]
      /\ DOMAIN tx' = DOMAIN tx /\ DOMAIN cTx' = DOMAIN cTx
      /\ \A u \in DOMAIN cTx : u # t => (u \in DOMAIN tx => tx'[u] = tx[u]) /\ cTx'[u] = cTx[u]
  BY <1>0, <1>1
<1>4. /\ DOMAIN tx'[t] = {"status", "pendingAffirmations"}
      /\ DOMAIN cTx'[t] = {"status", "legs", "affirmed"}
      /\ tx'[t].status = tx[t].status /\ cTx'[t].status = cTx[t].status
      /\ tx'[t].pendingAffirmations = count
      /\ cTx'[t].legs = cTx[t].legs /\ cTx'[t].affirmed = known
  BY <1>2, <1>3
<1>5. known \subseteq T!Parts(cTx[t].legs)
  BY <1>0, <1>2 DEF known
<1>6. DOMAIN affirmation' = DOMAIN affirmation \union {id} /\ id[1] = t
  BY <1>1 DEF T!Save
<1>7. AffirmationRows(t)' = {<<t, p[2], p[3]>> : p \in known}
  <2>1. AffirmationRows(t)' = AffirmationRows(t) \union {id}
    BY <1>6 DEF AffirmationRows
  <2> QED  BY <1>2, <2>1 DEF known
<1>8. \A u \in DOMAIN cTx : u # t => AffirmationRows(u)' = AffirmationRows(u)
  BY <1>6 DEF AffirmationRows
<1>9. \A j \in DOMAIN affirmation' : j[1] \in DOMAIN cTx'
  BY <1>0, <1>3, <1>6 DEF TransactionsInv
<1>10. tx'[t].pendingAffirmations = Cardinality(T!Parts(cTx'[t].legs) \ cTx'[t].affirmed)
  BY <1>4 DEF count
<1>11. TransactionSound(tx'[t], cTx'[t])
  BY <1>0, <1>2, <1>4, <1>5, <1>10 DEF TransactionSound
<1>12. AffirmationRows(t)' = {<<t, p[2], p[3]>> : p \in cTx'[t].affirmed}
  BY <1>4, <1>7
<1>15. RowsTell(affirmation', t, cTx'[t].affirmed)
  <2>1. \A j \in DOMAIN affirmation : j # id => affirmation'[j] = affirmation[j]
    BY <1>1 DEF T!Save
  <2>2. affirmation'[id] = part
    BY <1>1 DEF T!Save
  <2>3. \A j \in AffirmationRows(t)' : j = id \/ (j \in AffirmationRows(t) /\ j # id)
    BY <1>6 DEF AffirmationRows
  <2>4. AffirmationRows(t) \subseteq DOMAIN affirmation
    BY DEF AffirmationRows
  <2>5. \A j \in AffirmationRows(t) :
          affirmation[j] \in cTx[t].affirmed /\ j = <<t, affirmation[j][2], affirmation[j][3]>>
    BY <1>2 DEF RowsTell, AffirmationRows
  <2>6. \A j \in AffirmationRows(t)' :
          affirmation'[j] \in known /\ j = <<t, affirmation'[j][2], affirmation'[j][3]>>
    BY <2>1, <2>2, <2>3, <2>4, <2>5 DEF known
  <2> QED  BY <1>4, <2>6 DEF RowsTell, AffirmationRows
<1> HIDE DEF id
<1>16. \A u \in DOMAIN cTx : u # t =>
         \A a : RowsTell(affirmation, u, a) => RowsTell(affirmation', u, a)
  <2> SUFFICES ASSUME NEW u \in DOMAIN cTx, u # t, NEW a, RowsTell(affirmation, u, a),
                      NEW j \in AffirmationRows(u)'
               PROVE  affirmation'[j] \in a /\ j = <<u, affirmation'[j][2], affirmation'[j][3]>>
    BY DEF RowsTell, AffirmationRows
  <2>1. j \in AffirmationRows(u) /\ j \in DOMAIN affirmation /\ j[1] = u
    BY <1>8 DEF AffirmationRows
  <2>2. j # id
    BY <1>6, <2>1
  <2>3. affirmation'[j] = affirmation[j]
    BY <1>1, <2>1, <2>2 DEF T!Save
  <2> QED  BY <2>1, <2>3 DEF RowsTell, AffirmationRows
<1>13. ASSUME NEW u \in DOMAIN cTx
       PROVE  /\ TransactionSound(tx'[u], cTx'[u])
              /\ AffirmationRows(u)' = {<<u, p[2], p[3]>> : p \in cTx'[u].affirmed}
              /\ RowsTell(affirmation', u, cTx'[u].affirmed)
  <2>1. CASE u = t
    BY <1>11, <1>12, <1>15, <2>1
  <2>2. CASE u # t
    <3>1. tx'[u] = tx[u] /\ cTx'[u] = cTx[u]
      BY <1>3, <2>2 DEF TransactionsInv
    <3> QED  BY <1>8, <1>16, <2>2, <3>1 DEF TransactionsInv
  <2> QED  BY <2>1, <2>2
<1>14. DOMAIN tx' = DOMAIN cTx' /\ DOMAIN cTx' = DOMAIN cTx
  BY <1>3 DEF TransactionsInv
<1> QED  BY <1>9, <1>13, <1>14, Zenon DEF TransactionsInv

\* The transaction is executed or rejected, on both sides.
LEMMA TransactionClosed ==
  ASSUME TransactionsInv, NEW t \in Tx, NEW status,
         T!handleConfidentialTransactionExecutedOrRejected(t, status)
  PROVE  TransactionsInv'
<1>0. /\ t \in DOMAIN cTx /\ t \in DOMAIN tx
      /\ status = "Executed" => T!Remaining(t) = 0
  BY DEF T!handleConfidentialTransactionExecutedOrRejected, T!Has, TransactionsInv
<1>1. /\ cTx' = [cTx EXCEPT ![t] = [cTx[t] EXCEPT !.status = status]]
      /\ tx' = [tx EXCEPT ![t] = [tx[t] EXCEPT !.status = status]]
      /\ affirmation' = affirmation
  BY <1>0 DEF T!handleConfidentialTransactionExecutedOrRejected, T!Has
<1>2. /\ DOMAIN tx[t] = {"status", "pendingAffirmations"}
      /\ DOMAIN cTx[t] = {"status", "legs", "affirmed"}
      /\ TransactionSound(tx[t], cTx[t])
  BY <1>0 DEF TransactionsInv, TransactionSound
<1>3. /\ cTx'[t] = [cTx[t] EXCEPT !.status = status]
      /\ tx'[t] = [tx[t] EXCEPT !.status = status]
      /\ DOMAIN tx' = DOMAIN tx /\ DOMAIN cTx' = DOMAIN cTx
      /\ \A u \in DOMAIN cTx : u # t => (u \in DOMAIN tx => tx'[u] = tx[u]) /\ cTx'[u] = cTx[u]
  BY <1>0, <1>1
<1>4. /\ DOMAIN tx'[t] = {"status", "pendingAffirmations"}
      /\ DOMAIN cTx'[t] = {"status", "legs", "affirmed"}
      /\ tx'[t].status = status /\ cTx'[t].status = status
      /\ tx'[t].pendingAffirmations = tx[t].pendingAffirmations
      /\ cTx'[t].legs = cTx[t].legs /\ cTx'[t].affirmed = cTx[t].affirmed
  BY <1>2, <1>3
<1>5. \A u : AffirmationRows(u)' = AffirmationRows(u)
  BY <1>1 DEF AffirmationRows
<1>11. status = "Executed" => cTx[t].affirmed = T!Parts(cTx[t].legs)
  <2> SUFFICES ASSUME status = "Executed" PROVE cTx[t].affirmed = T!Parts(cTx[t].legs)
    OBVIOUS
  <2>1. /\ cTx[t].legs \in ConfLegLists /\ cTx[t].affirmed \subseteq T!Parts(cTx[t].legs)
    BY <1>2 DEF TransactionSound
  <2>2. Cardinality(T!Parts(cTx[t].legs) \ cTx[t].affirmed) = 0
    BY <1>0, TransactionOperators DEF T!Remaining
  <2>3. IsFiniteSet(T!Parts(cTx[t].legs) \ cTx[t].affirmed)
    BY <2>1, TransactionCounted, FS_Difference
  <2>4. T!Parts(cTx[t].legs) \ cTx[t].affirmed = {}
    BY <2>2, <2>3, FS_EmptySet
  <2> QED  BY <2>1, <2>4
<1>6. TransactionSound(tx'[t], cTx'[t])
  BY <1>2, <1>4, <1>11 DEF TransactionSound
<1>7. AffirmationRows(t)' = {<<t, p[2], p[3]>> : p \in cTx'[t].affirmed}
  <2>1. AffirmationRows(t) = {<<t, p[2], p[3]>> : p \in cTx[t].affirmed}
    BY <1>0 DEF TransactionsInv
  <2> QED  BY <1>4, <1>5, <2>1
<1>12. /\ \A u, a : RowsTell(affirmation, u, a) => RowsTell(affirmation', u, a)
       /\ RowsTell(affirmation, t, cTx[t].affirmed)
  BY <1>0, <1>1, <1>5 DEF RowsTell, AffirmationRows, TransactionsInv
<1>8. \A id \in DOMAIN affirmation' : id[1] \in DOMAIN cTx'
  BY <1>1, <1>3 DEF TransactionsInv
<1>9. ASSUME NEW u \in DOMAIN cTx
      PROVE  /\ TransactionSound(tx'[u], cTx'[u])
             /\ AffirmationRows(u)' = {<<u, p[2], p[3]>> : p \in cTx'[u].affirmed}
             /\ RowsTell(affirmation', u, cTx'[u].affirmed)
  <2>1. CASE u = t
    BY <1>4, <1>6, <1>7, <1>12, <2>1
  <2>2. CASE u # t
    <3>1. tx'[u] = tx[u] /\ cTx'[u] = cTx[u]
      BY <1>3, <2>2 DEF TransactionsInv
    <3> QED  BY <1>5, <1>12, <3>1 DEF TransactionsInv
  <2> QED  BY <2>1, <2>2
<1>10. DOMAIN tx' = DOMAIN cTx' /\ DOMAIN cTx' = DOMAIN cTx
  BY <1>3 DEF TransactionsInv
<1> QED  BY <1>8, <1>9, <1>10, Zenon DEF TransactionsInv

\* The invariant of the transactions holds in every state of the registers.
LEMMA TransactionsAlways == Spec => []TransactionsInv
<1>1. Init => TransactionsInv
  BY DEF Init, T!Init, T!NoTable, TransactionsInv
<1>2. TransactionsInv /\ [Next]_vars => TransactionsInv'
  <2> SUFFICES ASSUME TransactionsInv, [Next]_vars PROVE TransactionsInv'
    OBVIOUS
  <2>1. T!Next \/ UNCHANGED transactionVars
    BY DEF Next, Only, vars, Rules
  <2>2. CASE T!Next
    BY <2>2, TransactionCreated, TransactionAffirmed, TransactionClosed DEF T!Next
  <2>3. CASE UNCHANGED transactionVars
    BY <2>3 DEF transactionVars, TransactionsInv, AffirmationRows, RowsTell
  <2> QED  BY <2>1, <2>2, <2>3
<1> QED  BY <1>1, <1>2, PTL DEF Spec

\* In every state: the status and the pending count of a transaction are the
\* chain's, rows tell affirmations that were given, one for every role somebody
\* affirmed in, and where nobody has a role twice, all that were given.
THEOREM PendingAlwaysExplained == Spec => []PendingExplained
<1> SUFFICES ASSUME TransactionsInv PROVE PendingExplained
  BY TransactionsAlways, PTL
<1> SUFFICES ASSUME NEW t \in DOMAIN cTx
    PROVE  /\ t \in DOMAIN tx /\ tx[t].status = cTx[t].status
           /\ tx[t].pendingAffirmations = T!Remaining(t)
           /\ T!Told(t) \subseteq cTx[t].affirmed
           /\ \A p \in cTx[t].affirmed : \E q \in T!Told(t) : q[2] = p[2] /\ q[3] = p[3]
           /\ T!RoleOnce(cTx[t].legs) =>
                /\ T!Told(t) = cTx[t].affirmed
                /\ tx[t].status = "Executed" => T!Told(t) = T!Parts(cTx[t].legs)
  BY DEF PendingExplained, T!PendingExplained, T!Has
<1>1. /\ t \in DOMAIN tx /\ TransactionSound(tx[t], cTx[t])
      /\ AffirmationRows(t) = {<<t, p[2], p[3]>> : p \in cTx[t].affirmed}
      /\ RowsTell(affirmation, t, cTx[t].affirmed)
  BY DEF TransactionsInv
<1>2. T!Told(t) = {affirmation[id] : id \in AffirmationRows(t)}
  BY DEF T!Told, AffirmationRows
<1>3. T!Told(t) \subseteq cTx[t].affirmed
  BY <1>1, <1>2 DEF RowsTell, AffirmationRows
<1>4. ASSUME NEW p \in cTx[t].affirmed
      PROVE  \E q \in T!Told(t) : q[2] = p[2] /\ q[3] = p[3]
  <2> DEFINE id == <<t, p[2], p[3]>>
  <2>1. id \in AffirmationRows(t) /\ id[2] = p[2] /\ id[3] = p[3]
    BY <1>1
  <2> HIDE DEF id
  <2>2. id = <<t, affirmation[id][2], affirmation[id][3]>>
    BY <1>1, <2>1 DEF RowsTell, AffirmationRows
  <2>3. affirmation[id] \in T!Told(t)
    BY <1>2, <2>1
  <2> QED  BY <2>1, <2>2, <2>3
<1>5. ASSUME T!RoleOnce(cTx[t].legs) PROVE cTx[t].affirmed \subseteq T!Told(t)
  <2>1. cTx[t].affirmed \subseteq T!Parts(cTx[t].legs)
    BY <1>1 DEF TransactionSound
  <2> QED  BY <1>3, <1>4, <1>5, <2>1 DEF T!RoleOnce
<1> QED  BY <1>1, <1>3, <1>4, <1>5, TransactionOperators DEF TransactionSound, T!Remaining
-----------------------------------------------------------------------------
(* The movements of POLYX.                                                 *)

Paid == {"Transfer", "Disbursement", "FirstDisbursement"}
FeeKinds == {"TransactionFee", "OldTransactionFee"}
MoveKinds == Paid \union FeeKinds \union {"ProtocolFee", "Alone", "BothSet"}
Party == Payer \union {Treasury, NoOne}
AnyMove == [kind : MoveKinds, from : Party, to : Party, amount : Amount \union TxFee]

PolyxColumns == {"event", "from", "to", "amount"}

\* The event indexes have no gap.
Rowed(table, n) ==
  /\ n \in Nat /\ DOMAIN table = 0..(n - 1)
  /\ \A id \in DOMAIN table : DOMAIN table[id] = PolyxColumns

\* A row that a later event may be merged into has the amount of a movement
\* that brings such rows.
Sourced(table, moves) ==
  \A id \in DOMAIN table :
    /\ table[id].event \in {"Endowed", "Transfer"} =>
         \E i \in DOMAIN moves : moves[i].kind \in Paid /\ moves[i].amount = table[id].amount
    /\ table[id].event = "FeeCharged" =>
         \E i \in DOMAIN moves : moves[i].kind = "ProtocolFee"
                                 /\ moves[i].amount = table[id].amount

\* The row that tells a movement, which no fee of the transaction replaces.
ToldOf(m) ==
  \E id \in DOMAIN polyxRows :
    L!Tells(polyxRows[id], m) /\ (cDone \/ polyxRows[id].event # "TreasuryReimbursement")

PolyxTypes ==
  /\ cMoves \in Seq(AnyMove)
  /\ ~cDone => \A i \in DOMAIN cMoves : cMoves[i].kind \notin FeeKinds
PolyxRowsSound ==
  \E n \in Nat :
    /\ Rowed(polyxRows, n)
    /\ Sourced(polyxRows, cMoves)
    /\ \A i \in DOMAIN cMoves : cMoves[i].kind # "BothSet" => ToldOf(cMoves[i])
    /\ L!Simple => n = Len(cMoves)
PolyxInv == PolyxTypes /\ (L!Distinct => PolyxRowsSound)

\* A row is added behind the others.
LEMMA RowInserted ==
  ASSUME NEW table, NEW n, Rowed(table, n), NEW row, DOMAIN row = PolyxColumns
  PROVE  /\ Rowed(L!Insert(table, row), n + 1)
         /\ L!Insert(table, row)[n] = row
         /\ \A id \in 0..(n - 1) : L!Insert(table, row)[id] = table[id]
<1>1. n \in Nat /\ DOMAIN table = 0..(n - 1)
  BY DEF Rowed
<1>2. L!Cardinality(DOMAIN table) = n
  <2>1. Cardinality(0..(n - 1)) = n
    BY <1>1, FS_Interval
  <2>2. L!Cardinality(DOMAIN table) = Cardinality(DOMAIN table)
    BY DEF L!Cardinality, Cardinality
  <2> QED  BY <1>1, <2>1, <2>2
<1>3. L!Insert(table, row)
        = [k \in DOMAIN table \union {n} |-> IF k = n THEN row ELSE table[k]]
  BY <1>2 DEF L!Insert, L!Save
<1>4. DOMAIN table \union {n} = 0..n /\ n \in 0..n /\ n \notin 0..(n - 1) /\ n = (n + 1) - 1
  BY <1>1
<1>5. \A id \in 0..(n - 1) : DOMAIN table[id] = PolyxColumns
  BY <1>1 DEF Rowed
<1> QED  BY <1>1, <1>3, <1>4, <1>5 DEF Rowed

\* Rows have these columns.
LEMMA RowColumns ==
  ASSUME NEW event, NEW from, NEW to, NEW amount
  PROVE  /\ DOMAIN L!Row(event, from, to, amount) = PolyxColumns
         /\ L!Row(event, from, to, amount).event = event
         /\ L!Row(event, from, to, amount).from = from
         /\ L!Row(event, from, to, amount).to = to
         /\ L!Row(event, from, to, amount).amount = amount
BY DEF L!Row, PolyxColumns

\* What a movement may show of its amount.
LEMMA AmountsOf ==
  \A m : /\ m.amount \in L!Amounts(m)
         /\ m.kind \notin FeeKinds => L!Amounts(m) = {m.amount}
         /\ m.kind \in FeeKinds =>
              L!Amounts(m) = {m.amount, L!Grossed(L!Reimbursed(m.amount))}
BY DEF L!Amounts, FeeKinds

\* A row tells a movement by its own payer and amount, unless it is a fee that
\* no event of its own tells of.
LEMMA ToldBy ==
  \A row, m :
    /\ m.kind # "OldTransactionFee" =>
         (L!Tells(row, m) <=> row.from = m.from /\ row.to = m.to /\ row.amount = m.amount)
    /\ m.kind = "OldTransactionFee" =>
         (L!Tells(row, m) <=> /\ row.from = primary[m.from] /\ row.to = m.to
                              /\ row.amount = L!Grossed(L!Reimbursed(m.amount)))
BY DEF L!Tells, L!Shown

\* A query finds rows of the event only, and all of them in a page.
LEMMA LookupFacts ==
  ASSUME NEW table, NEW n, Rowed(table, n), NEW event, NEW found \in L!Lookups(table, event)
  PROVE  /\ found \subseteq L!Of(table, event)
         /\ n <= PageSize => found = L!Of(table, event)
<1>1. L!Cardinality(DOMAIN table) = n /\ n \in Nat
  <2>1. n \in Nat /\ DOMAIN table = 0..(n - 1)
    BY DEF Rowed
  <2>2. Cardinality(0..(n - 1)) = n
    BY <2>1, FS_Interval
  <2>3. L!Cardinality(DOMAIN table) = Cardinality(DOMAIN table)
    BY DEF L!Cardinality, Cardinality
  <2> QED  BY <2>1, <2>2, <2>3
<1>2. PICK page \in L!getPaginatedData(DOMAIN table) :
        found = L!Of(table, event) \intersect page
  BY DEF L!Lookups
<1>3. n <= PageSize => page = DOMAIN table
  BY <1>1, <1>2, RegistersAssumption
     DEF L!getPaginatedData, L!FoundAmong, L!CrowdedAmong
<1>4. L!Of(table, event) \subseteq DOMAIN table
  BY DEF L!Of
<1> QED  BY <1>2, <1>3, <1>4

\* When a movement is added, the amounts of the others are left as they were.
LEMMA DistinctBefore ==
  ASSUME cMoves \in Seq(AnyMove), NEW m \in AnyMove,
         cMoves' = Append(cMoves, m), UNCHANGED splitFees, L!Distinct'
  PROVE  /\ L!Distinct
         /\ \A i \in DOMAIN cMoves : L!Amounts(cMoves[i]) \cap L!Amounts(m) = {}
<1>1. \A x : L!Amounts(x)' = L!Amounts(x)
  BY DEF L!Amounts, L!Grossed, L!Reimbursed
<1>2. /\ DOMAIN cMoves = 1..Len(cMoves) /\ DOMAIN cMoves' = 1..(Len(cMoves) + 1)
      /\ Len(cMoves) \in Nat /\ cMoves'[Len(cMoves) + 1] = m
      /\ \A i \in 1..Len(cMoves) : cMoves'[i] = cMoves[i]
  OBVIOUS
<1>3. \A i, j \in DOMAIN cMoves' :
        i # j => L!Amounts(cMoves'[i]) \cap L!Amounts(cMoves'[j]) = {}
  BY <1>1 DEF L!Distinct, L!Index
<1>4. \A i, j \in DOMAIN cMoves :
        i # j => L!Amounts(cMoves[i]) \cap L!Amounts(cMoves[j]) = {}
  <2> SUFFICES ASSUME NEW i \in DOMAIN cMoves, NEW j \in DOMAIN cMoves, i # j
               PROVE  L!Amounts(cMoves[i]) \cap L!Amounts(cMoves[j]) = {}
    OBVIOUS
  <2>1. /\ i \in DOMAIN cMoves' /\ j \in DOMAIN cMoves'
        /\ cMoves'[i] = cMoves[i] /\ cMoves'[j] = cMoves[j]
    BY <1>2
  <2> QED  BY <1>3, <2>1
<1>5. ASSUME NEW i \in DOMAIN cMoves
      PROVE  L!Amounts(cMoves[i]) \cap L!Amounts(m) = {}
  <2> DEFINE last == Len(cMoves) + 1
  <2>1. /\ i \in DOMAIN cMoves' /\ last \in DOMAIN cMoves' /\ i # last
        /\ cMoves'[i] = cMoves[i] /\ cMoves'[last] = m
    BY <1>2
  <2> HIDE DEF last
  <2> QED  BY <1>3, <2>1
<1> QED  BY <1>4, <1>5 DEF L!Distinct, L!Index

\* A simple extrinsic was simple before its last movement, and had none that the
\* last one could be mixed up with.
LEMMA SimpleBefore ==
  ASSUME cMoves \in Seq(AnyMove), NEW m \in AnyMove,
         cMoves' = Append(cMoves, m), UNCHANGED splitFees, L!Simple'
  PROVE  /\ L!Simple /\ Len(cMoves) + 1 <= PageSize
         /\ m.kind # "FirstDisbursement" /\ L!Whole(m)
         /\ m.kind \in Paid => \A i \in DOMAIN cMoves : cMoves[i].kind \notin Paid
         /\ m.kind = "ProtocolFee" => \A i \in DOMAIN cMoves : cMoves[i].kind # "ProtocolFee"
<1>1. /\ DOMAIN cMoves = 1..Len(cMoves) /\ DOMAIN cMoves' = 1..(Len(cMoves) + 1)
      /\ Len(cMoves) \in Nat /\ cMoves'[Len(cMoves) + 1] = m
      /\ \A i \in 1..Len(cMoves) : cMoves'[i] = cMoves[i]
  OBVIOUS
<1>2. \A i \in DOMAIN cMoves' : cMoves'[i].kind # "FirstDisbursement" /\ L!Whole(cMoves'[i])
  BY DEF L!Simple, L!Index, L!Whole
<1>3. ASSUME NEW kinds \in L!Kinds
      PROVE  /\ L!Cardinality({i \in DOMAIN cMoves : cMoves[i].kind \in kinds}) <= 1
             /\ m.kind \in kinds => \A i \in DOMAIN cMoves : cMoves[i].kind \notin kinds
  <2> DEFINE S == {i \in DOMAIN cMoves : cMoves[i].kind \in kinds}
             W == {i \in DOMAIN cMoves' : cMoves'[i].kind \in kinds}
  <2>1. \A X : L!Cardinality(X) = Cardinality(X)
    BY DEF L!Cardinality, Cardinality
  <2>2. Cardinality(W) <= 1
    <3>1. L!Cardinality(W) <= 1
      BY DEF L!Simple, L!Index, L!Kinds
    <3> QED  BY <2>1, <3>1
  <2>3. S \subseteq W
    BY <1>1
  <2>4. IsFiniteSet(W) /\ Cardinality(W) \in Nat
    <3>1. IsFiniteSet(1..(Len(cMoves) + 1))
      BY <1>1, FS_Interval
    <3>2. W \subseteq 1..(Len(cMoves) + 1)
      BY <1>1
    <3> HIDE DEF W
    <3>3. IsFiniteSet(W)
      BY <3>1, <3>2, FS_Subset
    <3> QED  BY <3>3, FS_CardinalityType
  <2>5. m.kind \in kinds => Len(cMoves) + 1 \in W
    BY <1>1
  <2>6. S \subseteq 1..Len(cMoves)
    BY <1>1
  <2>7. L!Cardinality(S) <= 1
    <3> HIDE DEF S, W
    <3>1. IsFiniteSet(S) /\ Cardinality(S) <= Cardinality(W)
      BY <2>3, <2>4, FS_Subset
    <3>2. Cardinality(S) \in Nat
      BY <3>1, FS_CardinalityType
    <3> QED  BY <2>1, <2>2, <2>4, <3>1, <3>2
  <2>8. ASSUME m.kind \in kinds, NEW i \in S PROVE FALSE
    <3> HIDE DEF S, W
    <3>1. i \in W /\ Len(cMoves) + 1 \in W /\ i # Len(cMoves) + 1
      BY <1>1, <2>3, <2>5, <2>6, <2>8
    <3>2. {i} \union {Len(cMoves) + 1} \subseteq W
      BY <3>1
    <3>3. IsFiniteSet({i}) /\ Cardinality({i}) = 1
      BY FS_Singleton
    <3>4. /\ IsFiniteSet({i} \union {Len(cMoves) + 1})
          /\ Cardinality({i} \union {Len(cMoves) + 1}) = 2
      <4>1. Len(cMoves) + 1 \notin {i}
        BY <3>1
      <4>2. /\ IsFiniteSet({i} \union {Len(cMoves) + 1})
            /\ Cardinality({i} \union {Len(cMoves) + 1}) = Cardinality({i}) + 1
        BY <3>3, <4>1, FS_AddElement, Zenon
      <4>3. Cardinality({i}) + 1 = 2
        BY <3>3
      <4> QED  BY <4>2, <4>3, Zenon
    <3>5. Cardinality({i} \union {Len(cMoves) + 1}) <= Cardinality(W)
      BY <2>4, <3>2, FS_Subset
    <3>6. 2 <= Cardinality(W)
      BY <3>4, <3>5, Zenon
    <3> QED  BY <2>2, <2>4, <3>6
  <2> QED  BY <2>7, <2>8
<1>4. L!Simple /\ Len(cMoves) + 1 <= PageSize
  <2>1. Len(cMoves') = Len(cMoves) + 1 /\ Len(cMoves') <= PageSize
    BY <1>1 DEF L!Simple
  <2>2. Len(cMoves) <= PageSize
    BY <1>1, <2>1, RegistersAssumption
  <2> QED  BY <1>1, <1>2, <1>3, <2>1, <2>2 DEF L!Simple, L!Index
<1>5. {"Transfer", "Disbursement"} \in L!Kinds /\ {"ProtocolFee"} \in L!Kinds
  BY DEF L!Kinds
<1>6. m.kind # "FirstDisbursement" /\ L!Whole(m)
  <2>1. Len(cMoves) + 1 \in DOMAIN cMoves'
    BY <1>1
  <2> QED  BY <1>1, <1>2, <2>1
<1>7. ASSUME m.kind \in Paid, NEW i \in DOMAIN cMoves PROVE cMoves[i].kind \notin Paid
  <2>1. m.kind \in {"Transfer", "Disbursement"}
    BY <1>6, <1>7 DEF Paid
  <2>2. cMoves[i].kind \notin {"Transfer", "Disbursement"}
    BY <1>3, <1>5, <2>1
  <2>3. cMoves[i].kind # "FirstDisbursement"
    BY <1>1, <1>2
  <2> QED  BY <2>2, <2>3 DEF Paid
<1>8. ASSUME m.kind = "ProtocolFee", NEW i \in DOMAIN cMoves PROVE cMoves[i].kind # "ProtocolFee"
  BY <1>3, <1>5, <1>8
<1> QED  BY <1>4, <1>6, <1>7, <1>8

\* The rows a movement is added to, and the movement.
Before(m, n) ==
  /\ PolyxTypes /\ ~cDone /\ m \in AnyMove
  /\ cMoves' = Append(cMoves, m) /\ UNCHANGED <<splitFees, primary>> /\ L!Distinct'
  /\ Rowed(polyxRows, n) /\ Sourced(polyxRows, cMoves)
  /\ \A i \in DOMAIN cMoves : cMoves[i].kind # "BothSet" => ToldOf(cMoves[i])
  /\ L!Simple => n = Len(cMoves)

\* No row waits that has an amount of the movement; in a simple extrinsic, no
\* row at all of the kind that its events are merged into.
Fresh(m) ==
  \A id \in DOMAIN polyxRows :
    polyxRows[id].event \in {"Endowed", "Transfer", "FeeCharged"} =>
      polyxRows[id].amount \notin L!Amounts(m)
Quiet(m) ==
  /\ m.kind # "FirstDisbursement" /\ L!Whole(m)
  /\ m.kind \in Paid =>
       \A id \in DOMAIN polyxRows : polyxRows[id].event \notin {"Endowed", "Transfer"}
  /\ m.kind = "ProtocolFee" =>
       \A id \in DOMAIN polyxRows : polyxRows[id].event # "FeeCharged"

\* What an operation does to the rows: those there are stay, but for a
\* reimbursement the transaction fee replaces; the new ones have the amount of
\* the movement, and one of them tells it.
Grows(m, n, k) ==
  /\ Rowed(polyxRows', k) /\ n <= k
  /\ \A id \in 0..(n - 1) :
       \/ polyxRows'[id] = polyxRows[id]
       \/ /\ cDone' /\ polyxRows[id].event = "TreasuryReimbursement"
          /\ polyxRows'[id].event = "TransactionFeePaid"
  /\ \A id \in n..(k - 1) :
       /\ polyxRows'[id].event \in {"Endowed", "Transfer"} =>
            m.kind \in Paid /\ m.amount = polyxRows'[id].amount
       /\ polyxRows'[id].event = "FeeCharged" =>
            m.kind = "ProtocolFee" /\ m.amount = polyxRows'[id].amount
  /\ m.kind # "BothSet" =>
       \E id \in 0..(k - 1) : /\ L!Tells(polyxRows'[id], m)
                              /\ cDone' \/ polyxRows'[id].event # "TreasuryReimbursement"
  /\ L!Simple' => k = n + 1

\* The rows that wait have the amounts of earlier movements.
LEMMA MoveFresh ==
  ASSUME NEW m, NEW n, Before(m, n)
  PROVE  Fresh(m) /\ (L!Simple' => L!Simple /\ Quiet(m) /\ n + 1 <= PageSize)
<1>1. /\ cMoves \in Seq(AnyMove) /\ m \in AnyMove /\ cMoves' = Append(cMoves, m)
      /\ UNCHANGED splitFees /\ L!Distinct' /\ Sourced(polyxRows, cMoves)
      /\ \A i \in DOMAIN cMoves : cMoves[i].kind \notin FeeKinds
  BY DEF Before, PolyxTypes
<1>2. \A i \in DOMAIN cMoves : L!Amounts(cMoves[i]) \cap L!Amounts(m) = {}
  BY <1>1, DistinctBefore
<1>3. \A i \in DOMAIN cMoves : cMoves[i].amount \notin L!Amounts(m)
  BY <1>2, AmountsOf
<1>4. Fresh(m)
  BY <1>1, <1>3 DEF Fresh, Sourced
<1>5. ASSUME L!Simple' PROVE L!Simple /\ Quiet(m) /\ n + 1 <= PageSize
  <2>1. /\ L!Simple /\ Len(cMoves) + 1 <= PageSize
        /\ m.kind # "FirstDisbursement" /\ L!Whole(m)
        /\ m.kind \in Paid => \A i \in DOMAIN cMoves : cMoves[i].kind \notin Paid
        /\ m.kind = "ProtocolFee" => \A i \in DOMAIN cMoves : cMoves[i].kind # "ProtocolFee"
    BY <1>1, <1>5, SimpleBefore
  <2>2. Quiet(m)
    BY <1>1, <2>1 DEF Quiet, Sourced
  <2>3. n + 1 <= PageSize
    BY <2>1 DEF Before
  <2> QED  BY <2>1, <2>2, <2>3
<1> QED  BY <1>4, <1>5

\* After such an operation the rows are sound.
LEMMA MoveAdded ==
  ASSUME NEW m, NEW n, NEW k, Before(m, n), Grows(m, n, k)
  PROVE  PolyxRowsSound'
<1>1. /\ cMoves \in Seq(AnyMove) /\ m \in AnyMove /\ cMoves' = Append(cMoves, m)
      /\ UNCHANGED <<splitFees, primary>> /\ ~cDone /\ n \in Nat /\ k \in Nat /\ n <= k
      /\ DOMAIN polyxRows = 0..(n - 1) /\ DOMAIN polyxRows' = 0..(k - 1)
  BY DEF Before, PolyxTypes, Grows, Rowed
<1>2. /\ DOMAIN cMoves = 1..Len(cMoves) /\ DOMAIN cMoves' = 1..(Len(cMoves) + 1)
      /\ Len(cMoves) \in Nat /\ Len(cMoves') = Len(cMoves) + 1
      /\ cMoves'[Len(cMoves) + 1] = m
      /\ \A i \in 1..Len(cMoves) : cMoves'[i] = cMoves[i]
  BY <1>1
<1>3. Rowed(polyxRows', k)
  BY DEF Grows
<1>4. Sourced(polyxRows', cMoves')
  <2> SUFFICES ASSUME NEW id \in DOMAIN polyxRows'
               PROVE  /\ polyxRows'[id].event \in {"Endowed", "Transfer"} =>
                           \E i \in DOMAIN cMoves' : cMoves'[i].kind \in Paid
                                                     /\ cMoves'[i].amount = polyxRows'[id].amount
                      /\ polyxRows'[id].event = "FeeCharged" =>
                           \E i \in DOMAIN cMoves' : cMoves'[i].kind = "ProtocolFee"
                                                     /\ cMoves'[i].amount = polyxRows'[id].amount
    BY DEF Sourced
  <2>1. CASE id \in 0..(n - 1)
    <3>1. CASE polyxRows'[id] = polyxRows[id]
      <4>1. \A i \in DOMAIN cMoves : i \in DOMAIN cMoves' /\ cMoves'[i] = cMoves[i]
        BY <1>2
      <4>2. /\ polyxRows[id].event \in {"Endowed", "Transfer"} =>
                 \E i \in DOMAIN cMoves : cMoves[i].kind \in Paid
                                          /\ cMoves[i].amount = polyxRows[id].amount
            /\ polyxRows[id].event = "FeeCharged" =>
                 \E i \in DOMAIN cMoves : cMoves[i].kind = "ProtocolFee"
                                          /\ cMoves[i].amount = polyxRows[id].amount
        BY <1>1, <2>1 DEF Before, Sourced
      <4> QED  BY <3>1, <4>1, <4>2
    <3>2. CASE polyxRows'[id].event = "TransactionFeePaid"
      BY <3>2
    <3> QED  BY <2>1, <3>1, <3>2 DEF Grows
  <2>2. CASE id \in n..(k - 1)
    <3>1. Len(cMoves) + 1 \in DOMAIN cMoves'
      BY <1>2
    <3> QED  BY <1>2, <2>2, <3>1 DEF Grows
  <2> QED  BY <1>1, <2>1, <2>2
<1>5. \A row, x : L!Tells(row, x)' = L!Tells(row, x)
  BY <1>1 DEF L!Tells, L!Shown, L!Grossed, L!Reimbursed
<1>6. ASSUME NEW i \in DOMAIN cMoves', cMoves'[i].kind # "BothSet"
      PROVE  \E id \in DOMAIN polyxRows' :
               /\ L!Tells(polyxRows'[id], cMoves'[i])
               /\ cDone' \/ polyxRows'[id].event # "TreasuryReimbursement"
  <2>1. CASE i = Len(cMoves) + 1
    BY <1>1, <1>2, <1>6, <2>1 DEF Grows
  <2>2. CASE i \in DOMAIN cMoves
    <3>1. cMoves'[i] = cMoves[i]
      BY <1>2, <2>2
    <3>2. PICK id \in DOMAIN polyxRows :
            /\ L!Tells(polyxRows[id], cMoves[i])
            /\ polyxRows[id].event # "TreasuryReimbursement"
      BY <1>1, <1>6, <2>2, <3>1 DEF Before, ToldOf
    <3>3. polyxRows'[id] = polyxRows[id] /\ id \in DOMAIN polyxRows'
      BY <1>1, <3>2 DEF Grows
    <3> QED  BY <3>1, <3>2, <3>3
  <2> QED  BY <1>2, <2>1, <2>2
<1>7. ASSUME NEW i \in DOMAIN cMoves', cMoves'[i].kind # "BothSet" PROVE ToldOf(cMoves[i])'
  <2>1. PICK id \in DOMAIN polyxRows' :
          /\ L!Tells(polyxRows'[id], cMoves'[i])
          /\ cDone' \/ polyxRows'[id].event # "TreasuryReimbursement"
    BY <1>6, <1>7
  <2> QED  BY <1>1, <2>1 DEF ToldOf, L!Tells, L!Shown, L!Grossed, L!Reimbursed
<1>8. L!Simple' => k = Len(cMoves')
  BY <1>2, MoveFresh DEF Before, Grows
<1> QED  BY <1>1, <1>3, <1>4, <1>7, <1>8 DEF PolyxRowsSound

-----------------------------------------------------------------------------
\* The rows of a transfer to an account, which may be new.
LEMMA Endowing ==
  ASSUME NEW n, Rowed(polyxRows, n), NEW from, NEW to, NEW amount,
         \A id \in DOMAIN polyxRows :
           polyxRows[id].event = "Endowed" => polyxRows[id].amount # amount,
         NEW table \in L!AfterTransfer(L!AfterEndowed(to, amount), from, to, amount)
  PROVE  \E k \in Nat :
           /\ n < k /\ Rowed(table, k)
           /\ \A id \in 0..(n - 1) : table[id] = polyxRows[id]
           /\ \A id \in n..(k - 1) :
                table[id].event \in {"Endowed", "Transfer"} /\ table[id].amount = amount
           /\ \E id \in n..(k - 1) : table[id].from = from /\ table[id].to = to
           /\ /\ n + 1 <= PageSize
              /\ \A id \in DOMAIN polyxRows : polyxRows[id].event # "Endowed"
              => k = n + 1 /\ (to \in cExists => table[n].event = "Transfer")
<1> DEFINE none == /\ n + 1 <= PageSize
                   /\ \A id \in DOMAIN polyxRows : polyxRows[id].event # "Endowed"
           moved == L!Row("Transfer", from, to, amount)
           endowed == L!Row("Endowed", NoOne, to, amount)
           first == L!AfterEndowed(to, amount)
           Then(id) == IF first[id].amount = amount THEN [first EXCEPT ![id].from = from]
                                                    ELSE L!Insert(first, moved)
<1>0. n \in Nat /\ DOMAIN polyxRows = 0..(n - 1)
  BY DEF Rowed
<1>1. /\ moved.event = "Transfer" /\ moved.from = from /\ moved.to = to
      /\ moved.amount = amount
      /\ endowed.event = "Endowed" /\ endowed.to = to /\ endowed.amount = amount
      /\ DOMAIN moved = PolyxColumns /\ DOMAIN endowed = PolyxColumns
  BY RowColumns
<1>2. PICK found \in L!Lookups(first, "Endowed") :
        \/ found = {} /\ table = L!Insert(first, moved)
        \/ \E id \in found : table = Then(id)
  BY DEF L!AfterTransfer
<1> HIDE DEF moved, endowed
<1>3. CASE to \in cExists
  <2>1. first = polyxRows
    BY <1>3 DEF L!AfterEndowed
  <2>2. table = L!Insert(polyxRows, moved)
    <3>1. \A id \in found : first[id].amount # amount
      BY <1>2, <2>1, LookupFacts DEF L!Of
    <3> QED  BY <1>2, <2>1, <3>1
  <2>3. /\ Rowed(table, n + 1) /\ table[n] = moved
        /\ \A id \in 0..(n - 1) : table[id] = polyxRows[id]
    BY <1>1, <2>2, RowInserted
  <2>4. /\ n \in n..((n + 1) - 1) /\ \A id \in n..((n + 1) - 1) : id = n
        /\ n + 1 \in Nat /\ n < n + 1
    BY <1>0
  <2>5. /\ \A id \in n..((n + 1) - 1) :
             table[id].event \in {"Endowed", "Transfer"} /\ table[id].amount = amount
        /\ \E id \in n..((n + 1) - 1) : table[id].from = from /\ table[id].to = to
        /\ table[n].event = "Transfer"
    BY <1>1, <2>3, <2>4
  <2> QED  BY <2>3, <2>4, <2>5
<1>4. CASE to \notin cExists
  <2>1. first = L!Insert(polyxRows, endowed)
    BY <1>4 DEF L!AfterEndowed, endowed
  <2>2. /\ Rowed(first, n + 1) /\ first[n] = endowed
        /\ \A id \in 0..(n - 1) : first[id] = polyxRows[id]
    BY <1>1, <2>1, RowInserted
  <2>3. DOMAIN first = 0..n
    BY <1>0, <2>2 DEF Rowed
  <2>4. CASE table = L!Insert(first, moved) /\ ~none
    <3>1. /\ Rowed(table, (n + 1) + 1) /\ table[n + 1] = moved
          /\ \A id \in 0..((n + 1) - 1) : table[id] = first[id]
      BY <1>1, <2>2, <2>4, RowInserted
    <3>2. /\ n + 1 \in n..(((n + 1) + 1) - 1)
          /\ \A id \in n..(((n + 1) + 1) - 1) : id = n \/ id = n + 1
          /\ n \in 0..((n + 1) - 1) /\ \A id \in 0..(n - 1) : id \in 0..((n + 1) - 1)
      BY <1>0
    <3>3. /\ \A id \in 0..(n - 1) : table[id] = polyxRows[id]
          /\ table[n] = endowed
      BY <2>2, <3>1, <3>2
    <3> QED  BY <1>0, <1>1, <2>4, <3>1, <3>2, <3>3
  <2>5. CASE table = [first EXCEPT ![n].from = from]
    <3>1. /\ DOMAIN table = DOMAIN first /\ table[n] = [endowed EXCEPT !.from = from]
          /\ \A id \in 0..(n - 1) : table[id] = polyxRows[id]
      BY <1>0, <2>2, <2>3, <2>5
    <3>2. /\ table[n].event = "Endowed" /\ table[n].from = from /\ table[n].to = to
          /\ table[n].amount = amount
      BY <1>1, <3>1 DEF PolyxColumns
    <3>6. DOMAIN [endowed EXCEPT !.from = from] = PolyxColumns
      BY <1>1
    <3>7. \A id \in 0..n : DOMAIN table[id] = PolyxColumns
      <4>1. \A id \in 0..n : id = n \/ id \in 0..(n - 1)
        BY <1>0
      <4>2. \A id \in 0..(n - 1) : DOMAIN table[id] = PolyxColumns
        BY <3>1 DEF Rowed
      <4> QED  BY <3>1, <3>6, <4>1, <4>2
    <3>3. Rowed(table, n + 1)
      BY <1>0, <2>3, <3>1, <3>7 DEF Rowed
    <3>4. /\ n \in n..((n + 1) - 1) /\ \A id \in n..((n + 1) - 1) : id = n
          /\ n + 1 \in Nat /\ n < n + 1
      BY <1>0
    <3>5. /\ \A id \in n..((n + 1) - 1) :
               table[id].event \in {"Endowed", "Transfer"} /\ table[id].amount = amount
          /\ \E id \in n..((n + 1) - 1) : table[id].from = from /\ table[id].to = to
      BY <3>2, <3>4
    <3> QED  BY <1>4, <3>1, <3>3, <3>4, <3>5
  <2>6. /\ found \subseteq L!Of(first, "Endowed")
        /\ n + 1 <= PageSize => found = L!Of(first, "Endowed")
    BY <2>2, LookupFacts
  <2>11. CASE found = {}
    <3>1. n \in L!Of(first, "Endowed")
      BY <1>0, <1>1, <2>2, <2>3 DEF L!Of
    <3>2. ~none
      BY <2>6, <2>11, <3>1
    <3> QED  BY <1>2, <2>4, <2>11, <3>2
  <2>12. ASSUME found # {} PROVE \E id \in DOMAIN first : first[id].event = "Endowed" /\ table = Then(id)
    BY <1>2, <2>6, <2>12 DEF L!Of
  <2> SUFFICES ASSUME found # {} PROVE \E k \in Nat :
           /\ n < k /\ Rowed(table, k)
           /\ \A id \in 0..(n - 1) : table[id] = polyxRows[id]
           /\ \A id \in n..(k - 1) :
                table[id].event \in {"Endowed", "Transfer"} /\ table[id].amount = amount
           /\ \E id \in n..(k - 1) : table[id].from = from /\ table[id].to = to
           /\ none => k = n + 1 /\ (to \in cExists => table[n].event = "Transfer")
    BY <2>11
  <2>7. PICK id \in DOMAIN first : first[id].event = "Endowed" /\ table = Then(id)
    BY <2>12
  <2>8. CASE id = n
    <3>1. first[id].amount = amount
      BY <1>1, <2>2, <2>8
    <3>2. table = [first EXCEPT ![n].from = from]
      BY <2>7, <2>8, <3>1
    <3> QED  BY <2>5, <3>2
  <2>9. CASE id \in 0..(n - 1)
    <3>1. ~none /\ first[id].amount # amount
      BY <1>0, <2>2, <2>7, <2>9
    <3>2. table = L!Insert(first, moved)
      BY <2>7, <3>1
    <3> QED  BY <2>4, <3>1, <3>2
  <2>10. id = n \/ id \in 0..(n - 1)
    BY <1>0, <2>3
  <2> QED  BY <2>8, <2>9, <2>10
<1> QED  BY <1>3, <1>4

\* A transfer.
LEMMA TransferGrows ==
  ASSUME NEW n, NEW from \in Payer, NEW to \in Payer, NEW amount \in Amount,
         L!Transfer(from, to, amount), Before(L!Move("Transfer", from, to, amount), n)
  PROVE  \E k : Grows(L!Move("Transfer", from, to, amount), n, k)
<1> DEFINE m == L!Move("Transfer", from, to, amount)
<1>1. /\ m.kind = "Transfer" /\ m.from = from /\ m.to = to /\ m.amount = amount
  BY DEF L!Move
<1>2. polyxRows' \in L!AfterTransfer(L!AfterEndowed(to, amount), from, to, amount)
  BY DEF L!Transfer
<1>3. L!Amounts(m) = {amount} /\ m.kind \in Paid /\ m.kind # "BothSet"
  BY <1>1, AmountsOf DEF Paid, FeeKinds
<1> HIDE DEF m
<1>4. Fresh(m) /\ (L!Simple' => L!Simple /\ Quiet(m) /\ n + 1 <= PageSize)
  BY MoveFresh DEF m
<1>5. \A id \in DOMAIN polyxRows :
        polyxRows[id].event = "Endowed" => polyxRows[id].amount # amount
  BY <1>3, <1>4 DEF Fresh
<1>6. Rowed(polyxRows, n)
  BY DEF Before
<1>7. PICK k \in Nat :
        /\ n < k /\ Rowed(polyxRows', k)
        /\ \A id \in 0..(n - 1) : polyxRows'[id] = polyxRows[id]
        /\ \A id \in n..(k - 1) :
             polyxRows'[id].event \in {"Endowed", "Transfer"} /\ polyxRows'[id].amount = amount
        /\ \E id \in n..(k - 1) : polyxRows'[id].from = from /\ polyxRows'[id].to = to
        /\ /\ n + 1 <= PageSize
           /\ \A id \in DOMAIN polyxRows : polyxRows[id].event # "Endowed"
           => k = n + 1 /\ (to \in cExists => polyxRows'[n].event = "Transfer")
  BY <1>2, <1>5, <1>6, Endowing
<1>8. \E id \in 0..(k - 1) : /\ L!Tells(polyxRows'[id], m)
                             /\ cDone' \/ polyxRows'[id].event # "TreasuryReimbursement"
  <2>1. PICK id \in n..(k - 1) : polyxRows'[id].from = from /\ polyxRows'[id].to = to
    BY <1>7
  <2>2. id \in 0..(k - 1)
    BY <1>6 DEF Rowed
  <2>3. polyxRows'[id].event \in {"Endowed", "Transfer"} /\ polyxRows'[id].amount = amount
    BY <1>7
  <2>4. L!Tells(polyxRows'[id], m)
    BY <1>1, <1>3, <2>1, <2>3, ToldBy
  <2> QED  BY <2>2, <2>3, <2>4
<1>9. L!Simple' => k = n + 1
  BY <1>3, <1>4, <1>7 DEF Quiet
<1>10. \A id \in n..(k - 1) :
         /\ polyxRows'[id].event # "FeeCharged"
         /\ m.kind \in Paid /\ m.amount = polyxRows'[id].amount
  BY <1>1, <1>3, <1>7
<1> HIDE DEF L!Tells
<1>11. n <= k
  BY <1>6, <1>7 DEF Rowed
<1> QED  BY <1>7, <1>8, <1>9, <1>10, <1>11 DEF Grows, m

\* A disbursement, whose transfer is told first.
LEMMA DisbursementGrows ==
  ASSUME NEW n, NEW m, NEW to \in Payer, NEW amount \in Amount, L!Disburse(to, amount),
         Before(m, n), m.kind = IF to \in cExists THEN "Disbursement" ELSE "FirstDisbursement",
         m.from = Treasury, m.to = to, m.amount = amount
  PROVE  \E k : Grows(m, n, k)
<1>1. PICK table \in L!AfterTransfer(L!AfterEndowed(to, amount), Treasury, to, amount) :
        polyxRows' \in L!AfterDisbursement(table, to, amount)
  BY DEF L!Disburse
<1>2. /\ m.kind \notin FeeKinds /\ m.kind \in Paid /\ m.kind # "BothSet"
      /\ L!Amounts(m) = {amount}
  BY AmountsOf DEF Paid, FeeKinds
<1>3. Fresh(m) /\ (L!Simple' => L!Simple /\ Quiet(m) /\ n + 1 <= PageSize)
  BY MoveFresh
<1>4. \A id \in DOMAIN polyxRows :
        polyxRows[id].event \in {"Endowed", "Transfer"} => polyxRows[id].amount # amount
  BY <1>2, <1>3 DEF Fresh
<1>5. Rowed(polyxRows, n) /\ n \in Nat /\ DOMAIN polyxRows = 0..(n - 1)
  BY DEF Before, Rowed
<1>6. PICK k \in Nat :
        /\ n < k /\ Rowed(table, k)
        /\ \A id \in 0..(n - 1) : table[id] = polyxRows[id]
        /\ \A id \in n..(k - 1) :
             table[id].event \in {"Endowed", "Transfer"} /\ table[id].amount = amount
        /\ \E id \in n..(k - 1) : table[id].from = Treasury /\ table[id].to = to
        /\ /\ n + 1 <= PageSize
           /\ \A id \in DOMAIN polyxRows : polyxRows[id].event # "Endowed"
           => k = n + 1 /\ (to \in cExists => table[n].event = "Transfer")
  BY <1>4, <1>5, Endowing
<1> DEFINE row == L!Row("TreasuryDisbursement", Committee, to, amount)
           quiet == L!Simple'
<1>7. /\ row.event = "TreasuryDisbursement" /\ row.amount = amount /\ DOMAIN row = PolyxColumns
  BY RowColumns
<1>13. PICK found \in L!Lookups(table, "Transfer") :
         \/ polyxRows' = L!Insert(table, row) /\ found = {}
         \/ \E id \in found :
              \/ /\ table[id].amount = amount
                 /\ polyxRows' = [table EXCEPT ![id].event = "TreasuryDisbursement"]
              \/ polyxRows' = L!Insert(table, row) /\ table[id].amount # amount
  BY <1>1 DEF L!AfterDisbursement
<1>14. /\ found \subseteq L!Of(table, "Transfer")
       /\ k <= PageSize => found = L!Of(table, "Transfer")
  BY <1>6, LookupFacts
<1> HIDE DEF row
<1>8. \/ polyxRows' = L!Insert(table, row) /\ found = {}
      \/ \E id \in DOMAIN table :
           /\ table[id].event = "Transfer"
           /\ \/ /\ table[id].amount = amount
                 /\ polyxRows' = [table EXCEPT ![id].event = "TreasuryDisbursement"]
              \/ polyxRows' = L!Insert(table, row) /\ table[id].amount # amount
  BY <1>13, <1>14 DEF L!Of
<1>9. DOMAIN table = 0..(k - 1)
  BY <1>6 DEF Rowed
<1>10. quiet => /\ k = n + 1 /\ k <= PageSize /\ table[n].event = "Transfer"
                /\ \A id \in 0..(n - 1) : table[id].event # "Transfer"
  BY <1>2, <1>3, <1>5, <1>6 DEF Quiet
<1>11. CASE polyxRows' = L!Insert(table, row)
  <2>1. /\ Rowed(polyxRows', k + 1) /\ polyxRows'[k] = row
        /\ \A id \in 0..(k - 1) : polyxRows'[id] = table[id]
    BY <1>6, <1>7, <1>11, RowInserted
  <2>2. /\ n <= k + 1 /\ k \in 0..((k + 1) - 1)
        /\ \A id \in 0..(n - 1) : id \in 0..(k - 1)
        /\ \A id \in n..((k + 1) - 1) : id = k \/ (id \in n..(k - 1) /\ id \in 0..(k - 1))
    BY <1>5, <1>6
  <2>3. \A id \in 0..(n - 1) : polyxRows'[id] = polyxRows[id]
    BY <1>6, <2>1, <2>2
  <2>4. ASSUME NEW id \in n..((k + 1) - 1)
        PROVE  polyxRows'[id].event # "FeeCharged" /\ polyxRows'[id].amount = amount
    <3>1. CASE id = k
      BY <1>7, <2>1, <3>1
    <3>2. CASE id \in n..(k - 1) /\ id \in 0..(k - 1)
      BY <1>6, <2>1, <3>2
    <3> QED  BY <2>2, <3>1, <3>2
  <2>7. PICK j \in n..(k - 1) : table[j].from = Treasury /\ table[j].to = to
    BY <1>6
  <2>8. j \in 0..(k - 1) /\ j \in 0..((k + 1) - 1)
    BY <1>5, <1>6
  <2>9. polyxRows'[j] = table[j]
    BY <2>1, <2>8
  <2>5. L!Tells(polyxRows'[j], m) /\ polyxRows'[j].event # "TreasuryReimbursement"
    <3>1. m.kind # "OldTransactionFee"
      BY <1>2 DEF FeeKinds
    <3>2. table[j].event \in {"Endowed", "Transfer"} /\ table[j].amount = amount
      BY <1>6
    <3> QED  BY <2>7, <2>9, <3>1, <3>2, ToldBy
  <2>6. ~quiet
    <3> SUFFICES ASSUME quiet PROVE FALSE
      OBVIOUS
    <3>1. n \in found
      BY <1>5, <1>6, <1>9, <1>10, <1>14 DEF L!Of
    <3>2. PICK id \in DOMAIN table : table[id].event = "Transfer" /\ table[id].amount # amount
      <4>1. row.event # "Transfer"
        BY <1>7
      <4>2. \A id \in DOMAIN table :
              polyxRows' # [table EXCEPT ![id].event = "TreasuryDisbursement"]
        <5>1. k \in DOMAIN polyxRows' /\ k \notin DOMAIN table
          BY <1>5, <1>6, <1>9, <2>1 DEF Rowed
        <5> QED  BY <5>1
      <4> QED  BY <1>8, <3>1, <4>2
    <3>3. id \in n..(k - 1) \/ id \in 0..(n - 1)
      BY <1>5, <1>6, <1>9
    <3> QED  BY <1>6, <1>10, <3>2, <3>3
  <2> QED  BY <1>2, <2>1, <2>2, <2>3, <2>4, <2>5, <2>6, <2>8 DEF Grows
<1>12. ASSUME NEW id \in DOMAIN table, table[id].event = "Transfer", table[id].amount = amount,
              polyxRows' = [table EXCEPT ![id].event = "TreasuryDisbursement"]
       PROVE  Grows(m, n, k)
  <2>1. id \in n..(k - 1)
    BY <1>4, <1>5, <1>6, <1>9, <1>12
  <2>2. /\ DOMAIN polyxRows' = DOMAIN table
        /\ \A j \in DOMAIN table : j # id => polyxRows'[j] = table[j]
        /\ polyxRows'[id] = [table[id] EXCEPT !.event = "TreasuryDisbursement"]
    BY <1>12
  <2>3. ASSUME NEW j \in DOMAIN table
        PROVE  /\ DOMAIN polyxRows'[j] = PolyxColumns
               /\ polyxRows'[j].amount = table[j].amount /\ polyxRows'[j].from = table[j].from
               /\ polyxRows'[j].to = table[j].to
               /\ \/ polyxRows'[j].event = table[j].event
                  \/ polyxRows'[j].event = "TreasuryDisbursement"
    <3>1. DOMAIN table[j] = PolyxColumns
      BY <1>6 DEF Rowed
    <3>2. CASE j = id
      <4> DEFINE old == table[j]
                 new == [old EXCEPT !["event"] = "TreasuryDisbursement"]
      <4>1. polyxRows'[j] = new /\ DOMAIN old = PolyxColumns
        BY <2>2, <3>1, <3>2
      <4> HIDE DEF old
      <4>2. /\ DOMAIN new = PolyxColumns /\ new.amount = old.amount
            /\ new.from = old.from /\ new.to = old.to /\ new.event = "TreasuryDisbursement"
        BY <4>1 DEF PolyxColumns
      <4> QED  BY <4>1, <4>2 DEF old
    <3>3. CASE j # id
      BY <2>2, <3>1, <3>3
    <3> QED  BY <3>2, <3>3
  <2>4. Rowed(polyxRows', k)
    BY <1>6, <2>2, <2>3 DEF Rowed
  <2>5. \A j \in 0..(n - 1) : polyxRows'[j] = polyxRows[j]
    BY <1>5, <1>6, <1>9, <2>1, <2>2
  <2>6. \A j \in n..(k - 1) : /\ polyxRows'[j].event # "FeeCharged"
                              /\ polyxRows'[j].event # "TreasuryReimbursement"
                              /\ polyxRows'[j].amount = amount
    <3>1. \A j \in n..(k - 1) : j \in DOMAIN table
      BY <1>5, <1>6, <1>9
    <3> QED  BY <1>6, <2>3, <3>1
  <2>7. PICK j \in n..(k - 1) : table[j].from = Treasury /\ table[j].to = to
    BY <1>6
  <2>8. j \in 0..(k - 1)
    BY <1>5, <1>6
  <2>9. L!Tells(polyxRows'[j], m)
    BY <1>2, <1>9, <2>3, <2>6, <2>7, <2>8, ToldBy DEF FeeKinds
  <2>10. n <= k
    BY <1>5, <1>6
  <2> QED  BY <1>2, <1>10, <2>4, <2>5, <2>6, <2>8, <2>9, <2>10 DEF Grows
<1> QED  BY <1>8, <1>11, <1>12

\* A protocol fee, and the share of the treasury.
LEMMA ProtocolFeeGrows ==
  ASSUME NEW n, NEW m, NEW from \in Payer, NEW fee \in Amount, L!ChargeProtocolFee(from, fee),
         Before(m, n), m.kind = "ProtocolFee", m.from = from, m.to = NoOne, m.amount = fee
  PROVE  \E k : Grows(m, n, k)
<1> DEFINE row == L!Row("FeeCharged", from, NoOne, fee)
           amount == L!Grossed(L!Reimbursed(fee))
           share == L!Row("TreasuryReimbursement", primary[from], NoOne, amount)
           first == L!Insert(polyxRows, row)
           table == polyxRows'
           quiet == L!Simple'
<1>1. table \in L!AfterReimbursement(first, from, L!Reimbursed(fee))
  BY DEF L!ChargeProtocolFee
<1>2. L!Amounts(m) = {fee} /\ m.kind \notin {"BothSet", "OldTransactionFee"}
  BY AmountsOf DEF FeeKinds
<1>3. quiet => L!Simple /\ Quiet(m) /\ n + 1 <= PageSize
  BY MoveFresh
<1>4. Rowed(polyxRows, n) /\ n \in Nat /\ DOMAIN polyxRows = 0..(n - 1)
  BY DEF Before, Rowed
<1>5. /\ row.event = "FeeCharged" /\ row.from = from /\ row.to = NoOne /\ row.amount = fee
      /\ DOMAIN row = PolyxColumns
      /\ share.event = "TreasuryReimbursement" /\ DOMAIN share = PolyxColumns
  BY RowColumns
<1>6. PICK found \in L!Lookups(first, "FeeCharged") :
        \/ /\ table = L!Insert(first, share)
           /\ found = {} \/ \E j \in found : first[j].amount # amount
        \/ table = first
  BY <1>1 DEF L!AfterReimbursement
<1> HIDE DEF row, share
<1>7. /\ Rowed(first, n + 1) /\ first[n] = row
      /\ \A id \in 0..(n - 1) : first[id] = polyxRows[id]
  BY <1>4, <1>5, RowInserted
<1> HIDE DEF amount
<1>8. quiet => amount = fee
  <2> SUFFICES ASSUME quiet PROVE amount = fee
    OBVIOUS
  <2>1. fee \in Nat /\ (splitFees => fee % 5 = 0)
    BY <1>3, RegistersAssumption DEF Quiet, L!Whole
  <2>2. CASE splitFees
    <3>1. amount = (((fee * 4) \div 5) * 5) \div 4
      BY <2>2 DEF amount, L!Grossed, L!Reimbursed
    <3>2. PICK x \in Nat : fee = 5 * x
      BY <2>1, <2>2
    <3>3. (fee * 4) \div 5 = 4 * x
      BY <3>2
    <3>4. ((4 * x) * 5) \div 4 = 5 * x
      BY <3>2
    <3> QED  BY <3>1, <3>2, <3>3, <3>4
  <2>3. CASE ~splitFees
    BY <2>3 DEF amount, L!Grossed, L!Reimbursed
  <2> QED  BY <2>2, <2>3
<1>9. DOMAIN first = 0..n
  BY <1>4, <1>7 DEF Rowed
<1>10. /\ 0..n = 0..((n + 1) - 1) /\ n \in 0..n /\ \A id \in 0..(n - 1) : id \in 0..n
       /\ \A id \in n..((n + 1) - 1) : id = n
       /\ n <= n + 1 /\ n <= (n + 1) + 1 /\ n \in 0..((n + 1) - 1)
       /\ n + 1 \in Nat
       /\ n \in 0..(((n + 1) + 1) - 1)
       /\ \A id \in n..(((n + 1) + 1) - 1) : id = n \/ id = n + 1
  BY <1>4
<1>11. CASE table = first
  <2>1. L!Tells(polyxRows'[n], m) /\ polyxRows'[n].event # "TreasuryReimbursement"
    BY <1>2, <1>5, <1>7, <1>11, ToldBy
  <2> QED  BY <1>2, <1>5, <1>7, <1>10, <1>11, <2>1 DEF Grows
<1>12. CASE table = L!Insert(first, share) /\ ~quiet
  <2>1. /\ Rowed(table, (n + 1) + 1) /\ table[n + 1] = share
        /\ \A id \in 0..((n + 1) - 1) : table[id] = first[id]
    BY <1>5, <1>7, <1>12, RowInserted
  <2>2. table[n] = row /\ \A id \in 0..(n - 1) : table[id] = polyxRows[id]
    BY <1>7, <1>10, <2>1
  <2>3. L!Tells(polyxRows'[n], m) /\ polyxRows'[n].event # "TreasuryReimbursement"
    BY <1>2, <1>5, <2>2, ToldBy
  <2>4. /\ polyxRows'[n].event = "FeeCharged" /\ polyxRows'[n].amount = fee
        /\ polyxRows'[n + 1].event = "TreasuryReimbursement"
    BY <1>5, <2>1, <2>2
  <2> QED  BY <1>10, <1>12, <2>1, <2>2, <2>3, <2>4 DEF Grows
<1>13. ASSUME quiet PROVE table = first
  <2>1. \A id \in DOMAIN first : first[id].event = "FeeCharged" => first[id].amount = amount
    <3>1. \A id \in 0..(n - 1) : first[id].event # "FeeCharged"
      BY <1>3, <1>4, <1>7, <1>13 DEF Quiet
    <3>2. first[n].amount = amount
      BY <1>5, <1>7, <1>8, <1>13
    <3>3. \A id \in DOMAIN first : id \in 0..(n - 1) \/ id = n
      BY <1>4, <1>9
    <3> QED  BY <3>1, <3>2, <3>3
  <2>2. n \in DOMAIN first /\ first[n].event = "FeeCharged"
    BY <1>5, <1>7, <1>9, <1>10
  <2>3. found = L!Of(first, "FeeCharged")
    BY <1>3, <1>7, <1>13, LookupFacts
  <2> QED  BY <1>6, <2>1, <2>2, <2>3 DEF L!Of
<1>14. table = first \/ table = L!Insert(first, share)
  BY <1>6
<1> QED  BY <1>11, <1>12, <1>13, <1>14

\* A movement that is told by one event, which no other is merged with.
LEMMA AloneGrows ==
  ASSUME NEW n, NEW m, NEW row, Before(m, n), polyxRows' = L!Insert(polyxRows, row),
         DOMAIN row = PolyxColumns, row.event \in {"Other", "BalanceSet"},
         m.kind # "BothSet" => L!Tells(row, m)
  PROVE  Grows(m, n, n + 1)
<1>1. Rowed(polyxRows, n) /\ n \in Nat
  BY DEF Before, Rowed
<1>2. /\ Rowed(polyxRows', n + 1) /\ polyxRows'[n] = row
      /\ \A id \in 0..(n - 1) : polyxRows'[id] = polyxRows[id]
  BY <1>1, RowInserted
<1>3. n \in 0..((n + 1) - 1) /\ n <= n + 1 /\ \A id \in n..((n + 1) - 1) : id = n
  BY <1>1
<1> QED  BY <1>2, <1>3 DEF Grows

\* A balance that is set: a reserved one takes the place of the free one.
LEMMA BalanceGrows ==
  ASSUME NEW n, NEW m, NEW to \in Payer, NEW free \in Amount, NEW reserved,
         L!SetBalance(to, free, reserved), Before(m, n),
         m.kind = IF reserved = 0 THEN "Alone" ELSE "BothSet",
         m.from = NoOne, m.to = to, m.amount = free
  PROVE  Grows(m, n, n + 1)
<1> DEFINE one == L!Row("BalanceSet", NoOne, to, free)
           two == L!Row("BalanceSet", NoOne, to, reserved)
           id == L!Cardinality(DOMAIN polyxRows)
<1>1. polyxRows' = IF reserved = 0 THEN L!Save(polyxRows, id, one)
                                   ELSE L!Save(L!Save(polyxRows, id, one), id, two)
  BY DEF L!SetBalance
<1>2. /\ DOMAIN one = PolyxColumns /\ DOMAIN two = PolyxColumns
      /\ one.event = "BalanceSet" /\ two.event = "BalanceSet"
      /\ one.from = NoOne /\ one.to = to /\ one.amount = free
  BY RowColumns
<1> HIDE DEF one, two
<1>3. CASE reserved = 0
  <2>1. polyxRows' = L!Insert(polyxRows, one)
    BY <1>1, <1>3 DEF L!Insert
  <2>2. L!Tells(one, m)
    BY <1>2, <1>3, ToldBy
  <2> QED  BY <1>2, <2>1, <2>2, AloneGrows
<1>4. CASE reserved # 0
  <2>1. L!Save(L!Save(polyxRows, id, one), id, two) = L!Save(polyxRows, id, two)
    <3> HIDE DEF id
    <3> QED  BY DEF L!Save
  <2>2. polyxRows' = L!Insert(polyxRows, two)
    BY <1>1, <1>4, <2>1 DEF L!Insert
  <2>3. m.kind = "BothSet"
    BY <1>4
  <2> QED  BY <1>2, <2>2, <2>3, AloneGrows
<1> QED  BY <1>3, <1>4

\* The share of the treasury of a transaction fee is not taken for that of a
\* protocol fee.
WithShare(table, n, from, fee) ==
  /\ Rowed(table, n + 1)
  /\ table[n] = L!Row("TreasuryReimbursement", primary[from], NoOne,
                      L!Grossed(L!Reimbursed(fee)))
  /\ \A id \in 0..(n - 1) : table[id] = polyxRows[id]
LEMMA ShareAdded ==
  ASSUME NEW n, NEW m, NEW from, NEW fee, Before(m, n), m.kind \in FeeKinds, m.amount = fee,
         NEW table \in L!AfterReimbursement(polyxRows, from, L!Reimbursed(fee))
  PROVE  WithShare(table, n, from, fee)
<1> DEFINE amount == L!Grossed(L!Reimbursed(fee))
           share == L!Row("TreasuryReimbursement", primary[from], NoOne, amount)
<1>1. \A id \in DOMAIN polyxRows :
        polyxRows[id].event = "FeeCharged" => polyxRows[id].amount # amount
  <2>1. L!Amounts(m) = {fee, amount} /\ Fresh(m)
    BY AmountsOf, MoveFresh
  <2> QED  BY <2>1 DEF Fresh
<1>2. Rowed(polyxRows, n)
  BY DEF Before
<1>3. PICK found \in L!Lookups(polyxRows, "FeeCharged") :
        \/ found = {} /\ table = L!Insert(polyxRows, share)
        \/ \E id \in found : table = IF polyxRows[id].amount = amount
                                    THEN polyxRows ELSE L!Insert(polyxRows, share)
  BY DEF L!AfterReimbursement
<1>4. \A id \in found : polyxRows[id].amount # amount
  BY <1>1, <1>2, LookupFacts DEF L!Of
<1>5. DOMAIN share = PolyxColumns
  BY RowColumns
<1> HIDE DEF amount, share
<1>6. table = L!Insert(polyxRows, share)
  BY <1>3, <1>4
<1> QED  BY <1>2, <1>5, <1>6, RowInserted DEF WithShare, share, amount

\* The fee of the transaction, which replaces a reimbursement, if it finds one.
LEMMA TransactionFeeGrows ==
  ASSUME NEW n, NEW m, NEW from \in Payer, NEW fee \in TxFee, L!PayTransactionFee(from, fee),
         Before(m, n), m.kind = "TransactionFee", m.from = from, m.to = NoOne, m.amount = fee
  PROVE  \E k : Grows(m, n, k)
<1> DEFINE amount == L!Grossed(L!Reimbursed(fee))
           share == L!Row("TreasuryReimbursement", primary[from], NoOne, amount)
           paid == L!Row("TransactionFeePaid", from, NoOne, fee)
<1>1. PICK table \in L!AfterReimbursement(polyxRows, from, L!Reimbursed(fee)) :
        polyxRows' \in L!AfterFeePaid(table, from, fee)
  BY DEF L!PayTransactionFee
<1>2. cDone' = TRUE
  BY DEF L!PayTransactionFee
<1>3. L!Simple' => n + 1 <= PageSize
  BY MoveFresh
<1>4. Rowed(polyxRows, n) /\ n \in Nat /\ DOMAIN polyxRows = 0..(n - 1)
  BY DEF Before, Rowed
<1>5. /\ share.event = "TreasuryReimbursement" /\ DOMAIN share = PolyxColumns
      /\ paid.event = "TransactionFeePaid" /\ paid.from = from /\ paid.to = NoOne
      /\ paid.amount = fee /\ DOMAIN paid = PolyxColumns
  BY RowColumns
<1>6. L!Tells(paid, m)
  BY <1>5, ToldBy
<1>13. m.kind \in FeeKinds
  BY DEF FeeKinds
<1>7. /\ Rowed(table, n + 1) /\ table[n] = share
      /\ \A id \in 0..(n - 1) : table[id] = polyxRows[id]
  <2>1. WithShare(table, n, from, fee)
    BY <1>1, <1>13, ShareAdded
  <2> QED  BY <2>1 DEF WithShare
<1>8. PICK found \in L!Lookups(table, "TreasuryReimbursement") :
        \/ found = {} /\ polyxRows' = L!Insert(table, paid)
        \/ \E id \in found : polyxRows' = [table EXCEPT ![id] = paid]
  BY <1>1 DEF L!AfterFeePaid
<1> HIDE DEF amount, share, paid
<1>9. /\ found \subseteq L!Of(table, "TreasuryReimbursement")
      /\ n + 1 <= PageSize => found = L!Of(table, "TreasuryReimbursement")
  BY <1>7, LookupFacts
<1>10. /\ n \in 0..((n + 1) - 1) /\ n <= n + 1 /\ \A id \in n..((n + 1) - 1) : id = n
       /\ DOMAIN table = 0..((n + 1) - 1)
       /\ \A id \in 0..((n + 1) - 1) : id \in 0..(n - 1) \/ id = n
       /\ \A id \in 0..(n - 1) : id \in 0..((n + 1) - 1)
  BY <1>4, <1>7 DEF Rowed
<1>11. CASE found = {} /\ polyxRows' = L!Insert(table, paid)
  <2>1. ~L!Simple'
    <3>1. n \in L!Of(table, "TreasuryReimbursement")
      BY <1>5, <1>7, <1>10 DEF L!Of
    <3> QED  BY <1>3, <1>9, <1>11, <3>1
  <2>2. /\ Rowed(polyxRows', (n + 1) + 1) /\ polyxRows'[n + 1] = paid
        /\ \A id \in 0..((n + 1) - 1) : polyxRows'[id] = table[id]
    BY <1>5, <1>7, <1>11, RowInserted
  <2>3. /\ n + 1 \in 0..(((n + 1) + 1) - 1) /\ n <= (n + 1) + 1
        /\ \A id \in n..(((n + 1) + 1) - 1) : id = n \/ id = n + 1
    BY <1>4
  <2>4. polyxRows'[n] = share /\ \A id \in 0..(n - 1) : polyxRows'[id] = polyxRows[id]
    BY <1>7, <1>10, <2>2
  <2> QED  BY <1>2, <1>5, <1>6, <2>1, <2>2, <2>3, <2>4 DEF Grows
<1>12. ASSUME NEW id \in found, polyxRows' = [table EXCEPT ![id] = paid]
       PROVE  Grows(m, n, n + 1)
  <2>2. id \in DOMAIN table /\ table[id].event = "TreasuryReimbursement"
    BY <1>9, <1>12 DEF L!Of
  <2>3. /\ DOMAIN polyxRows' = DOMAIN table /\ polyxRows'[id] = paid
        /\ \A j \in DOMAIN table : j # id => polyxRows'[j] = table[j]
    BY <1>12, <2>2
  <2>4. Rowed(polyxRows', n + 1)
    BY <1>5, <1>7, <2>3 DEF Rowed
  <2>5. L!Tells(polyxRows'[id], m) /\ id \in 0..((n + 1) - 1)
    BY <1>6, <1>10, <2>2, <2>3
  <2>6. ASSUME NEW j \in 0..(n - 1)
        PROVE  \/ polyxRows'[j] = polyxRows[j]
               \/ /\ polyxRows[j].event = "TreasuryReimbursement"
                  /\ polyxRows'[j].event = "TransactionFeePaid"
    BY <1>5, <1>7, <1>10, <2>2, <2>3
  <2>7. polyxRows'[n] = share \/ polyxRows'[n] = paid
    BY <1>7, <1>10, <2>3
  <2> QED  BY <1>2, <1>5, <1>10, <2>4, <2>5, <2>6, <2>7 DEF Grows
<1> QED  BY <1>8, <1>11, <1>12

\* A fee of which only the share of the treasury is told.
LEMMA OldTransactionFeeGrows ==
  ASSUME NEW n, NEW m, NEW from \in Payer, NEW fee \in TxFee,
         L!PayOldTransactionFee(from, fee), Before(m, n), m.kind = "OldTransactionFee",
         m.from = from, m.to = NoOne, m.amount = fee
  PROVE  Grows(m, n, n + 1)
<1> DEFINE amount == L!Grossed(L!Reimbursed(fee))
           share == L!Row("TreasuryReimbursement", primary[from], NoOne, amount)
<1>1. /\ polyxRows' \in L!AfterReimbursement(polyxRows, from, L!Reimbursed(fee))
      /\ cDone' = TRUE
  BY DEF L!PayOldTransactionFee
<1>2. /\ share.event = "TreasuryReimbursement" /\ share.from = primary[from]
      /\ share.to = NoOne /\ share.amount = amount
  BY RowColumns
<1>3. /\ Rowed(polyxRows', n + 1) /\ polyxRows'[n] = share
      /\ \A id \in 0..(n - 1) : polyxRows'[id] = polyxRows[id]
  <2>1. m.kind \in FeeKinds
    BY DEF FeeKinds
  <2>2. WithShare(polyxRows', n, from, fee)
    BY <1>1, <2>1, ShareAdded
  <2> QED  BY <2>2 DEF WithShare
<1>4. L!Tells(share, m)
  BY <1>2, ToldBy
<1> HIDE DEF share
<1>5. n \in 0..((n + 1) - 1) /\ n <= n + 1 /\ \A id \in n..((n + 1) - 1) : id = n
  BY DEF Before, Rowed
<1> QED  BY <1>1, <1>2, <1>3, <1>4, <1>5 DEF Grows

\* Every operation of an extrinsic.
LEMMA PolyxStep == PolyxInv /\ L!Next => PolyxInv'
<1> SUFFICES ASSUME PolyxInv, L!Next PROVE PolyxInv'
  OBVIOUS
<1> DEFINE Added(m) == /\ m \in AnyMove /\ cMoves' = Append(cMoves, m)
                       /\ UNCHANGED <<splitFees, primary>> /\ ~cDone
                       /\ m.kind \in FeeKinds => cDone'
                       /\ \A n : Before(m, n) => \E k : Grows(m, n, k)
<1>1. \E m : Added(m)
  <2>1. ASSUME NEW a \in Payer, NEW b \in Payer, NEW amount \in Amount, L!Transfer(a, b, amount)
        PROVE  Added(L!Move("Transfer", a, b, amount))
    <3>1. \A n : Before(L!Move("Transfer", a, b, amount), n) =>
                   \E k : Grows(L!Move("Transfer", a, b, amount), n, k)
      BY <2>1, TransferGrows
    <3> QED  BY <2>1, <3>1 DEF L!Transfer, L!Moves, L!Move, AnyMove, MoveKinds, FeeKinds, Paid, Party
  <2>2. ASSUME NEW a \in Payer, NEW amount \in Amount, L!Disburse(a, amount)
        PROVE  \E m : Added(m)
    <3> DEFINE m == L!Move(IF a \in cExists THEN "Disbursement" ELSE "FirstDisbursement",
                           Treasury, a, amount)
    <3>1. /\ m.kind = IF a \in cExists THEN "Disbursement" ELSE "FirstDisbursement"
          /\ m.from = Treasury /\ m.to = a /\ m.amount = amount
      BY DEF L!Move
    <3>2. \A n : Before(m, n) => \E k : Grows(m, n, k)
      <4> HIDE DEF m
      <4> QED  BY <2>2, <3>1, DisbursementGrows
    <3>3. /\ m \in AnyMove /\ cMoves' = Append(cMoves, m)
          /\ UNCHANGED <<splitFees, primary>> /\ ~cDone
      BY <2>2 DEF L!Disburse, L!Moves, L!Move, AnyMove, MoveKinds, FeeKinds, Paid, Party
    <3>4. m.kind \notin FeeKinds
      BY <3>1 DEF FeeKinds
    <3> HIDE DEF m
    <3> QED  BY <3>2, <3>3, <3>4
  <2>3. ASSUME NEW a \in Payer, NEW amount \in Amount, L!ChargeProtocolFee(a, amount)
        PROVE  \E m : Added(m)
    <3> DEFINE m == L!Move("ProtocolFee", a, NoOne, amount)
    <3>1. m.kind = "ProtocolFee" /\ m.from = a /\ m.to = NoOne /\ m.amount = amount
      BY DEF L!Move
    <3>2. \A n : Before(m, n) => \E k : Grows(m, n, k)
      <4> HIDE DEF m
      <4> QED  BY <2>3, <3>1, ProtocolFeeGrows
    <3>3. /\ m \in AnyMove /\ cMoves' = Append(cMoves, m)
          /\ UNCHANGED <<splitFees, primary>> /\ ~cDone
      BY <2>3 DEF L!ChargeProtocolFee, L!Moves, L!Move, AnyMove, MoveKinds, FeeKinds, Paid, Party
    <3> HIDE DEF m
    <3> QED  BY <3>1, <3>2, <3>3 DEF FeeKinds
  <2>4. ASSUME NEW a \in Payer \union {NoOne}, NEW b \in Payer \union {NoOne},
               NEW amount \in Amount, L!MoveAlone(a, b, amount)
        PROVE  \E m : Added(m)
    <3> DEFINE m == L!Move("Alone", a, b, amount)
               row == L!Row("Other", a, b, amount)
    <3>1. m.kind = "Alone" /\ m.from = a /\ m.to = b /\ m.amount = amount
      BY DEF L!Move
    <3>2. DOMAIN row = PolyxColumns /\ row.event = "Other" /\ L!Tells(row, m)
      BY <3>1, RowColumns, ToldBy
    <3>3. polyxRows' = L!Insert(polyxRows, row)
      BY <2>4 DEF L!MoveAlone
    <3>4. /\ m \in AnyMove /\ cMoves' = Append(cMoves, m)
          /\ UNCHANGED <<splitFees, primary>> /\ ~cDone
      BY <2>4 DEF L!MoveAlone, L!Moves, L!Move, AnyMove, MoveKinds, FeeKinds, Paid, Party
    <3> HIDE DEF m, row
    <3>5. \A n : Before(m, n) => \E k : Grows(m, n, k)
      BY <3>2, <3>3, AloneGrows
    <3> QED  BY <3>1, <3>4, <3>5 DEF FeeKinds
  <2>5. ASSUME NEW a \in Payer, NEW amount \in Amount, NEW reserved \in {0, 1},
               L!SetBalance(a, amount, reserved)
        PROVE  \E m : Added(m)
    <3> DEFINE m == L!Move(IF reserved = 0 THEN "Alone" ELSE "BothSet", NoOne, a, amount)
    <3>1. /\ m.kind = IF reserved = 0 THEN "Alone" ELSE "BothSet"
          /\ m.from = NoOne /\ m.to = a /\ m.amount = amount
      BY DEF L!Move
    <3>2. /\ m \in AnyMove /\ cMoves' = Append(cMoves, m)
          /\ UNCHANGED <<splitFees, primary>> /\ ~cDone
      BY <2>5 DEF L!SetBalance, L!Moves, L!Move, AnyMove, MoveKinds, FeeKinds, Paid, Party
    <3> HIDE DEF m
    <3>3. \A n : Before(m, n) => \E k : Grows(m, n, k)
      BY <2>5, <3>1, BalanceGrows
    <3>4. m.kind \notin FeeKinds
      BY <3>1 DEF FeeKinds
    <3> QED  BY <3>2, <3>3, <3>4
  <2>6. ASSUME NEW a \in Payer, NEW fee \in TxFee, L!PayTransactionFee(a, fee)
        PROVE  \E m : Added(m)
    <3> DEFINE m == L!Move("TransactionFee", a, NoOne, fee)
    <3>1. m.kind = "TransactionFee" /\ m.from = a /\ m.to = NoOne /\ m.amount = fee
      BY DEF L!Move
    <3>2. /\ m \in AnyMove /\ cMoves' = Append(cMoves, m)
          /\ UNCHANGED <<splitFees, primary>> /\ ~cDone
          /\ cDone'
      BY <2>6 DEF L!PayTransactionFee, L!Moves, L!Move, AnyMove, MoveKinds, FeeKinds, Paid, Party
    <3> HIDE DEF m
    <3>3. \A n : Before(m, n) => \E k : Grows(m, n, k)
      BY <2>6, <3>1, TransactionFeeGrows
    <3> QED  BY <3>2, <3>3
  <2>7. ASSUME NEW a \in Payer, NEW fee \in TxFee, L!PayOldTransactionFee(a, fee)
        PROVE  \E m : Added(m)
    <3> DEFINE m == L!Move("OldTransactionFee", a, NoOne, fee)
    <3>1. m.kind = "OldTransactionFee" /\ m.from = a /\ m.to = NoOne /\ m.amount = fee
      BY DEF L!Move
    <3>2. /\ m \in AnyMove /\ cMoves' = Append(cMoves, m)
          /\ UNCHANGED <<splitFees, primary>> /\ ~cDone
          /\ cDone'
      BY <2>7 DEF L!PayOldTransactionFee, L!Moves, L!Move, AnyMove, MoveKinds, FeeKinds, Paid, Party
    <3> HIDE DEF m
    <3>3. \A n : Before(m, n) => \E k : Grows(m, n, k)
      BY <2>7, <3>1, OldTransactionFeeGrows
    <3> QED  BY <3>2, <3>3
  <2> HIDE DEF Added
  <2> QED  BY <2>1, <2>2, <2>3, <2>4, <2>5, <2>6, <2>7 DEF L!Next
<1>2. PICK m : Added(m)
  BY <1>1
<1>3. PolyxTypes'
  <2>1. cMoves \in Seq(AnyMove) /\ m \in AnyMove /\ cMoves' = Append(cMoves, m)
    BY <1>2 DEF PolyxInv, PolyxTypes
  <2>2. cMoves' \in Seq(AnyMove)
    BY <2>1
  <2>3. ASSUME ~cDone', NEW i \in DOMAIN cMoves' PROVE cMoves'[i].kind \notin FeeKinds
    <3>1. (i \in DOMAIN cMoves /\ cMoves'[i] = cMoves[i]) \/ cMoves'[i] = m
      BY <2>1
    <3> QED  BY <1>2, <2>3, <3>1 DEF PolyxInv, PolyxTypes
  <2> QED  BY <2>2, <2>3 DEF PolyxTypes
<1>4. ASSUME L!Distinct' PROVE PolyxRowsSound'
  <2>1. L!Distinct
    BY <1>2, <1>4, DistinctBefore DEF PolyxInv, PolyxTypes
  <2>2. PICK n \in Nat :
          /\ Rowed(polyxRows, n) /\ Sourced(polyxRows, cMoves)
          /\ \A i \in DOMAIN cMoves : cMoves[i].kind # "BothSet" => ToldOf(cMoves[i])
          /\ L!Simple => n = Len(cMoves)
    BY <2>1 DEF PolyxInv, PolyxRowsSound
  <2>3. Before(m, n)
    BY <1>2, <1>4, <2>2 DEF Before, PolyxInv
  <2>4. PICK k : Grows(m, n, k)
    BY <1>2, <2>3
  <2> QED  BY <2>3, <2>4, MoveAdded
<1> QED  BY <1>3, <1>4 DEF PolyxInv

\* Nothing has moved at first.
LEMMA PolyxInit == L!Init => PolyxInv
<1> SUFFICES ASSUME L!Init PROVE PolyxInv
  OBVIOUS
<1>1. cMoves = << >> /\ DOMAIN polyxRows = {}
  BY DEF L!Init, L!NoTable
<1>2. 0 \in Nat /\ Rowed(polyxRows, 0) /\ Sourced(polyxRows, cMoves)
  BY <1>1 DEF Rowed, Sourced
<1>3. PolyxRowsSound
  BY <1>1, <1>2 DEF PolyxRowsSound
<1> QED  BY <1>1, <1>3 DEF PolyxInv, PolyxTypes

\* The invariant of the movements holds in every state of the registers.
LEMMA PolyxAlways == Spec => []PolyxInv
<1>1. Init => PolyxInv
  BY PolyxInit DEF Init
<1>2. PolyxInv /\ [Next]_vars => PolyxInv'
  <2> SUFFICES ASSUME PolyxInv, [Next]_vars PROVE PolyxInv'
    OBVIOUS
  <2>1. L!Next \/ UNCHANGED polyxVars
    BY DEF Next, Only, vars, Rules
  <2>2. CASE L!Next
    BY <2>2, PolyxStep
  <2>3. CASE UNCHANGED polyxVars
    <3>1. /\ splitFees' = splitFees /\ cMoves' = cMoves /\ cDone' = cDone
          /\ polyxRows' = polyxRows /\ primary' = primary
      BY <2>3 DEF polyxVars
    <3>2. PolyxTypes' <=> PolyxTypes
      BY <3>1 DEF PolyxTypes
    <3>3. L!Distinct' <=> L!Distinct
      BY <3>1 DEF L!Distinct, L!Index, L!Amounts, L!Grossed, L!Reimbursed
    <3>4. L!Simple' <=> L!Simple
      BY <3>1 DEF L!Simple, L!Index, L!Whole, L!Kinds
    <3>5. \A m : ToldOf(m)' <=> ToldOf(m)
      BY <3>1 DEF ToldOf, L!Tells, L!Shown, L!Grossed, L!Reimbursed
    <3>6. PolyxRowsSound => PolyxRowsSound'
      BY <3>1, <3>4, <3>5 DEF PolyxRowsSound
    <3> QED  BY <3>2, <3>3, <3>6 DEF PolyxInv
  <2> QED  BY <2>1, <2>2, <2>3
<1> QED  BY <1>1, <1>2, PTL DEF Spec

\* In every state of an extrinsic whose amounts differ each movement is told by
\* a row, whatever events it comes with and whichever row a query returns
\* first, and a simple extrinsic has as many rows as movements.
THEOREM MovesAlwaysTold == Spec => []MovesTold
<1> SUFFICES ASSUME PolyxInv PROVE MovesTold
  BY PolyxAlways, PTL
<1> SUFFICES ASSUME L!Distinct
             PROVE  /\ \A i \in L!Index : cMoves[i].kind # "BothSet" =>
                         \E id \in DOMAIN polyxRows : L!Tells(polyxRows[id], cMoves[i])
                    /\ L!Simple => L!Cardinality(DOMAIN polyxRows) = Len(cMoves)
  BY DEF MovesTold, L!MovesTold
<1>1. PICK n \in Nat :
        /\ Rowed(polyxRows, n)
        /\ \A i \in DOMAIN cMoves : cMoves[i].kind # "BothSet" => ToldOf(cMoves[i])
        /\ L!Simple => n = Len(cMoves)
  BY DEF PolyxInv, PolyxRowsSound
<1>2. L!Cardinality(DOMAIN polyxRows) = n
  <2>1. DOMAIN polyxRows = 0..(n - 1) /\ Cardinality(0..(n - 1)) = n
    BY <1>1, FS_Interval DEF Rowed
  <2>2. L!Cardinality(DOMAIN polyxRows) = Cardinality(DOMAIN polyxRows)
    BY DEF L!Cardinality, Cardinality
  <2> QED  BY <2>1, <2>2
<1> QED  BY <1>1, <1>2 DEF ToldOf, L!Index
=============================================================================
