------------------------------- MODULE Genesis -------------------------------
(***************************************************************************)
(* The import of the genesis state                                         *)
(* (src/mappings/migrations/genesisHandler.ts): three branches under one   *)
(* Promise.all, of which one queries identities and writes them, and one   *)
(* queries the multisigs and, for each, reads the row of its creator.  A   *)
(* query that fails rejects the whole, and handleGenesis                   *)
(* (src/mappings/mappingHandlers.ts) logs that and goes on; the other      *)
(* branches run on.  A write lands some time after it was started.         *)
(***************************************************************************)
EXTENDS Integers, FiniteSets

CONSTANTS
  GcDid,        \* the identities that are looked up
  SystemDid,    \* the systematic issuers, known beforehand
  Key, NoKey,   \* NoKey stands for '', and is not a key
  MultiSig, Signer

GenesisDid == GcDid \union SystemDid

VARIABLES
  is7xChainAtGenesis,
  cPrimary,     \* the primary key of each identity, NoKey for one there is not
  cSecondary,   \* the secondary keys of those looked up
  cCreator,     \* who created each multisig; all have every Signer
  dids, sigs,   \* where the branches are
  todo,         \* multisigs still to be read
  current,      \* the one being read, with its creator's account as found
  flight,       \* writes that were started
  rows,         \* writes that have landed
  outcome       \* of handleGenesis

chain == <<is7xChainAtGenesis, cPrimary, cSecondary, cCreator>>
vars == <<chain, dids, sigs, todo, current, flight, rows, outcome>>

None == <<>>

Known == {d \in GenesisDid : cPrimary[d] # NoKey}
KeysOf(d) == {cPrimary[d]} \union IF d \in GcDid THEN cSecondary[d] ELSE {}

\* A key belongs to one identity.
Init ==
  /\ is7xChainAtGenesis \in BOOLEAN
  /\ cPrimary \in {f \in [GenesisDid -> Key \union {NoKey}] : \A d \in SystemDid : f[d] # NoKey}
  /\ cSecondary \in [GcDid -> SUBSET Key]
  /\ \A d \in GcDid : d \notin Known => cSecondary[d] = {}
  /\ \A d, e \in Known : d # e => KeysOf(d) \cap KeysOf(e) = {}
  /\ cCreator \in [MultiSig -> Known]
  /\ dids = "query" /\ sigs = "query" /\ todo = {} /\ current = None
  /\ flight = {<<"Block", 0>>} /\ rows = {} /\ outcome = "running"

-----------------------------------------------------------------------------
\* What handleGenesisDids writes: every identity with a portfolio, one that is
\* not on the chain too, and account and permissions, here one row, for the keys
\* looked up.
DidWrites ==
  {<<"Identity", d, cPrimary[d]>> : d \in GenesisDid}
  \union ({"Portfolio"} \X GenesisDid)
  \union UNION {{<<"Account", d, key>> : key \in KeysOf(d)} :
                  d \in {x \in GcDid : cPrimary[x] # NoKey}}

\* What handleMultiSigs writes of one; the writes of admins are not awaited.
SigWrites(m, account) ==
  {<<"MultiSig", m, cCreator[m], account>>}
  \union ({"Signer"} \X {m} \X Signer)
  \union IF is7xChainAtGenesis THEN {<<"Admin", m, cCreator[m]>>} ELSE {}

Sigs == {"MultiSig", "Signer"}
\* Mutant: the writes of signers are not awaited either.
Awaited_NoSigners == {"MultiSig"}
Awaited == Sigs

\* What Identity.get finds of a creator.
PrimaryAccount(d) ==
  IF <<"Identity", d, cPrimary[d]>> \in rows THEN cPrimary[d] ELSE NoKey

Landed(kinds) == \A w \in flight : w[1] \notin kinds

Fail == outcome' = IF outcome = "running" THEN "logged" ELSE outcome

Land(w) ==
  /\ flight' = flight \ {w} /\ rows' = rows \union {w}
  /\ UNCHANGED <<chain, dids, sigs, todo, current, outcome>>

QueryDids ==
  /\ dids = "query"
  /\ dids' = "writing" /\ flight' = flight \union DidWrites
  /\ UNCHANGED <<chain, sigs, todo, current, rows, outcome>>

QueryDidsFails ==
  /\ dids = "query" /\ dids' = "failed" /\ Fail
  /\ UNCHANGED <<chain, sigs, todo, current, flight, rows>>

DidsDone ==
  /\ dids = "writing" /\ Landed({"Identity", "Portfolio", "Account"})
  /\ dids' = "done"
  /\ UNCHANGED <<chain, sigs, todo, current, flight, rows, outcome>>

QueryMultiSigs ==
  /\ sigs = "query"
  /\ sigs' = "reading" /\ todo' = MultiSig
  /\ UNCHANGED <<chain, dids, current, flight, rows, outcome>>

GetCreator(m) ==
  /\ sigs = "reading" /\ current = None
  /\ todo' = todo \ {m} /\ current' = <<m, PrimaryAccount(cCreator[m])>>
  /\ UNCHANGED <<chain, dids, sigs, flight, rows, outcome>>

\* Signers and required signatures have come: the writes are started.
WriteMultiSig ==
  /\ current # None
  /\ flight' = flight \union SigWrites(current[1], current[2])
  /\ current' = None
  /\ UNCHANGED <<chain, dids, sigs, todo, rows, outcome>>

QueryMultiSigsFails ==
  /\ sigs = "query" \/ current # None
  /\ sigs' = "failed" /\ current' = None /\ Fail
  /\ UNCHANGED <<chain, dids, todo, flight, rows>>

SigsDone ==
  /\ sigs = "reading" /\ todo = {} /\ current = None /\ Landed(Awaited)
  /\ sigs' = "done"
  /\ UNCHANGED <<chain, dids, todo, current, flight, rows, outcome>>

genesisHandlerReturns ==
  /\ outcome = "running"
  /\ dids = "done" /\ sigs = "done" /\ Landed({"Block"})
  /\ outcome' = "ok"
  /\ UNCHANGED <<chain, dids, sigs, todo, current, flight, rows>>

Next ==
  \/ \E w \in flight : Land(w)
  \/ QueryDids \/ QueryDidsFails \/ DidsDone
  \/ QueryMultiSigs \/ QueryMultiSigsFails \/ SigsDone
  \/ \E m \in todo : GetCreator(m)
  \/ WriteMultiSig
  \/ genesisHandlerReturns

Spec == Init /\ [][Next]_vars

-----------------------------------------------------------------------------
(* The genesis state of the chain, as rows should tell it.                 *)

IdentityFacts(d) == {<<"Identity", d, cPrimary[d]>>, <<"Portfolio", d>>}
AccountFacts(d) == {"Account"} \X {d} \X KeysOf(d)
SignerFacts(m) == {"Signer"} \X {m} \X Signer
AdminFact(m) == <<"Admin", m, cCreator[m]>>
MultiSigFact(m) == <<"MultiSig", m, cCreator[m], cPrimary[cCreator[m]]>>
Facts ==
  {<<"Block", 0>>}
  \union (UNION {IdentityFacts(d) \union AccountFacts(d) : d \in Known})
  \union (UNION {SignerFacts(m) \union {MultiSigFact(m)} : m \in MultiSig})
  \union IF is7xChainAtGenesis THEN {AdminFact(m) : m \in MultiSig} ELSE {}

\* Rows that are no facts: an identity that was looked up and is not on the
\* chain, and a multisig whose creator was read before its row landed.
Phantoms == UNION {{<<"Identity", d, NoKey>>, <<"Portfolio", d>>} : d \in GcDid \ Known}
Blank(m) == <<"MultiSig", m, cCreator[m], NoKey>>

\* When genesisHandler returns and no error was logged, all the identities of the
\* chain and all multisigs are there, with all keys and signers, but for the keys
\* of systematic issuers; admins are at worst still being written, and the account
\* of a creator is missing where it was read too early.  Whatever failed, a row
\* tells what the genesis state has, but for identities that were looked up and
\* do not exist and those missing accounts; and no multisig is there twice.
GenesisImported ==
  /\ outcome = "ok" =>
       /\ \A d \in Known : IdentityFacts(d) \subseteq rows
       /\ \A d \in Known \intersect GcDid : AccountFacts(d) \subseteq rows
       /\ \A m \in MultiSig :
            /\ {MultiSigFact(m), Blank(m)} \intersect rows # {}
            /\ SignerFacts(m) \subseteq rows
            /\ is7xChainAtGenesis => AdminFact(m) \in rows \union flight
  /\ rows \subseteq Facts \union Phantoms \union {Blank(m) : m \in MultiSig}
  /\ \A m \in MultiSig : Cardinality({w \in rows : w[1] = "MultiSig" /\ w[2] = m}) <= 1

\* "For each DID here, it adds an insert in [...] Account - adds entry for the
\* primary account" (genesisHandler.ts:50), of the governance committee and of the
\* systematic issuers.  The code adds it for the former only.
EveryDidHasAccount ==
  outcome = "ok" => \A d \in Known : <<"Account", d, cPrimary[d]>> \in rows
=============================================================================
