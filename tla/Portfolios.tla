----------------------------- MODULE Portfolios -----------------------------
(***************************************************************************)
(* The portfolios of one identity (src/mappings/entities/identities/       *)
(* mapPortfolio.ts) and the legs of instructions that name them            *)
(* (prepareLegCreateParams in settlements/mapSettlement.ts), also before   *)
(* the identity or the portfolio exists.                                   *)
(***************************************************************************)
EXTENDS Store

CONSTANTS
  MaxNumber,    \* bound on the portfolio numbers; 0 is the default portfolio
  Name,         \* names a portfolio may be given
  NoName,       \* the empty name of a portfolio made up for a leg
  Custodian, NoCustodian   \* NoName and NoCustodian are no name and no custodian

VARIABLES
  is7xChain,    \* whether the block is of a chain from 7.0.0 on
  cPortfolio,   \* the pallet: [name, custodian, deleted], by number; the
                \* identity is the one that has the default portfolio
  identity,     \* whether the identity has a row
  portfolio,    \* Portfolio rows of the identity, like those of the pallet
  leg           \* the portfolio numbers of the Leg rows, and whether the leg is
                \* of a chain from 7.0.0 on

vars == <<is7xChain, cPortfolio, identity, portfolio, leg>>

Number == 0..MaxNumber
New(name) == [name |-> name, custodian |-> NoCustodian, deleted |-> FALSE]

Init ==
  /\ is7xChain = FALSE
  /\ cPortfolio = NoTable
  /\ identity = FALSE /\ portfolio = NoTable
  /\ leg = {}

Live(n) == Has(cPortfolio, n) /\ ~cPortfolio[n].deleted

Upgrade ==
  /\ ~is7xChain
  /\ is7xChain' = TRUE
  /\ UNCHANGED <<cPortfolio, identity, portfolio, leg>>

\* getPortfolio throws when the placeholder of an identity has no portfolio 0.
handleDidCreated ==
  /\ ~Has(cPortfolio, 0)
  /\ cPortfolio' = Save(cPortfolio, 0, New(NoName))
  /\ identity' = TRUE
  /\ IF identity THEN Has(portfolio, 0) /\ UNCHANGED portfolio
                 ELSE portfolio' = Save(portfolio, 0, New(NoName))
  /\ UNCHANGED <<is7xChain, leg>>

\* A row made up for a leg is completed, and keeps its other columns.
handlePortfolioCreated(n, name) ==
  /\ Has(cPortfolio, 0)
  /\ n = CHOOSE m \in 1..(MaxNumber + 1) : m \notin DOMAIN cPortfolio
                                            /\ 1..(m - 1) \subseteq DOMAIN cPortfolio
  /\ cPortfolio' = Save(cPortfolio, n, New(name))
  /\ portfolio' = IF Has(portfolio, n) THEN [portfolio EXCEPT ![n].name = name]
                                       ELSE Save(portfolio, n, New(name))
  /\ UNCHANGED <<is7xChain, identity, leg>>

\* getPortfolio throws when there is no row.
handlePortfolioRenamed(n, name) ==
  /\ n > 0 /\ Live(n) /\ Has(portfolio, n)
  /\ cPortfolio' = [cPortfolio EXCEPT ![n].name = name]
  /\ portfolio' = [portfolio EXCEPT ![n].name = name]
  /\ UNCHANGED <<is7xChain, identity, leg>>

\* The row stays, with the time of the deletion.
handlePortfolioDeleted(n) ==
  /\ n > 0 /\ Live(n) /\ Has(portfolio, n)
  /\ cPortfolio' = [cPortfolio EXCEPT ![n].deleted = TRUE]
  /\ portfolio' = [portfolio EXCEPT ![n].deleted = TRUE]
  /\ UNCHANGED <<is7xChain, identity, leg>>

handlePortfolioCustodianChanged(n, custodian) ==
  /\ Live(n) /\ Has(portfolio, n)
  /\ cPortfolio' = [cPortfolio EXCEPT ![n].custodian = custodian]
  /\ portfolio' = [portfolio EXCEPT ![n].custodian = custodian]
  /\ UNCHANGED <<is7xChain, identity, leg>>

\* createIdentityIfNotExists
IdentityPortfolios == IF identity THEN portfolio ELSE Save(portfolio, 0, New(NoName))

\* Mutant: the row is created also when there is one.
CreatePortfolioIfNotExists_Always(n) ==
  /\ identity' = TRUE
  /\ portfolio' = Save(IdentityPortfolios, n, New(NoName))

CreatePortfolioIfNotExists(n) ==
  /\ identity' = TRUE
  /\ portfolio' = IF Has(IdentityPortfolios, n) THEN IdentityPortfolios
                  ELSE Save(IdentityPortfolios, n, New(NoName))

\* prepareLegCreateParams: a leg of an instruction names the portfolio n, which
\* may not exist.  0 counts as no portfolio.
CreateLeg(n) ==
  /\ leg' = leg \union {<<n, is7xChain>>}
  /\ IF is7xChain /\ n # 0 THEN CreatePortfolioIfNotExists(n)
                           ELSE UNCHANGED <<identity, portfolio>>
  /\ UNCHANGED <<is7xChain, cPortfolio>>

Next ==
  \/ Upgrade \/ handleDidCreated
  \/ \E n \in Number :
       \/ \E name \in Name : handlePortfolioCreated(n, name)
                             \/ handlePortfolioRenamed(n, name)
       \/ handlePortfolioDeleted(n)
       \/ \E custodian \in Custodian : handlePortfolioCustodianChanged(n, custodian)
       \/ CreateLeg(n)

Spec == Init /\ [][Next]_vars

-----------------------------------------------------------------------------
\* Rows that a leg makes the handlers make up: the portfolio it names, and with
\* it the default portfolio of an identity that is not known.
MadeUp(n) == \E l \in leg : l[2] /\ l[1] # 0 /\ n \in {0, l[1]}

\* Every portfolio of the chain has its row and the row is up to date, whatever
\* legs named it before or name it in the meantime; a deleted portfolio keeps its
\* row, to which old legs still refer, and no leg brings it back.  A row of no
\* portfolio is one that a leg made up, and it is empty; from 7.0.0 on a leg that
\* names a numbered portfolio has made sure of its row.  A known identity has
\* its default portfolio, which its creation reads.
PortfoliosMirrorChain ==
  /\ \A n \in DOMAIN cPortfolio : Has(portfolio, n) /\ portfolio[n] = cPortfolio[n]
  /\ \A n \in DOMAIN portfolio \ DOMAIN cPortfolio : MadeUp(n) /\ portfolio[n] = New(NoName)
  /\ \A l \in leg : l[2] /\ l[1] # 0 => Has(portfolio, l[1])
  /\ identity <=> Has(portfolio, 0)

\* "Older versions did not ensure the existence of sender and receivers, so
\* entries may need to be added" (mapSettlement.ts:56): the portfolio of every leg
\* has a row.  The code adds it from 7.0.0 on only.
LegsResolve == \A l \in leg : Has(portfolio, l[1])
=============================================================================
