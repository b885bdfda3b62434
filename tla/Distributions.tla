---------------------------- MODULE Distributions ----------------------------
(***************************************************************************)
(* Capital distributions and what is paid of them                          *)
(* (src/mappings/entities/assets/mapCorporateActions.ts and                *)
(* src/utils/distributions.ts).                                            *)
(***************************************************************************)
EXTENDS Store, FiniteSets, FiniteSetsExt, Functions

CONSTANTS
  Dist,         \* distributions
  Target,       \* who may claim
  Benefit,      \* amounts claimed
  TaxRate,      \* in parts of Million
  Million       \* 1000000 in the code

VARIABLES
  cDist,        \* the pallet: [account, left, claims]
  distribution, \* Distribution rows: [taxes, remaining]
  payment,      \* DistributionPayment rows, by event
  stopped       \* a handler has thrown

vars == <<cDist, distribution, payment, stopped>>

\* What a distribution holds at first.
Total == Max(Benefit) * Cardinality(Target)

Init ==
  /\ cDist = NoTable /\ distribution = NoTable /\ payment = {} /\ stopped = FALSE

Active(d) == ~stopped /\ Has(cDist, d) /\ cDist[d].state = "open"

\* From an account: no row.  The number of a corporate action is not used again.
handleDistributionCreated(d, account) ==
  /\ ~stopped /\ ~Has(cDist, d)
  /\ cDist' = Save(cDist, d, [account |-> account, left |-> Total, claims |-> {},
                              state |-> "open"])
  /\ distribution' = IF account THEN distribution
                     ELSE Save(distribution, d, [taxes |-> 0, remaining |-> Total])
  /\ UNCHANGED <<payment, stopped>>

\* Before anything was paid.
handleDistributionRemoved(d) ==
  /\ Active(d) /\ cDist[d].claims = {}
  /\ cDist' = [cDist EXCEPT ![d].state = "removed"]
  /\ distribution' = Delete(distribution, {d})
  /\ UNCHANGED <<payment, stopped>>

TaxAmount(amount, tax) == (amount * tax) \div Million

Payment(d, target, amount, taxAmount, reclaimed) ==
  [distribution |-> d, target |-> target, amount |-> amount,
   amountAfterTax |-> amount - taxAmount, reclaimed |-> reclaimed]

\* Mutant: the taxes are those of the last claim.
Withheld_Last(taxes, taxAmount) == taxAmount
Withheld(taxes, taxAmount) == taxes + taxAmount

\* There must be a row.
handleBenefitClaimed(d, target, amount, tax) ==
  LET taxAmount == TaxAmount(amount, tax)
  IN /\ Active(d) /\ target \notin {c.target : c \in cDist[d].claims}
     /\ amount <= cDist[d].left
     /\ cDist' = [cDist EXCEPT ![d].left = @ - amount,
                               ![d].claims = @ \union {[target |-> target, paid |-> amount - taxAmount,
                                                        tax |-> taxAmount]}]
     /\ IF ~Has(distribution, d) THEN stopped' = TRUE /\ UNCHANGED <<distribution, payment>>
        ELSE /\ distribution' = [distribution EXCEPT ![d].taxes = Withheld(@, taxAmount)]
             /\ payment' = payment \union {Payment(d, target, amount, taxAmount, FALSE)}
             /\ UNCHANGED stopped

\* After the end, by its creator, whether there is a row or not.
handleReclaimed(d, agent) ==
  /\ Active(d)
  /\ cDist' = [cDist EXCEPT ![d].left = 0, ![d].state = "reclaimed"]
  /\ payment' = payment \union {Payment(d, agent, cDist[d].left, 0, TRUE)}
  /\ UNCHANGED <<distribution, stopped>>

Next ==
  \E d \in Dist :
    \/ \E account \in BOOLEAN : handleDistributionCreated(d, account)
    \/ handleDistributionRemoved(d)
    \/ \E t \in Target :
         \/ handleReclaimed(d, t)
         \/ \E amount \in Benefit, tax \in TaxRate : handleBenefitClaimed(d, t, amount, tax)

Spec == Init /\ [][Next]_vars

-----------------------------------------------------------------------------
Paid(d) == {p \in payment : p.distribution = d}
SumOf(set, f(_)) == SumFunctionOnSet([p \in set |-> f(p)], set)

\* Unless a claim of a distribution from an account has stopped the indexer,
\* the taxes of a distribution are what its payments lack after tax, its
\* payments are the claims of the chain, and what it was created with less its
\* payments is what is left of it: its own row never shows that.
DistributionsAddUp ==
  ~stopped => \A d \in DOMAIN distribution :
    LET claims == {p \in Paid(d) : ~p.reclaimed}
    IN /\ distribution[d].taxes = SumOf(claims, LAMBDA p : p.amount - p.amountAfterTax)
       /\ distribution[d].taxes = SumOf(cDist[d].claims, LAMBDA c : c.tax)
       /\ distribution[d].remaining - SumOf(Paid(d), LAMBDA p : p.amount) = cDist[d].left
       /\ {[target |-> p.target, paid |-> p.amountAfterTax, tax |-> p.amount - p.amountAfterTax]
             : p \in claims} = cDist[d].claims
=============================================================================
