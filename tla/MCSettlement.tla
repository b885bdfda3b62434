---------------------------- MODULE MCSettlement ----------------------------
(* Instances of Settlement for TLC. *)
EXTENDS Settlement, TLC

CONSTANTS i1, i2, d1, d2, m1, a1, a2

Leg(from, fromHold, to, toHold) ==
  [from |-> from, fromHold |-> fromHold, to |-> to, toHold |-> toHold]

\* One holding per party: a portfolio against an account.
OneLeg == i1 :> <<Leg(d1, 0, d2, a1)>>
\* Two instructions, the second with an off-chain leg.
TwoInstructions == i1 :> <<Leg(d1, 0, d2, a1)>>
                   @@ i2 :> <<Leg(d2, OffChain, d1, OffChain), Leg(d1, 1, d2, 1)>>
\* Two plain instructions.
TwoPlain == i1 :> <<Leg(d1, 0, d2, 0)>> @@ i2 :> <<Leg(d1, 1, d2, 1)>>
\* A party with two portfolios, or with two accounts.
TwoPortfolios == i1 :> <<Leg(d1, 0, d2, 0), Leg(d1, 1, d2, 0)>>
TwoAccounts == i1 :> <<Leg(d1, a1, d2, 0), Leg(d1, a2, d2, 0)>>
\* A party with a portfolio in one leg and an off-chain side in a later one.
OffChainAfter == i1 :> <<Leg(d1, 0, d2, 0), Leg(d1, OffChain, d2, OffChain)>>

Setup(legs, mediators, private, era, maxBlock) ==
  [legs |-> legs, private |-> private, era |-> era, maxBlock |-> maxBlock,
   mediators |-> [i \in DOMAIN legs |-> IF i = i1 THEN mediators ELSE {}]]

\* Every era and kind of chain, with blocks of several operations: an automatic
\* affirmation may be withdrawn, and another instruction follow, in one block.
SoundSetups ==
  { Setup(TwoInstructions, {m1}, TRUE, "late", 1),
    Setup(OneLeg, {m1}, TRUE, "late", 3),
    Setup(OneLeg, {m1}, FALSE, "late", 3),
    Setup(TwoPlain, {}, FALSE, "early", 2),
    Setup(TwoPortfolios, {}, FALSE, "turn", 2),
    Setup(TwoPlain, {}, FALSE, "late", 4),
    Setup(OneLeg, {}, FALSE, "unauthorize", 2) }

\* A party withdraws one of two portfolios.
WithdrawnSetups == { Setup(TwoPortfolios, {}, TRUE, "late", 1) }

\* A party has a portfolio in one leg and an off-chain side in a later one.
MixedLegsSetups == { Setup(OffChainAfter, {}, TRUE, "late", 1) }

\* A public chain where an instruction follows a withdrawal in one block.
RescanSetups == { Setup(TwoPlain, {}, FALSE, "late", 4) }

\* A chain with the old event of a withdrawal.
UnauthorizedSetups == { Setup(OneLeg, {}, FALSE, "unauthorize", 1) }

\* Others under which a table and the chain part: see the README.
AccountsSetups == { Setup(TwoAccounts, {}, TRUE, "late", 1) }
ConcurrentSetups == { Setup(TwoPortfolios, {}, FALSE, "early", 1) }
=============================================================================
