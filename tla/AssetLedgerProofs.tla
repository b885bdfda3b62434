------------------------- MODULE AssetLedgerProofs -------------------------
(***************************************************************************)
(* Proofs about AssetLedger, for any number of identities, portfolios and  *)
(* accounts, any amounts and both generations of events: the supply is     *)
(* what the holders hold, a holder has what its holdings have on the       *)
(* chain, and, as long as only the owner issues on the old chain, the      *)
(* transactions and movements explain every holding.                       *)
(***************************************************************************)
EXTENDS AssetLedger, FoldProofs

\* The holdings of an identity.
Of(did) == {h \in Holding : h[1] = did}

IsAmounts(table) == DOMAIN table \subseteq Did /\ Ints(table, DOMAIN table)

Types ==
  /\ cOld \in BOOLEAN /\ cHeld \in [Holding -> Int]
  /\ cOwner \in Did \union {NoDid}
  /\ asset \in [ownerId : Did \union {NoDid}, totalSupply : Int]
  /\ IsAmounts(holder)

\* Nothing is held before the creation, which starts the supply from nothing.
Unissued == cOwner = NoDid => asset.totalSupply = 0 /\ \A h \in Holding : cHeld[h] = 0

LedgerInv ==
  /\ Types /\ asset.ownerId = cOwner /\ Unissued
  /\ SupplyIsHeld /\ HoldersMirrorChain

-----------------------------------------------------------------------------
(* What a credit and a movement do to the sums.                            *)

\* The holdings of an identity are finitely many.
LEMMA FiniteHoldings ==
  /\ IsFiniteSet(Holding)
  /\ \A did : IsFiniteSet(Of(did)) /\ Of(did) \subseteq Holding
<1>1. IsFiniteSet(Portfolio \union Account)
  BY LedgerAssumption, FS_Union
<1>2. IsFiniteSet(Holding)
  BY <1>1, LedgerAssumption, FS_Product DEF Holding
<1> QED  BY <1>2, FS_Subset DEF Of

\* A credit adds to the amount of one identity, and to the sum.
LEMMA CreditAdds ==
  ASSUME NEW table, IsAmounts(table), NEW did \in Did, NEW n \in Int
  PROVE  /\ IsAmounts(Credit(table, did, n))
         /\ Amount(Credit(table, did, n), did) = Amount(table, did) + n
         /\ \A d \in Did \ {did} : Amount(Credit(table, did, n), d) = Amount(table, d)
         /\ SumFunction(table) \in Int
         /\ SumFunction(Credit(table, did, n)) = SumFunction(table) + n
<1> DEFINE row == Amount(table, did) + n
           new == Save(table, did, row)
<1>1. Credit(table, did, n) = new
  BY DEF Credit
<1>2. Amount(table, did) \in Int
  BY DEF Amount, Has, IsAmounts, Ints
<1>3. DOMAIN new = DOMAIN table \union {did}
  BY DEF Save
<1>4. new[did] = row /\ \A d \in DOMAIN table \ {did} : new[d] = table[d]
  BY DEF Save
<1>5. row \in Int
  BY <1>2
<1> HIDE DEF new, row
<1>6. IsAmounts(new)
  BY <1>3, <1>4, <1>5 DEF IsAmounts, Ints
<1>7. Amount(new, did) = row /\ \A d \in Did \ {did} : Amount(new, d) = Amount(table, d)
  BY <1>3, <1>4 DEF Amount, Has
<1>8. SumFunction(table) \in Int
      /\ SumFunction(new) = SumFunction(table) + row - Amount(table, did)
  <2>1. IsFiniteSet(DOMAIN table) /\ Ints(table, DOMAIN table)
    BY LedgerAssumption, FS_Subset DEF IsAmounts
  <2>2. SumFunctionOnSet(new, DOMAIN table \union {did}) =
          SumFunctionOnSet(table, DOMAIN table) + row
            - (IF did \in DOMAIN table THEN table[did] ELSE 0)
    BY <1>4, <1>5, <2>1, SumPut
  <2>3. SumFunctionOnSet(table, DOMAIN table) \in Int
    BY <2>1, SumUnfold
  <2> QED  BY <1>3, <2>2, <2>3 DEF SumFunction, Amount, Has
<1>9. SumFunction(new) = SumFunction(table) + n
  BY <1>2, <1>8 DEF row
<1> QED  BY <1>1, <1>6, <1>7, <1>8, <1>9 DEF row

\* An amount that changes by d changes the sum by d.
LEMMA SumChange ==
  ASSUME NEW S, IsFiniteSet(S), NEW fun, NEW gun, Ints(fun, S), NEW x, NEW d \in Int,
         x \in S => gun[x] = fun[x] + d, \A y \in S \ {x} : gun[y] = fun[y]
  PROVE  /\ SumFunctionOnSet(fun, S) \in Int
         /\ SumFunctionOnSet(gun, S) = SumFunctionOnSet(fun, S) + (IF x \in S THEN d ELSE 0)
<1>1. SumFunctionOnSet(fun, S) \in Int
  BY SumUnfold
<1>2. CASE x \in S
  <2>1. S \union {x} = S /\ fun[x] \in Int /\ gun[x] = fun[x] + d
    BY <1>2 DEF Ints
  <2>2. gun[x] \in Int
    BY <2>1
  <2>3. SumFunctionOnSet(gun, S \union {x}) =
          SumFunctionOnSet(fun, S) + gun[x] - (IF x \in S THEN fun[x] ELSE 0)
    BY <2>2, SumPut
  <2>4. SumFunctionOnSet(gun, S) = SumFunctionOnSet(fun, S) + gun[x] - fun[x]
    BY <1>2, <2>1, <2>3
  <2>5. \A a, b \in Int : a + (b + d) - b = a + d
    OBVIOUS
  <2>6. SumFunctionOnSet(gun, S) = SumFunctionOnSet(fun, S) + d
    BY <1>1, <2>1, <2>4, <2>5
  <2> QED  BY <1>1, <1>2, <2>6
<1>3. CASE x \notin S
  <2>1. \A y \in S : gun[y] = fun[y]
    BY <1>3
  <2>2. SumFunctionOnSet(fun, S) = SumFunctionOnSet(gun, S)
    BY <2>1, SumAgree
  <2> QED  BY <1>1, <1>3, <2>2
<1> QED  BY <1>2, <1>3

\* A movement changes what its two identities have.
LEMMA MovedSums ==
  ASSUME NEW f \in [Holding -> Int], NEW n \in Int, NEW did \in Did,
         NEW from \in Holding \union {Nowhere}, NEW to \in Holding \union {Nowhere}
  PROVE  /\ Moved(f, from, to, n) \in [Holding -> Int]
         /\ SumFunctionOnSet(f, Of(did)) \in Int
         /\ SumFunctionOnSet(Moved(f, from, to, n), Of(did)) =
              SumFunctionOnSet(f, Of(did)) - (IF from[1] = did THEN n ELSE 0)
                                           + (IF to[1] = did THEN n ELSE 0)
<1> DEFINE taken == [h \in Holding |-> f[h] - (IF h = from THEN n ELSE 0)]
           moved == Moved(f, from, to, n)
           S == Of(did)
<1>1. taken \in [Holding -> Int] /\ moved \in [Holding -> Int]
  BY DEF Moved
<1>2. IsFiniteSet(S) /\ S \subseteq Holding
  BY FiniteHoldings
<1>3. /\ from \in S <=> from[1] = did
      /\ to \in S <=> to[1] = did
  BY LedgerAssumption DEF Of, Nowhere
<1>4. Ints(f, S) /\ Ints(taken, S)
  BY <1>1, <1>2 DEF Ints
<1>5. /\ from \in S => taken[from] = f[from] + (-n)
      /\ \A h \in S \ {from} : taken[h] = f[h]
  BY <1>2
<1>6. /\ to \in S => moved[to] = taken[to] + n
      /\ \A h \in S \ {to} : moved[h] = taken[h]
  BY <1>1, <1>2 DEF Moved
<1> HIDE DEF S, taken, moved
<1>7. /\ SumFunctionOnSet(f, S) \in Int
      /\ SumFunctionOnSet(taken, S) = SumFunctionOnSet(f, S) + (IF from \in S THEN -n ELSE 0)
  BY <1>2, <1>4, <1>5, SumChange
<1>8. SumFunctionOnSet(moved, S) = SumFunctionOnSet(taken, S) + (IF to \in S THEN n ELSE 0)
  BY <1>2, <1>4, <1>6, SumChange
<1> QED  BY <1>1, <1>3, <1>7, <1>8 DEF moved, S

-----------------------------------------------------------------------------
(* The ledger's invariant.                                                 *)

\* The new table has n units less for the one side and n more for the other.
Shifted(table, new, from, to, n) ==
  /\ IsAmounts(new)
  /\ \A did \in Did : Amount(new, did) = Amount(table, did) - (IF from[1] = did THEN n ELSE 0)
                                                            + (IF to[1] = did THEN n ELSE 0)
  /\ SumFunction(new) = SumFunction(table) - (IF from = Nowhere THEN 0 ELSE n)
                                           + (IF to = Nowhere THEN 0 ELSE n)

\* Debiting one identity and crediting another shifts the amount.
LEMMA CreditsShift ==
  ASSUME NEW table, IsAmounts(table), NEW n \in Int,
         NEW from \in Holding \union {Nowhere}, NEW to \in Holding \union {Nowhere}
  PROVE  /\ from # Nowhere /\ to = Nowhere => Shifted(table, Credit(table, from[1], -n), from, to, n)
         /\ from = Nowhere /\ to # Nowhere => Shifted(table, Credit(table, to[1], n), from, to, n)
         /\ from # Nowhere /\ to # Nowhere =>
              Shifted(table, Credit(Credit(table, from[1], -n), to[1], n), from, to, n)
<1>1. /\ \A h \in Holding : h[1] \in Did /\ h # Nowhere
      /\ Nowhere[1] \notin Did
  BY LedgerAssumption DEF Holding, Nowhere
<1>2. -n \in Int
  OBVIOUS
<1>3. \A did \in Did : Amount(table, did) \in Int
  BY DEF Amount, Has, IsAmounts, Ints
<1>4. ASSUME from # Nowhere, to = Nowhere
      PROVE  Shifted(table, Credit(table, from[1], -n), from, to, n)
  <2> DEFINE new == Credit(table, from[1], -n)
  <2>1. from[1] \in Did /\ to[1] \notin Did
    BY <1>1, <1>4
  <2>2. /\ IsAmounts(new) /\ Amount(new, from[1]) = Amount(table, from[1]) + (-n)
        /\ \A d \in Did \ {from[1]} : Amount(new, d) = Amount(table, d)
        /\ SumFunction(table) \in Int /\ SumFunction(new) = SumFunction(table) + (-n)
    BY <1>2, <2>1, CreditAdds
  <2> HIDE DEF new
  <2>3. Shifted(table, new, from, to, n)
    BY <1>3, <1>4, <2>1, <2>2 DEF Shifted
  <2> QED  BY <2>3 DEF new
<1>5. ASSUME from = Nowhere, to # Nowhere
      PROVE  Shifted(table, Credit(table, to[1], n), from, to, n)
  <2> DEFINE new == Credit(table, to[1], n)
  <2>1. to[1] \in Did /\ from[1] \notin Did
    BY <1>1, <1>5
  <2>2. /\ IsAmounts(new) /\ Amount(new, to[1]) = Amount(table, to[1]) + n
        /\ \A d \in Did \ {to[1]} : Amount(new, d) = Amount(table, d)
        /\ SumFunction(table) \in Int /\ SumFunction(new) = SumFunction(table) + n
    BY <2>1, CreditAdds
  <2> HIDE DEF new
  <2>3. Shifted(table, new, from, to, n)
    BY <1>3, <1>5, <2>1, <2>2 DEF Shifted
  <2> QED  BY <2>3 DEF new
<1>6. ASSUME from # Nowhere, to # Nowhere
      PROVE  Shifted(table, Credit(Credit(table, from[1], -n), to[1], n), from, to, n)
  <2> DEFINE mid == Credit(table, from[1], -n)
             new == Credit(mid, to[1], n)
  <2>1. from[1] \in Did /\ to[1] \in Did
    BY <1>1, <1>6
  <2>2. /\ IsAmounts(mid) /\ Amount(mid, from[1]) = Amount(table, from[1]) + (-n)
        /\ \A d \in Did \ {from[1]} : Amount(mid, d) = Amount(table, d)
        /\ SumFunction(table) \in Int /\ SumFunction(mid) = SumFunction(table) + (-n)
    BY <1>2, <2>1, CreditAdds
  <2> HIDE DEF mid
  <2>3. /\ IsAmounts(new) /\ Amount(new, to[1]) = Amount(mid, to[1]) + n
        /\ \A d \in Did \ {to[1]} : Amount(new, d) = Amount(mid, d)
        /\ SumFunction(new) = SumFunction(mid) + n
    BY <2>1, <2>2, CreditAdds
  <2> HIDE DEF new
  <2>4. Shifted(table, new, from, to, n)
    BY <1>3, <1>6, <2>1, <2>2, <2>3 DEF Shifted
  <2> QED  BY <2>4 DEF mid, new
<1> QED  BY <1>4, <1>5, <1>6

\* An operation whose handlers shift the amount on the chain too keeps the
\* ledger in step.
LEMMA ShiftKeeps ==
  ASSUME LedgerInv, Exists, NEW n \in Int,
         NEW from \in Holding \union {Nowhere}, NEW to \in Holding \union {Nowhere},
         UNCHANGED <<cOld, cOwner>>, cHeld' = Moved(cHeld, from, to, n),
         Shifted(holder, holder', from, to, n),
         asset' = [asset EXCEPT !.totalSupply = @ - (IF from = Nowhere THEN 0 ELSE n)
                                                  + (IF to = Nowhere THEN 0 ELSE n)]
  PROVE  LedgerInv'
<1>1. /\ SumFunction(holder) \in Int
      /\ \A did \in Did : Amount(holder, did) = SumFunctionOnSet(cHeld, Of(did))
  <2>1. asset.totalSupply \in Int
    BY DEF LedgerInv, Types
  <2> QED  BY <2>1 DEF LedgerInv, SupplyIsHeld, HoldersMirrorChain, Of
<1>2. /\ asset' \in [ownerId : Did \union {NoDid}, totalSupply : Int]
      /\ asset'.ownerId = cOwner
      /\ asset'.totalSupply = asset.totalSupply - (IF from = Nowhere THEN 0 ELSE n)
                                                + (IF to = Nowhere THEN 0 ELSE n)
  BY DEF LedgerInv, Types
<1>3. Types' /\ asset'.ownerId = cOwner'
  BY <1>2, MovedSums DEF LedgerInv, Types, Shifted, Moved
<1>4. SupplyIsHeld'
  BY <1>2 DEF LedgerInv, SupplyIsHeld, Shifted
<1>5. HoldersMirrorChain'
  <2> SUFFICES ASSUME NEW did \in Did
               PROVE  Amount(holder', did) = SumFunctionOnSet(cHeld', Of(did))
    BY DEF HoldersMirrorChain, Of
  <2>1. cHeld \in [Holding -> Int]
    BY DEF LedgerInv, Types
  <2> QED  BY <1>1, <2>1, MovedSums DEF Shifted
<1> QED  BY <1>3, <1>4, <1>5 DEF LedgerInv, Unissued, Exists

\* Before the creation nobody has anything.
LEMMA LedgerInit == Init => LedgerInv
<1> SUFFICES ASSUME Init PROVE LedgerInv
  OBVIOUS
<1> USE DEF Init
<1>1. DOMAIN holder = {} /\ cHeld = [h \in Holding |-> 0]
  BY DEF NoTable
<1>2. Types
  BY <1>1 DEF Types, IsAmounts, Ints
<1>3. SupplyIsHeld
  <2>1. IsFiniteSet({}) /\ Ints(holder, {})
    BY FS_EmptySet DEF Ints
  <2> QED  BY <1>1, <2>1, SumUnfold DEF SupplyIsHeld, SumFunction
<1>4. ASSUME NEW did \in Did PROVE Amount(holder, did) = SumFunctionOnSet(cHeld, Of(did))
  <2>1. Amount(holder, did) = 0
    BY <1>1 DEF Amount, Has
  <2>2. cHeld = Moved(cHeld, Nowhere, Nowhere, 0)
    BY <1>1 DEF Moved
  <2>3. SumFunctionOnSet(cHeld, Of(did)) = 0
    BY <1>1, ZeroSum, FiniteHoldings
  <2> QED  BY <2>1, <2>3
<1> QED  BY <1>1, <1>2, <1>3, <1>4 DEF LedgerInv, Unissued, HoldersMirrorChain, Of

\* The operations with a movement of the chain in them.
Flows ==
  \E h \in Holdings, n \in 1..MaxSupply :
    \/ \E named \in BOOLEAN : Issue(h, n, named)
    \/ Redeem(h, n)
    \/ \E to \in Holdings :
         \/ \E reason \in {"transferred", "controllerTransfer"} : Transfer(h, to, n, reason)
         \/ Move(h, to, n)

\* Every operation keeps the invariant, whichever events report it.
LEMMA LedgerStep == LedgerInv /\ [Next]_vars => LedgerInv'
<1> SUFFICES ASSUME LedgerInv, [Next]_vars PROVE LedgerInv'
  OBVIOUS
<1>a. LedgerInv /\ Types /\ Unissued
  BY DEF LedgerInv
<1>b. ASSUME UNCHANGED <<cHeld, holder>>, cOld' \in BOOLEAN, asset'.ownerId = cOwner',
             cOwner' \in Did \union {NoDid}, asset'.totalSupply = asset.totalSupply,
             asset' \in [ownerId : Did \union {NoDid}, totalSupply : Int],
             Unissued'
      PROVE  LedgerInv'
  BY <1>a, <1>b DEF LedgerInv, Types, SupplyIsHeld, HoldersMirrorChain, Amount, Has, IsAmounts, Ints
<1>1. CASE Upgrade
  BY <1>1, <1>a, <1>b DEF Upgrade, LedgerInv, Types, Unissued
<1>2. ASSUME NEW owner \in Did, Create(owner) PROVE LedgerInv'
  <2>1. asset.totalSupply = 0
    BY <1>2, <1>a DEF Create, Exists, Unissued
  <2> QED  BY <1>2, <2>1, <1>a, <1>b DEF Create, LedgerInv, Types, Unissued, Exists
<1>3. ASSUME NEW owner \in Did, TransferOwnership(owner) PROVE LedgerInv'
  BY <1>3, <1>a, <1>b, LedgerAssumption DEF TransferOwnership, LedgerInv, Types, Unissued, Exists
<1>4. ASSUME Flows PROVE LedgerInv'
  <2> SUFFICES ASSUME NEW h \in Holdings, NEW n \in 1..MaxSupply,
                      \/ \E named \in BOOLEAN : Issue(h, n, named)
                      \/ Redeem(h, n)
                      \/ \E to \in Holdings :
                           \/ \E reason \in {"transferred", "controllerTransfer"} :
                                Transfer(h, to, n, reason)
                           \/ Move(h, to, n)
               PROVE  LedgerInv'
    BY <1>4 DEF Flows
  <2>1. n \in Int /\ -n \in Int
    BY LedgerAssumption
  <2>2. \A to \in Holdings : to \in Holding /\ to # Nowhere /\ to[1] \in Did
    BY LedgerAssumption DEF Holdings, Holding, Nowhere
  <2>3. /\ h \in Holding \union {Nowhere} /\ Nowhere \in Holding \union {Nowhere}
        /\ h # Nowhere /\ IsAmounts(holder) /\ asset.totalSupply \in Int
    BY <1>a, <2>2 DEF Types
  <2>0. cHeld[h] >= n => Exists
    BY <1>a, <2>1, <2>2 DEF Unissued, Exists
  <2>4. ASSUME NEW named \in BOOLEAN, Issue(h, n, named) PROVE LedgerInv'
    <3>1. holder' = Credit(holder, h[1], n)
      BY <2>3, <2>4 DEF Issue, handleIssued, handleAssetBalanceUpdated
    <3>2. asset' = [asset EXCEPT !.totalSupply = @ - 0 + n]
      BY <1>a, <2>1, <2>3, <2>4 DEF Issue, handleIssued, handleAssetBalanceUpdated, Types
    <3>3. Shifted(holder, holder', Nowhere, h, n)
      BY <2>1, <2>3, <3>1, CreditsShift
    <3> QED  BY <2>0, <2>1, <2>3, <2>4, <3>2, <3>3, ShiftKeeps DEF Issue
  <2>5. ASSUME Redeem(h, n) PROVE LedgerInv'
    <3>1. holder' = Credit(holder, h[1], -n)
      BY <2>3, <2>5 DEF Redeem, handleRedeemed, handleAssetBalanceUpdated
    <3>2. asset' = [asset EXCEPT !.totalSupply = @ - n + 0]
      BY <1>a, <2>1, <2>3, <2>5 DEF Redeem, handleRedeemed, handleAssetBalanceUpdated, Types
    <3>3. Shifted(holder, holder', h, Nowhere, n)
      BY <2>1, <2>3, <3>1, CreditsShift
    <3> QED  BY <2>0, <2>1, <2>3, <2>5, <3>2, <3>3, ShiftKeeps DEF Redeem
  <2>6. ASSUME NEW to \in Holdings, NEW reason \in {"transferred", "controllerTransfer"},
               Transfer(h, to, n, reason)
        PROVE  LedgerInv'
    <3>1. holder' = Credit(Credit(holder, h[1], -n), to[1], n)
      <4>1. CASE cOld
        <5>1. holder' = Save(Credit(holder, h[1], -n), to[1], Amount(holder, to[1]) + n)
          BY <2>2, <2>6, <4>1 DEF Transfer, handleAssetTransfer
        <5>2. Amount(Credit(holder, h[1], -n), to[1]) = Amount(holder, to[1])
          <6>1. to[1] \in Did \ {h[1]} /\ h[1] \in Did /\ -n \in Int
            BY <2>1, <2>2, <2>6 DEF Transfer
          <6>2. \A d \in Did \ {h[1]} : Amount(Credit(holder, h[1], -n), d) = Amount(holder, d)
            BY <2>3, <6>1, CreditAdds
          <6> QED  BY <6>1, <6>2
        <5> QED  BY <5>1, <5>2 DEF Credit
      <4>2. CASE ~cOld
        BY <2>2, <2>3, <2>6, <4>2 DEF Transfer, handleAssetBalanceUpdated
      <4> QED  BY <4>1, <4>2
    <3>2. asset' = [asset EXCEPT !.totalSupply = @ - n + n]
      BY <1>a, <2>1, <2>3, <2>6 DEF Transfer, handleAssetBalanceUpdated, Types
    <3>3. to \in Holding \union {Nowhere} /\ to # Nowhere
      BY <2>2
    <3>4. Shifted(holder, holder', h, to, n)
      BY <2>1, <2>3, <3>1, <3>3, CreditsShift
    <3> QED  BY <2>0, <2>1, <2>3, <2>6, <3>2, <3>3, <3>4, ShiftKeeps DEF Transfer
  <2>7. ASSUME NEW to \in Holdings, Move(h, to, n) PROVE LedgerInv'
    <3>1. holder' = holder /\ asset' = asset /\ h[1] = to[1]
      BY <2>7 DEF Move
    <3>2. asset' = [asset EXCEPT !.totalSupply = @ - n + n]
      BY <1>a, <2>1, <3>1 DEF Types
    <3>3. to \in Holding \union {Nowhere} /\ to # Nowhere
      BY <2>2
    <3>4. SumFunction(holder) \in Int /\ \A did \in Did : Amount(holder, did) \in Int
      BY <1>a, <2>3 DEF LedgerInv, SupplyIsHeld, Amount, Has, IsAmounts, Ints
    <3>5. Shifted(holder, holder', h, to, n)
      BY <2>1, <2>3, <3>1, <3>3, <3>4 DEF Shifted
    <3> QED  BY <2>0, <2>1, <2>3, <2>7, <3>2, <3>3, <3>5, ShiftKeeps DEF Move
  <2> QED  BY <2>4, <2>5, <2>6, <2>7
<1>5. CASE UNCHANGED vars
  BY <1>5, <1>a, <1>b DEF vars, chain, LedgerInv, Types, Unissued
<1> QED  BY <1>1, <1>2, <1>3, <1>4, <1>5 DEF Next, Flows

\* From the first state on.
LEMMA LedgerInvAlways == Spec => []LedgerInv
BY LedgerInit, LedgerStep, PTL DEF Spec

\* The total supply of the Asset row is the sum of the AssetHolder rows.
THEOREM SupplyAlwaysHeld == Spec => []SupplyIsHeld
<1>1. LedgerInv => SupplyIsHeld
  BY DEF LedgerInv
<1> QED  BY <1>1, LedgerInvAlways, PTL

\* An AssetHolder row has what the portfolios and accounts of its identity
\* have on the chain.
THEOREM HoldersAlwaysMirrorChain == Spec => []HoldersMirrorChain
<1>1. LedgerInv => HoldersMirrorChain
  BY DEF LedgerInv
<1> QED  BY <1>1, LedgerInvAlways, PTL

-----------------------------------------------------------------------------
(* The books.                                                              *)

\* The transaction of an old issue books into the default portfolio of the
\* owner: that is where the chain issues to as long as the owner is the issuer.
LEMMA BooksStep ==
  ASSUME ~OldAgents, LedgerInv, BooksMatchHoldings, [Next]_vars
  PROVE  BooksMatchHoldings'
<1> USE DEF BooksMatchHoldings
<1>1. CASE Upgrade
  BY <1>1 DEF Upgrade
<1>2. ASSUME NEW owner \in Did, Create(owner) \/ TransferOwnership(owner)
      PROVE  BooksMatchHoldings'
  BY <1>2 DEF Create, TransferOwnership
<1>3. ASSUME NEW h \in Holdings, NEW n \in 1..MaxSupply, NEW named \in BOOLEAN, Issue(h, n, named)
      PROVE  BooksMatchHoldings'
  <2>1. CASE cOld
    <3>1. asset.ownerId = cOwner
      BY DEF LedgerInv
    <3>2. h \in Did \X Portfolio /\ h[1] = cOwner /\ h[2] = 0
      BY <1>3, <2>1 DEF Issue, Holdings
    <3>3. h = <<asset.ownerId, 0>>
      BY <3>1, <3>2
    <3> QED  BY <1>3, <2>1, <3>3 DEF Issue, handleIssued
  <2>2. CASE ~cOld
    BY <1>3, <2>2 DEF Issue, handleAssetBalanceUpdated
  <2> QED  BY <2>1, <2>2
<1>4. ASSUME NEW h \in Holdings, NEW n \in 1..MaxSupply, Redeem(h, n)
      PROVE  BooksMatchHoldings'
  BY <1>4 DEF Redeem, handleAssetTransfer, handleAssetBalanceUpdated
<1>5. ASSUME NEW h \in Holdings, NEW n \in 1..MaxSupply, NEW to \in Holdings,
             NEW reason \in {"transferred", "controllerTransfer"}, Transfer(h, to, n, reason)
      PROVE  BooksMatchHoldings'
  BY <1>5 DEF Transfer, handleAssetTransfer, handleAssetBalanceUpdated
<1>6. ASSUME NEW h \in Holdings, NEW n \in 1..MaxSupply, NEW to \in Holdings, Move(h, to, n)
      PROVE  BooksMatchHoldings'
  BY <1>6 DEF Move
<1>7. CASE UNCHANGED vars
  BY <1>7 DEF vars, chain
<1> QED  BY <1>1, <1>2, <1>3, <1>4, <1>5, <1>6, <1>7 DEF Next

\* While no agent but the owner issues on the old chain, the transactions and
\* movements of a holding add up to what it has.  With OldAgents = TRUE this
\* does not hold: the issue of an agent is booked to the owner.
THEOREM BooksAlwaysMatchHoldings ==
  ASSUME ~OldAgents
  PROVE  Spec => []BooksMatchHoldings
<1>1. Init => BooksMatchHoldings
  BY DEF Init, BooksMatchHoldings
<1>2. LedgerInv /\ BooksMatchHoldings /\ [Next]_vars => BooksMatchHoldings'
  BY BooksStep
<1> QED  BY <1>1, <1>2, LedgerInvAlways, PTL DEF Spec
=============================================================================
