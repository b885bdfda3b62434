--------------------------- MODULE TransferRules ---------------------------
(***************************************************************************)
(* The transfer restrictions of one asset: transfer managers before 5.0.0  *)
(* (src/mappings/entities/assets/mapTransferManager.ts), statistics and    *)
(* conditions from then on, and the exemptions of both (mapStatistics.ts). *)
(*                                                                         *)
(* A public chain before 5.0.0, one from 5.0.0 on, and a private chain     *)
(* (polymesh_private_dev), whose spec versions are below 5000000 although  *)
(* it has the pallets of the second.  The upgrade from the first to the    *)
(* second, where the pallet rewrites its state without events, is no step. *)
(***************************************************************************)
EXTENDS Store, Paging

CONSTANTS
  Entity,       \* whom an exemption is for
  Value,        \* the limit of a manager or condition
  BuiltIn,      \* the claim types of the chain itself
  CustomId,     \* the custom claim types
  MaxIssued     \* bound on the supply

Op == {"Count", "Balance"}
\* The claim a statistic is scoped to, and its issuer, as far as ids tell them
\* apart: none, a built-in type, or a custom type.
NoCustom == "undefined"
StatScope == {<<c, NoCustom>> : c \in {"None"} \union BuiltIn} \union ({"Custom"} \X CustomId)
Stat == Op \X StatScope
Manager == Op \X Value          \* Count is its count, Balance its percentage
Condition == Stat \X Value

VARIABLES
  chain,
  cManager,     \* the pallet: active managers, with whom they exempt
  cExempt,      \* the pallet: exemptions <<stat, entity>>
  cStat,        \* the pallet: the active statistics
  cCondition,   \* the pallet: the conditions
  cSupply,
  shared,       \* entities whose exemptions the ids or pages ever mixed up
  tied,         \* a page may have passed over a condition to remove
  manager,      \* TransferManager rows: exemptedEntities
  exemption,    \* TransferComplianceExemption rows: [op, entity], by id
  stat,         \* StatType rows
  compliance,   \* TransferCompliance rows, by statTypeId
  totalSupply   \* the totalSupply of the Asset row

vars == <<chain, cManager, cExempt, cStat, cCondition, cSupply, shared, tied,
          manager, exemption, stat, compliance, totalSupply>>
statVars == <<cStat, stat>>
conditionVars == <<cCondition, compliance, tied>>
managerVars == <<cManager, manager>>
exemptVars == <<cExempt, shared, exemption>>
supplyVars == <<cSupply, totalSupply>>

Init ==
  /\ chain \in {"before 5", "since 5", "private"}
  /\ cManager = NoTable /\ cExempt = {} /\ cStat = {} /\ cCondition = {}
  /\ cSupply = 0 /\ shared = {} /\ tied = FALSE
  /\ manager = NoTable /\ exemption = NoTable /\ stat = {} /\ compliance = NoTable
  /\ totalSupply = 0

\* getStatTypeId, as the rows get it, and as callers do that pass no custom type.
StatTypeId(s) == s
PlainId(s) == <<s[1], <<s[2][1], NoCustom>>>>
Unscoped(op) == <<op, <<"None", NoCustom>>>>
Plain(s) == PlainId(s) = s

\* The pallets of the chain, and what its spec version says of it.
Before5 == chain = "before 5"
Since5 == ~Before5
OldSpec == chain # "since 5"

-----------------------------------------------------------------------------
(* Issuance and redemption, on any chain. *)

\* handleIssued, then handleAssetIssuedStatistics, which looks at the version
\* only: on a private chain there is a row for the count nobody asked for.
Issue ==
  /\ cSupply < MaxIssued
  /\ cSupply' = cSupply + 1 /\ totalSupply' = totalSupply + 1
  /\ stat' = IF OldSpec THEN stat \union {StatTypeId(Unscoped("Count"))} ELSE stat
  /\ UNCHANGED <<chain, cStat, managerVars, exemptVars, conditionVars>>

\* Mutant: the supply is the one from before the redemption.
Remaining_Before(amount) == totalSupply
Remaining(amount) == totalSupply - amount

\* handleRedeemed, then handleAssetRedeemedStatistics, which reads what the
\* first one saved, and looks at the version and the name of the chain.
Redeem(amount) ==
  /\ amount <= cSupply
  /\ cSupply' = cSupply - amount /\ totalSupply' = totalSupply - amount
  /\ stat' = IF OldSpec /\ chain # "private" /\ Remaining(amount) = 0
             THEN stat \ {Unscoped("Count")} ELSE stat
  /\ UNCHANGED <<chain, cStat, managerVars, exemptVars, conditionVars>>

-----------------------------------------------------------------------------
(* Before 5.0.0. *)

\* handleTransferManagerAdded and handleStatisticTransferManagerAdded.
handleTransferManagerAdded(m) ==
  /\ Before5 /\ ~Has(cManager, m)
  /\ cManager' = Save(cManager, m, {})
  /\ manager' = Save(manager, m, {})
  /\ stat' = IF m[1] = "Balance" THEN stat \union {Unscoped("Balance")} ELSE stat
  /\ UNCHANGED <<chain, cStat, exemptVars, conditionVars, supplyVars>>

\* The exemptions the manager made stay among the others.
handleTransferManagerRemoved(m) ==
  /\ Before5 /\ Has(cManager, m) /\ cManager[m] = {}
  /\ cManager' = Delete(cManager, {m}) /\ manager' = Delete(manager, {m})
  /\ UNCHANGED <<chain, statVars, exemptVars, conditionVars, supplyVars>>

\* The rows of one kind of restriction among those found.
OfOp(found, op) == {id \in found : exemption[id].op = op}
\* The entities without a row among those: they get one, with the entity alone
\* as its id.
Missed(es, ids) == {e \in es : \A id \in ids : exemption[id].entity # e}

\* handleExemptionsAdded and handleTransferManagerExemptionsAdded: all are looked
\* up before any is saved.
handleExemptionsAdded(m, es) ==
  /\ Before5 /\ Has(cManager, m)
  /\ cManager' = [cManager EXCEPT ![m] = @ \union es]
  /\ manager' = IF Has(manager, m) THEN [manager EXCEPT ![m] = @ \union es] ELSE manager
  /\ \E found \in getPaginatedData(DOMAIN exemption) :
       exemption' = SaveAll(exemption, [id \in {<<e>> : e \in Missed(es, OfOp(found, m[1]))}
                                          |-> [op |-> m[1], entity |-> id[1]]])
  /\ shared' = shared \union
               {e \in es : \E n \in DOMAIN cManager \ {m} : e \in cManager[n]}
  /\ UNCHANGED <<chain, cExempt, statVars, conditionVars, supplyVars>>

\* Another asset exempts the entities too: its rows have the ids of ours.
ExemptedElsewhere(es) ==
  /\ Before5
  /\ exemption' = Delete(exemption, {<<e>> : e \in es})
  /\ shared' = shared \union {e \in es : \E m \in DOMAIN cManager : e \in cManager[m]}
  /\ UNCHANGED <<chain, cExempt, managerVars, statVars, conditionVars, supplyVars>>

\* handleExemptionsRemoved and handleTransferManagerExemptionsRemoved.
handleExemptionsRemoved(m, es) ==
  /\ Before5 /\ Has(cManager, m) /\ es \subseteq cManager[m]
  /\ cManager' = [cManager EXCEPT ![m] = @ \ es]
  /\ manager' = IF Has(manager, m) THEN [manager EXCEPT ![m] = @ \ es] ELSE manager
  /\ \E found \in getPaginatedData(DOMAIN exemption) :
       exemption' = Delete(exemption, {id \in OfOp(found, m[1]) : exemption[id].entity \in es})
  /\ shared' = IF Crowded(DOMAIN exemption) THEN shared \union es ELSE shared
  /\ UNCHANGED <<chain, cExempt, statVars, conditionVars, supplyVars>>

-----------------------------------------------------------------------------
(* From 5.0.0 on. *)

\* getStatTypes throws at the claim of a statistic on a private chain: by the
\* version, the claim would be a string (:55).
Parses(ss) == chain = "private" => \A s \in ss : s[2][1] = "None"

handleStatTypeAdded(ss) ==
  /\ Since5 /\ Parses(ss)
  /\ cStat' = cStat \union ss
  /\ stat' = stat \union {StatTypeId(s) : s \in ss}
  /\ UNCHANGED <<chain, managerVars, exemptVars, conditionVars, supplyVars>>

\* The id is made without the custom type: rows of custom types stay.  The
\* pallet removes no statistic that a condition needs.
handleStatTypeRemoved(ss) ==
  /\ Since5 /\ Parses(ss) /\ ss \subseteq cStat /\ ss \cap {c[1] : c \in cCondition} = {}
  /\ cStat' = cStat \ ss
  /\ stat' = stat \ {PlainId(s) : s \in ss}
  /\ UNCHANGED <<chain, managerVars, exemptVars, conditionVars, supplyVars>>

Dropped(found, ids) == found \ ids

\* Rows are found, removed and saved by the id of the statistic.  Conditions
\* that share it are saved at the same time: one of them is left.
handleSetTransferCompliance(cs) ==
  LET ids == {PlainId(c[1]) : c \in cs}
  IN /\ Since5 /\ {c[1] : c \in cs} \subseteq cStat
     /\ cCondition' = cs
     /\ \E pick \in [ids -> cs], found \in getPaginatedData(DOMAIN compliance) :
          /\ \A id \in ids : PlainId(pick[id][1]) = id
          /\ compliance' = SaveAll(Delete(compliance, Dropped(found, ids)), pick)
     /\ tied' = (tied \/ Crowded(DOMAIN compliance))
     /\ UNCHANGED <<chain, managerVars, exemptVars, statVars, supplyVars>>

ExemptionId(s, e) == <<PlainId(s), e>>

handleStatisticExemptionsAdded(s, es) ==
  /\ Since5
  /\ cExempt' = cExempt \union ({s} \X es)
  /\ shared' = shared \union {e \in es : \E x \in cExempt : x[2] = e /\ x[1] # s}
  /\ exemption' = SaveAll(exemption, [id \in {ExemptionId(s, e) : e \in es}
                                       |-> [op |-> s[1], entity |-> id[2]]])
  /\ UNCHANGED <<chain, managerVars, statVars, conditionVars, supplyVars>>

handleStatisticExemptionsRemoved(s, es) ==
  /\ Since5 /\ {s} \X es \subseteq cExempt
  /\ cExempt' = cExempt \ ({s} \X es)
  /\ exemption' = Delete(exemption, {ExemptionId(s, e) : e \in es})
  /\ UNCHANGED <<chain, shared, managerVars, statVars, conditionVars, supplyVars>>

\* Lists the events bring have up to two items.
Lists(set) == {{x, y} : x, y \in set}

NextSupply == Issue \/ \E amount \in 1..MaxIssued : Redeem(amount)

NextManagers ==
  \/ \E es \in Lists(Entity) : ExemptedElsewhere(es)
  \/ \E m \in Manager :
    \/ handleTransferManagerAdded(m) \/ handleTransferManagerRemoved(m)
    \/ \E es \in Lists(Entity) :
         handleExemptionsAdded(m, es) \/ handleExemptionsRemoved(m, es)

NextConditions ==
  \/ \E ss \in Lists(Stat) : handleStatTypeAdded(ss) \/ handleStatTypeRemoved(ss)
  \/ \E cs \in Lists(Condition) \union {{}} : handleSetTransferCompliance(cs)

NextExemptions ==
  \E s \in Stat, es \in Lists(Entity) :
    \/ handleStatisticExemptionsAdded(s, es)
    \/ handleStatisticExemptionsRemoved(s, es)

Next == NextSupply \/ NextManagers \/ NextConditions \/ NextExemptions

Spec == Init /\ [][Next]_vars

-----------------------------------------------------------------------------
\* Before 5.0.0 there is a count of the holders as long as there is a supply,
\* and a manager lists whom it exempts.
ManagersShown ==
  Before5 => /\ Unscoped("Count") \in stat <=> cSupply > 0
             /\ manager = cManager

\* A condition that shares its statistic with no other is shown, and no row is
\* left of a former one unless the rows ever filled more than a page; every
\* statistic has a row, and every row of a plain one a statistic, but for the
\* count that an issuance on a private chain adds.
ConditionsShown ==
  /\ \A c \in cCondition :
       LET id == PlainId(c[1])
       IN (\A d \in cCondition : PlainId(d[1]) = id => d = c)
            => Has(compliance, id) /\ compliance[id] = c
  /\ ~tied => \A id \in DOMAIN compliance : compliance[id] \in cCondition
  /\ \A s \in cStat : s \in stat
  /\ Since5 => \A s \in stat :
       Plain(s) => \/ s \in cStat
                   \/ chain = "private" /\ s = Unscoped("Count")

\* Whoever is exempted by one manager, or for one statistic, and while it is by
\* no other asset, has a row as long as it is, unless the exemptions filled more
\* than a page when it was lifted.
ExemptionsShown ==
  \A e \in Entity \ shared :
    (\E id \in DOMAIN exemption : exemption[id].entity = e)
      <=> \/ \E x \in cExempt : x[2] = e
          \/ \E m \in DOMAIN cManager : e \in cManager[m]

\* Restrictions set, replaced and lifted in any order leave the rows as the
\* chain has them, where the ids tell them apart; on a chain before 5.0.0, from
\* 5.0.0 on, and a private one.
RulesMirrorChain == ManagersShown /\ ConditionsShown /\ ExemptionsShown
=============================================================================
