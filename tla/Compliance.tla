----------------------------- MODULE Compliance -----------------------------
(***************************************************************************)
(* The compliance requirements of one asset and its trusted claim issuers  *)
(* (src/mappings/entities/assets/mapCompliance.ts).  Resetting and         *)
(* replacing them starts with a paged query (src/utils/common.ts).  A      *)
(* change of one requirement has no handler (project.ts).                  *)
(***************************************************************************)
EXTENDS Store, Paging, FiniteSetsExt

CONSTANTS
  Data,         \* what a requirement asks for
  Trusted,      \* claim issuers
  MaxId         \* bound on the ids of requirements

VARIABLES
  cRule,        \* the pallet: requirements, by id
  cTrusted,     \* the pallet: the trusted claim issuers
  cPaused,      \* the pallet: whether the requirements are suspended
  rule,         \* Compliance rows
  trusted,      \* TrustedClaimIssuer rows
  isCompliancePaused,   \* of the Asset row
  changed,      \* requirements changed by the event without a handler
  tied          \* more rows than a page had to be found

vars == <<cRule, cTrusted, cPaused, rule, trusted, isCompliancePaused, changed, tied>>
ruleVars == <<cRule, rule, changed, tied>>
trustedVars == <<cTrusted, trusted>>
pauseVars == <<cPaused, isCompliancePaused>>

Init ==
  /\ cRule = NoTable /\ cTrusted = {} /\ cPaused = FALSE
  /\ rule = NoTable /\ trusted = {} /\ isCompliancePaused = FALSE
  /\ changed = {} /\ tied = FALSE

handleAssetCompliancePaused ==
  /\ cPaused' = TRUE /\ isCompliancePaused' = TRUE
  /\ UNCHANGED <<ruleVars, trustedVars>>

handleAssetComplianceResumed ==
  /\ cPaused' = FALSE /\ isCompliancePaused' = FALSE
  /\ UNCHANGED <<ruleVars, trustedVars>>

\* The pallet numbers a requirement after the highest there is.
handleComplianceCreated(data) ==
  LET id == 1 + Max({0} \union DOMAIN cRule)
  IN /\ id <= MaxId
     /\ cRule' = Save(cRule, id, data)
     /\ rule' = Save(rule, id, data)
     /\ changed' = changed \ {id}
     /\ UNCHANGED <<tied, trustedVars, pauseVars>>

handleComplianceRemoved(id) ==
  /\ Has(cRule, id)
  /\ cRule' = Delete(cRule, {id}) /\ rule' = Delete(rule, {id})
  /\ changed' = changed \ {id}
  /\ UNCHANGED <<tied, trustedVars, pauseVars>>

handleComplianceReset ==
  /\ cRule' = NoTable
  /\ \E found \in getPaginatedData(DOMAIN rule) : rule' = Delete(rule, found)
  /\ changed' = {} /\ tied' = (tied \/ Crowded(DOMAIN rule))
  /\ UNCHANGED <<trustedVars, pauseVars>>

\* Mutant: the former rows are removed after the new ones were created.
Replaced_Last(table, found, new) == Delete(SaveAll(table, new), found)
\* The removal is handed to the store first.
Replaced(table, found, new) == SaveAll(Delete(table, found), new)

handleComplianceReplaced(new) ==
  /\ cRule' = new
  /\ \E found \in getPaginatedData(DOMAIN rule) : rule' = Replaced(rule, found, new)
  /\ changed' = {} /\ tied' = (tied \/ Crowded(DOMAIN rule))
  /\ UNCHANGED <<trustedVars, pauseVars>>

\* ComplianceRequirementChanged: [] in project.ts.
ComplianceRequirementChanged(id, data) ==
  /\ Has(cRule, id) /\ cRule[id] # data
  /\ cRule' = [cRule EXCEPT ![id] = data]
  /\ changed' = changed \union {id}
  /\ UNCHANGED <<rule, tied, trustedVars, pauseVars>>

handleTrustedDefaultClaimIssuerAdded(i) ==
  /\ i \notin cTrusted
  /\ cTrusted' = cTrusted \union {i} /\ trusted' = trusted \union {i}
  /\ UNCHANGED <<ruleVars, pauseVars>>

handleTrustedDefaultClaimIssuerRemoved(i) ==
  /\ i \in cTrusted
  /\ cTrusted' = cTrusted \ {i} /\ trusted' = trusted \ {i}
  /\ UNCHANGED <<ruleVars, pauseVars>>

Next ==
  \/ handleAssetCompliancePaused \/ handleAssetComplianceResumed
  \/ handleComplianceReset
  \/ \E data \in Data : handleComplianceCreated(data)
  \/ \E id \in 1..MaxId : \/ handleComplianceRemoved(id)
                          \/ \E data \in Data : ComplianceRequirementChanged(id, data)
  \/ \E ids \in SUBSET (1..MaxId) : \E new \in [ids -> Data] : handleComplianceReplaced(new)
  \/ \E i \in Trusted : \/ handleTrustedDefaultClaimIssuerAdded(i)
                        \/ handleTrustedDefaultClaimIssuerRemoved(i)

Spec == Init /\ [][Next]_vars

-----------------------------------------------------------------------------
\* However requirements are created, removed, reset and replaced, each has a
\* row with what it asks for, unless it was changed since; and no other row is
\* left, unless the rows to remove ever filled more than a page.
ComplianceMirrorsChain ==
  /\ \A id \in DOMAIN cRule :
       /\ Has(rule, id)
       /\ id \notin changed => rule[id] = cRule[id]
  /\ ~tied => DOMAIN rule = DOMAIN cRule
  /\ trusted = cTrusted /\ isCompliancePaused = cPaused
=============================================================================
