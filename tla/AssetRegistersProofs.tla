------------------------ MODULE AssetRegistersProofs ------------------------
(***************************************************************************)
(* Proofs about the registers that concern an asset: its agents, its       *)
(* compliance requirements, its offerings, its transfer rules and capital  *)
(* distributions, the NFTs of a collection, and confidential assets.       *)
(***************************************************************************)
EXTENDS MCRegisters, FoldProofs

-----------------------------------------------------------------------------
(* External agents.                                                        *)

\* A group row has the permissions of its group, agents are in groups that the
\* pallet has, and only members of custom groups are kept.
AgentTypes ==
  /\ cAgent \in [Did -> {NoGroup} \union Fixed \union DOMAIN cPerms]
  /\ DOMAIN cPerms \subseteq Custom /\ group = cPerms
  /\ membership \subseteq Custom \X Did /\ IsFiniteSet(membership)
  /\ elsewhere \in [Did -> Nat]
AgentInv == AgentTypes /\ AgentsSound

\* There are no agents at first.
LEMMA AgentInit == A!Init => AgentInv
BY FS_EmptySet DEF A!Init, AgentInv, AgentTypes, AgentsSound, A!AgentsSound, A!NoTable, A!Has

\* What is left when the memberships of an identity are removed: those of the
\* others, and of its own only the new one, unless they filled more than a page.
LEMMA MemberRemoved ==
  ASSUME AgentTypes, NEW d \in Did, NEW new, new \subseteq Custom \X {d}, IsFiniteSet(new),
         NEW after \in A!removeMember(d, new)
  PROVE  /\ after \subseteq membership \union new /\ IsFiniteSet(after)
         /\ \A m \in membership : m[2] # d => m \in after
         /\ ~A!CrowdedAmong(A!MembershipsOf(d) \union new, elsewhere[d]) =>
              \A m \in after : m[2] = d => m \in new
<1> DEFINE old == A!MembershipsOf(d)
<1>1. PICK found \in A!FoundAmong(old, elsewhere[d])
                       \union A!FoundAmong(old \union new, elsewhere[d]) :
        after = (membership \union new) \ found
  BY DEF A!removeMember
<1>2. found \subseteq old \union new
  BY <1>1 DEF A!FoundAmong
<1>3. \A m \in old \union new : m[2] = d
  BY DEF A!MembershipsOf
<1>4. IsFiniteSet(membership \union new) /\ IsFiniteSet(after)
  <2>1. IsFiniteSet(membership \union new)
    BY FS_Union DEF AgentTypes
  <2> QED  BY <1>1, <2>1, FS_Subset
<1>5. ASSUME ~A!CrowdedAmong(old \union new, elsewhere[d]) PROVE old \subseteq found
  <2>1. \A X : A!Cardinality(X) = Cardinality(X)
    BY DEF A!Cardinality, Cardinality
  <2>2. /\ IsFiniteSet(old \union new) /\ old \subseteq old \union new
    BY <1>4, FS_Subset DEF A!MembershipsOf
  <2>3. /\ Cardinality(old) <= Cardinality(old \union new)
        /\ Cardinality(old) \in Nat /\ Cardinality(old \union new) \in Nat
    BY <2>2, FS_Subset, FS_CardinalityType
  <2>4. elsewhere[d] \in Nat
    BY DEF AgentTypes
  <2>5. ~A!CrowdedAmong(old, elsewhere[d])
    BY <1>5, <2>1, <2>3, <2>4, RegistersAssumption DEF A!CrowdedAmong
  <2>6. /\ A!FoundAmong(old, elsewhere[d]) = {old}
        /\ A!FoundAmong(old \union new, elsewhere[d]) = {old \union new}
    BY <1>5, <2>5 DEF A!FoundAmong
  <2> QED  BY <1>1, <2>6
<1>6. after \subseteq membership \union new
  BY <1>1
<1>7. \A m \in membership : m[2] # d => m \in after
  BY <1>1, <1>2, <1>3
<1>8. ASSUME ~A!CrowdedAmong(old \union new, elsewhere[d]), NEW m \in after, m[2] = d
      PROVE  m \in new
  <2>1. m \in membership => m \in old
    BY <1>8 DEF A!MembershipsOf
  <2> QED  BY <1>1, <1>5, <1>8, <2>1
<1> QED  BY <1>4, <1>6, <1>7, <1>8

\* The membership of a group is one row at most.
LEMMA OneMembership ==
  ASSUME NEW d \in Did, NEW g
  PROVE  /\ A!MembershipOf(d, g) \subseteq Custom \X {d} /\ IsFiniteSet(A!MembershipOf(d, g))
         /\ \A m \in A!MembershipOf(d, g) : m[1] = g /\ m[2] = d
<1>1. A!MembershipOf(d, g) = {} \/ A!MembershipOf(d, g) = {<<g, d>>}
  BY DEF A!MembershipOf
<1>2. IsFiniteSet({}) /\ IsFiniteSet({<<g, d>>})
  BY FS_EmptySet, FS_Singleton
<1>3. A!MembershipOf(d, g) \subseteq Custom \X {d}
  BY DEF A!MembershipOf
<1> QED  BY <1>1, <1>2, <1>3

\* The permissions of a group change, and the history of the members found.
LEMMA GroupUpdated ==
  ASSUME AgentInv, NEW g \in Custom, NEW p \in Perms, A!handleGroupPermissionsUpdated(g, p)
  PROVE  AgentInv'
<1>1. PICK found \in A!getPaginatedData(A!Members(g)) :
        history' = A!SaveAll(history, [d \in found |-> p])
  BY DEF A!handleGroupPermissionsUpdated
<1>2. /\ cPerms' = [cPerms EXCEPT ![g] = p] /\ group' = cPerms' /\ g \in DOMAIN cPerms
      /\ untold' = IF A!Crowded(A!Members(g)) THEN untold \union A!Members(g)
                                              ELSE untold \ A!Members(g)
      /\ UNCHANGED <<cAgent, agent, membership, elsewhere, crowded>>
  BY DEF A!handleGroupPermissionsUpdated, A!Has, AgentInv, AgentTypes
<1>3. /\ found \subseteq A!Members(g)
      /\ ~A!Crowded(A!Members(g)) => found = A!Members(g)
  BY <1>1 DEF A!getPaginatedData, A!FoundAmong, A!Crowded
<1>4. /\ DOMAIN history' = DOMAIN history \union found
      /\ \A d \in found : history'[d] = p
      /\ \A d \in DOMAIN history \ found : history'[d] = history[d]
  <2> DEFINE told == [d \in found |-> p]
  <2>1. DOMAIN told = found /\ \A d \in found : told[d] = p
    OBVIOUS
  <2> HIDE DEF told
  <2> QED  BY <1>1, <2>1 DEF A!SaveAll, A!Has, told
<1>5. AgentTypes'
  BY <1>2 DEF AgentInv, AgentTypes
<1>6. ASSUME NEW d \in agent
      PROVE  /\ d \in DOMAIN history'
             /\ d \notin crowded =>
                  /\ cAgent[d] \in Fixed => history'[d] = cAgent[d]
                  /\ <<cAgent[d], d>> \in membership /\ d \notin untold'
                       => history'[d] = cPerms'[cAgent[d]]
  <2>1. /\ d \in DOMAIN history /\ d \in Did
        /\ d \notin crowded =>
             /\ cAgent[d] \in Fixed => history[d] = cAgent[d]
             /\ <<cAgent[d], d>> \in membership /\ d \notin untold
                  => history[d] = cPerms[cAgent[d]]
    BY DEF AgentInv, AgentsSound, A!AgentsSound, A!Has
  <2>2. d \notin crowded /\ d \in A!Members(g) => cAgent[d] = g
    BY DEF AgentInv, AgentsSound, A!AgentsSound, A!Members
  <2>3. d \in A!Members(g) <=> <<g, d>> \in membership
    BY <2>1 DEF A!Members
  <2>4. CASE d \notin crowded /\ cAgent[d] = g
    <3>1. cAgent[d] \notin Fixed /\ cPerms'[g] = p
      BY <1>2, <2>4, RegistersAssumption
    <3>2. <<cAgent[d], d>> \in membership /\ d \notin untold' => d \in found
      BY <1>2, <1>3, <2>3, <2>4
    <3> QED  BY <1>4, <2>1, <2>4, <3>1, <3>2
  <2>5. CASE d \notin crowded /\ cAgent[d] # g
    <3>1. d \notin A!Members(g) /\ (d \notin untold' => d \notin untold)
      BY <1>2, <2>2, <2>5
    <3>2. history'[d] = history[d] /\ d \in DOMAIN history'
      BY <1>3, <1>4, <2>1, <3>1
    <3>3. cPerms'[cAgent[d]] = cPerms[cAgent[d]] \/ cAgent[d] \notin DOMAIN cPerms
      BY <1>2, <2>5
    <3>4. <<cAgent[d], d>> \in membership => cAgent[d] \in DOMAIN cPerms
      BY <2>1, RegistersAssumption DEF AgentInv, AgentTypes
    <3> QED  BY <2>1, <2>5, <3>1, <3>2, <3>3, <3>4
  <2>6. CASE d \in crowded
    BY <1>4, <2>1, <2>6
  <2> QED  BY <2>4, <2>5, <2>6
<1>7. AgentsSound'
  BY <1>2, <1>6 DEF AgentInv, AgentsSound, A!AgentsSound, A!Has
<1> QED  BY <1>5, <1>7 DEF AgentInv

\* Whoever joins, changes or leaves a group: what is kept of the others, and
\* what must be shown of itself.
AgentMoves(d, g, p) ==
  /\ cAgent' = [cAgent EXCEPT ![d] = g] /\ history' = A!Save(history, d, p)
  /\ agent' \ {d} = agent \ {d} /\ (d \in agent' <=> g # NoGroup)
  /\ UNCHANGED <<cPerms, group, elsewhere>>
  /\ untold' = untold \ {d} /\ crowded' \ {d} = crowded \ {d}
  /\ membership' \subseteq membership \union A!MembershipOf(d, g) /\ IsFiniteSet(membership')
  /\ d \notin crowded' => \A m \in membership' : m[2] = d => m[1] = g
  /\ g \in {NoGroup} \union Fixed \union DOMAIN cPerms
  /\ (g \in Fixed => p = g) /\ (g \in DOMAIN cPerms => p = cPerms[g])
LEMMA AgentMoved ==
  ASSUME AgentInv, NEW d \in Did, NEW g, NEW p, AgentMoves(d, g, p)
  PROVE  AgentInv'
<1> USE DEF AgentMoves, AgentInv, AgentTypes, AgentsSound, A!AgentsSound, A!Has
<1>1. /\ A!MembershipOf(d, g) \subseteq Custom \X {d}
      /\ \A m \in A!MembershipOf(d, g) : m[2] = d
  BY OneMembership
<1>2. AgentTypes'
  <2>1. cAgent' \in [Did -> {NoGroup} \union Fixed \union DOMAIN cPerms]
    OBVIOUS
  <2>2. membership' \subseteq Custom \X Did
    BY <1>1
  <2> QED  BY <2>1, <2>2
<1>3. /\ cAgent'[d] = g /\ \A e \in Did \ {d} : cAgent'[e] = cAgent[e]
      /\ DOMAIN history' = DOMAIN history \union {d} /\ history'[d] = p
      /\ \A e \in DOMAIN history \ {d} : history'[e] = history[e]
  BY DEF A!Save
<1>4. agent' = {e \in Did : cAgent'[e] # NoGroup}
  BY <1>3
<1>5. ASSUME NEW m \in membership', m[2] \notin crowded' PROVE cAgent'[m[2]] = m[1]
  <2>1. CASE m[2] = d
    BY <1>3, <1>5, <2>1
  <2>2. CASE m[2] # d
    <3>1. m \in membership /\ m[2] \in Did /\ m[2] \notin crowded
      BY <1>1, <1>5, <2>2
    <3> QED  BY <1>3, <2>2, <3>1
  <2> QED  BY <2>1, <2>2
<1>6. ASSUME NEW e \in agent'
      PROVE  /\ e \in DOMAIN history'
             /\ e \notin crowded' =>
                  /\ cAgent'[e] \in Fixed => history'[e] = cAgent'[e]
                  /\ <<cAgent'[e], e>> \in membership' /\ e \notin untold'
                       => history'[e] = cPerms'[cAgent'[e]]
  <2>1. CASE e = d
    <3>1. <<g, d>> \in membership' => g \in Custom
      BY <1>2
    <3>2. g \in Custom /\ g \notin DOMAIN cPerms => g = NoGroup
      BY RegistersAssumption
    <3> QED  BY <1>3, <1>4, <2>1, <3>1, <3>2, RegistersAssumption
  <2>2. CASE e # d
    <3>1. /\ e \in agent /\ e \in Did /\ e \in DOMAIN history
          /\ e \notin crowded' => e \notin crowded
          /\ e \notin untold' => e \notin untold
      BY <1>4, <2>2
    <3>2. <<cAgent[e], e>> \in membership' => <<cAgent[e], e>> \in membership
      BY <1>1, <2>2
    <3>3. cAgent'[e] = cAgent[e] /\ history'[e] = history[e] /\ e \in DOMAIN history'
      BY <1>3, <2>2, <3>1
    <3> QED  BY <3>1, <3>2, <3>3
  <2> QED  BY <2>1, <2>2
<1>7. AgentsSound'
  BY <1>4, <1>5, <1>6
<1> QED  BY <1>2, <1>7

\* An agent that joins, changes or leaves a group.
LEMMA AgentStep == AgentInv /\ A!Next => AgentInv'
<1> SUFFICES ASSUME AgentInv, A!Next PROVE AgentInv'
  OBVIOUS
<1>1. ASSUME NEW g \in Custom, NEW p \in Perms, A!handleGroupCreated(g, p) PROVE AgentInv'
  <2>1. AgentTypes'
    BY <1>1 DEF A!handleGroupCreated, A!pages, A!Save, A!Has, AgentInv, AgentTypes
  <2>2. ASSUME NEW d \in Did, <<cAgent[d], d>> \in membership
        PROVE  cAgent[d] \in DOMAIN cPerms /\ cPerms'[cAgent[d]] = cPerms[cAgent[d]]
    BY <1>1, <2>2, RegistersAssumption
       DEF A!handleGroupCreated, A!Save, A!Has, AgentInv, AgentTypes
  <2>3. AgentsSound'
    BY <1>1, <2>2
       DEF A!handleGroupCreated, A!pages, A!Has, AgentInv, AgentsSound, A!AgentsSound
  <2> QED  BY <2>1, <2>3 DEF AgentInv
<1>2. ASSUME NEW g \in Custom, NEW p \in Perms, A!handleGroupPermissionsUpdated(g, p)
      PROVE AgentInv'
  BY <1>2, GroupUpdated
<1>3. ASSUME NEW d \in Did, NEW g \in Fixed \union Custom, A!handleAgentAdded(d, g)
      PROVE AgentInv'
  <2>1. /\ g \in Fixed \union DOMAIN cPerms /\ g # NoGroup /\ cAgent[d] = NoGroup
        /\ (g \in Fixed => A!PermissionsOf(g) = g)
        /\ (g \in DOMAIN cPerms => A!PermissionsOf(g) = cPerms[g])
    BY <1>3, RegistersAssumption DEF A!handleAgentAdded, A!PermissionsOf, AgentInv, AgentTypes
  <2>2. /\ membership' = membership \union A!MembershipOf(d, g) /\ crowded' = crowded
        /\ cAgent' = [cAgent EXCEPT ![d] = g]
        /\ agent' \ {d} = agent \ {d} /\ d \in agent'
        /\ history' = A!Save(history, d, A!PermissionsOf(g))
        /\ untold' = untold \ {d} /\ UNCHANGED <<cPerms, group, elsewhere>>
    BY <1>3 DEF A!handleAgentAdded, A!handleExternalAgentAdded
  <2>3. IsFiniteSet(membership')
    BY <2>2, OneMembership, FS_Union DEF AgentInv, AgentTypes
  <2>4. ASSUME d \notin crowded', NEW m \in membership', m[2] = d PROVE m[1] = g
    <3>1. m \notin membership
      BY <2>1, <2>2, <2>4, RegistersAssumption
         DEF AgentInv, AgentTypes, AgentsSound, A!AgentsSound
    <3> QED  BY <2>2, <2>4, <3>1, OneMembership
  <2>5. AgentMoves(d, g, A!PermissionsOf(g))
    BY <2>1, <2>2, <2>3, <2>4 DEF AgentMoves
  <2> QED  BY <2>5, AgentMoved
<1>4. ASSUME NEW d \in Did, NEW g \in Fixed \union Custom, A!handleGroupChanged(d, g)
      PROVE AgentInv'
  <2> DEFINE new == A!MembershipOf(d, g)
  <2>1. /\ g \in Fixed \union DOMAIN cPerms /\ g # NoGroup /\ cAgent[d] # NoGroup
        /\ (g \in Fixed => A!PermissionsOf(g) = g)
        /\ (g \in DOMAIN cPerms => A!PermissionsOf(g) = cPerms[g])
    BY <1>4, RegistersAssumption DEF A!handleGroupChanged, A!PermissionsOf, AgentInv, AgentTypes
  <2>2. /\ cAgent' = [cAgent EXCEPT ![d] = g] /\ agent' = agent
        /\ history' = A!Save(history, d, A!PermissionsOf(g))
        /\ untold' = untold \ {d} /\ UNCHANGED <<cPerms, group, elsewhere>>
        /\ crowded' = IF A!CrowdedAmong(A!MembershipsOf(d) \union new, elsewhere[d])
                      THEN crowded \union {d} ELSE crowded \ {d}
        /\ membership' \in A!removeMember(d, new)
    BY <1>4 DEF A!handleGroupChanged, A!Removal
  <2>3. /\ new \subseteq Custom \X {d} /\ IsFiniteSet(new)
        /\ \A m \in new : m[1] = g /\ m[2] = d
    BY OneMembership
  <2>4. agent' \ {d} = agent \ {d} /\ d \in agent'
    BY <2>1, <2>2 DEF AgentInv, AgentsSound, A!AgentsSound
  <2> HIDE DEF new
  <2>5. /\ membership' \subseteq membership \union new /\ IsFiniteSet(membership')
        /\ ~A!CrowdedAmong(A!MembershipsOf(d) \union new, elsewhere[d]) =>
             \A m \in membership' : m[2] = d => m \in new
    BY <2>2, <2>3, MemberRemoved DEF AgentInv
  <2>6. d \notin crowded' => \A m \in membership' : m[2] = d => m[1] = g
    BY <2>2, <2>3, <2>5
  <2>7. crowded' \ {d} = crowded \ {d}
    BY <2>2
  <2>8. AgentMoves(d, g, A!PermissionsOf(g))
    BY <2>1, <2>2, <2>4, <2>5, <2>6, <2>7 DEF AgentMoves, new
  <2> QED  BY <2>8, AgentMoved
<1>5. ASSUME NEW d \in Did, A!handleAgentRemoved(d) PROVE AgentInv'
  <2>1. /\ cAgent' = [cAgent EXCEPT ![d] = NoGroup] /\ agent' = agent \ {d}
        /\ history' = A!Save(history, d, NoGroup)
        /\ untold' = untold \ {d} /\ UNCHANGED <<cPerms, group, elsewhere>>
        /\ crowded' = IF A!CrowdedAmong(A!MembershipsOf(d) \union {}, elsewhere[d])
                      THEN crowded \union {d} ELSE crowded \ {d}
        /\ membership' \in A!removeMember(d, {})
    BY <1>5 DEF A!handleAgentRemoved, A!handleExternalAgentRemoved, A!Removal
  <2>2. /\ membership' \subseteq membership \union {} /\ IsFiniteSet(membership')
        /\ ~A!CrowdedAmong(A!MembershipsOf(d) \union {}, elsewhere[d]) =>
             \A m \in membership' : m[2] = d => m \in {}
    BY <2>1, FS_EmptySet, MemberRemoved DEF AgentInv
  <2>3. A!MembershipOf(d, NoGroup) = {} /\ NoGroup \notin DOMAIN cPerms /\ NoGroup \notin Fixed
    BY RegistersAssumption DEF A!MembershipOf, AgentInv, AgentTypes
  <2>4. d \notin crowded' => \A m \in membership' : m[2] = d => m[1] = NoGroup
    BY <2>1, <2>2
  <2>5. crowded' \ {d} = crowded \ {d}
    BY <2>1
  <2>6. AgentMoves(d, NoGroup, NoGroup)
    BY <2>1, <2>2, <2>3, <2>4, <2>5 DEF AgentMoves
  <2> QED  BY <2>6, AgentMoved
<1>6. ASSUME NEW d \in Did, NEW n \in 0..ShortPage, A!AgentElsewhere(d, n) PROVE AgentInv'
  <2>1. n \in Nat
    BY RegistersAssumption
  <2> QED  BY <1>6, <2>1
           DEF A!AgentElsewhere, AgentInv, AgentTypes, AgentsSound, A!AgentsSound, A!Has
<1> QED  BY <1>1, <1>2, <1>3, <1>4, <1>5, <1>6 DEF A!Next

-----------------------------------------------------------------------------
(* Compliance requirements.                                                *)

\* Rows are finitely many.
ComplianceInv ==
  /\ IsFiniteSet(DOMAIN rule)
  /\ tied \in BOOLEAN /\ cPaused \in BOOLEAN /\ isCompliancePaused \in BOOLEAN
  /\ ComplianceMirrorsChain

\* There are no requirements at first.
LEMMA ComplianceInit == Q!Init => ComplianceInv
BY FS_EmptySet DEF Q!Init, ComplianceInv, ComplianceMirrorsChain, Q!ComplianceMirrorsChain,
                   Q!NoTable, Q!Has

\* A paged query that needs no second page finds every row.
LEMMA OnePage ==
  ASSUME NEW found \in Q!getPaginatedData(DOMAIN rule), ~Q!Crowded(DOMAIN rule)
  PROVE  found = DOMAIN rule
BY DEF Q!getPaginatedData, Q!FoundAmong, Q!Crowded

\* Every event keeps the rows, the replacement after its paged query too.
LEMMA ComplianceStep == ComplianceInv /\ Q!Next => ComplianceInv'
<1> SUFFICES ASSUME ComplianceInv, Q!Next PROVE ComplianceInv'
  OBVIOUS
<1> USE DEF ComplianceInv, ComplianceMirrorsChain, Q!ComplianceMirrorsChain, Q!Has, Q!Save, Q!Delete,
            Q!ruleVars, Q!trustedVars, Q!pauseVars
<1>1. CASE Q!handleAssetCompliancePaused \/ Q!handleAssetComplianceResumed
  BY <1>1 DEF Q!handleAssetCompliancePaused, Q!handleAssetComplianceResumed
<1>2. ASSUME NEW data \in Data, Q!handleComplianceCreated(data) PROVE ComplianceInv'
  BY <1>2, FS_AddElement DEF Q!handleComplianceCreated
<1>3. ASSUME NEW id \in 1..MaxId, Q!handleComplianceRemoved(id) PROVE ComplianceInv'
  BY <1>3, FS_Subset DEF Q!handleComplianceRemoved
<1>4. ASSUME NEW id \in 1..MaxId, NEW data \in Data, Q!ComplianceRequirementChanged(id, data)
      PROVE ComplianceInv'
  BY <1>4 DEF Q!ComplianceRequirementChanged
<1>5. CASE Q!handleComplianceReset
  BY <1>5, OnePage, FS_Subset DEF Q!handleComplianceReset, Q!NoTable
<1>6. ASSUME NEW ids \in SUBSET (1..MaxId), NEW new \in [ids -> Data],
             Q!handleComplianceReplaced(new)
      PROVE ComplianceInv'
  <2>1. PICK found \in Q!getPaginatedData(DOMAIN rule) : rule' = Q!Replaced(rule, found, new)
    BY <1>6 DEF Q!handleComplianceReplaced
  <2>2. /\ DOMAIN rule' = (DOMAIN rule \ found) \union ids
        /\ \A id \in ids : rule'[id] = new[id]
    BY <2>1 DEF Q!Replaced, Q!SaveAll
  <2>3. IsFiniteSet(DOMAIN rule')
    <3>1. IsFiniteSet(1..MaxId)
      BY RegistersAssumption, FS_Interval, SMT
    <3>2. IsFiniteSet(ids)
      BY <3>1, FS_Subset
    <3>3. IsFiniteSet(DOMAIN rule) /\ DOMAIN rule \ found \subseteq DOMAIN rule
      OBVIOUS
    <3>4. IsFiniteSet(DOMAIN rule \ found)
      BY ONLY <3>3, FS_Subset
    <3> QED  BY ONLY <2>2, <3>2, <3>4, FS_Union
  <2>4. ~Q!Crowded(DOMAIN rule) => DOMAIN rule' = ids
    BY <2>2, OnePage
  <2> QED  BY <1>6, <2>2, <2>3, <2>4 DEF Q!handleComplianceReplaced
<1>7. ASSUME NEW i \in Trusted, \/ Q!handleTrustedDefaultClaimIssuerAdded(i)
                                \/ Q!handleTrustedDefaultClaimIssuerRemoved(i)
      PROVE ComplianceInv'
  BY <1>7 DEF Q!handleTrustedDefaultClaimIssuerAdded, Q!handleTrustedDefaultClaimIssuerRemoved
<1> QED  BY <1>1, <1>2, <1>3, <1>4, <1>5, <1>6, <1>7 DEF Q!Next

-----------------------------------------------------------------------------
(* Offerings.                                                              *)

\* Offerings from an account: they have no row.
FromAccount == {s \in DOMAIN cSto : cSto[s].account}

\* The pallet and the rows; an offering from a portfolio keeps its row even
\* when the indexer has stopped.
OfferingTypes ==
  /\ era \in 1..4 /\ cNow \in Nat /\ invested \in [Sto -> Int]
  /\ DOMAIN cSto \subseteq Sto
  /\ \A s \in DOMAIN cSto : /\ cSto[s].end \in {NoEnd} \union Nat /\ cSto[s].left \in Int
                           /\ DOMAIN cSto[s] = {"status", "end", "account", "left"}
  /\ \A s \in DOMAIN sto : sto[s].remaining \in Int /\ "end" \in DOMAIN sto[s]
  /\ \A s \in Sto \ DOMAIN cSto : invested[s] = 0
  /\ DOMAIN cSto \ FromAccount \subseteq DOMAIN sto

\* A row whose end is another's may get another status only when the offering
\* is closed, for good.
StillOpen == {"Live", "Frozen"}
RowsShown ==
  ~stoStopped =>
    \A s \in DOMAIN cSto \ FromAccount :
      /\ s \notin misread \/ cSto[s].status \in StillOpen => sto[s].status = cSto[s].status
      /\ s \notin misread => sto[s].end = cSto[s].end
      /\ sto[s].remaining - invested[s] = cSto[s].left

StoppedFor == stoStopped => era \in 1..2 \/ FromAccount # {}

OfferingInv == OfferingTypes /\ RowsShown /\ StoppedFor

\* What the chain's version is called.
LEMMA OfferingEras ==
  /\ Len(O!Eras) = 4 /\ DOMAIN O!Eras = 1..4
  /\ era \in 1..4 => (O!is7Dot3Chain <=> era \in 3..4)
<1>1. Len(O!Eras) = 4 /\ DOMAIN O!Eras = 1..4
  BY DEF O!Eras
<1>2. /\ O!Eras[1] = "before 7.0" /\ O!Eras[2] = "7.0"
      /\ O!Eras[3] = "7.3" /\ O!Eras[4] = "8.x"
  BY DEF O!Eras
<1>3. ASSUME era \in 1..4 PROVE O!is7Dot3Chain <=> era \in 3..4
  <2>1. era = 1 \/ era = 2 \/ era = 3 \/ era = 4
    BY <1>3
  <2>2. era \in 3..4 <=> era = 3 \/ era = 4
    BY <1>3
  <2>3. O!Eras[era] \in {"7.3", "8.x"} <=> era = 3 \/ era = 4
    <3>1. /\ (era = 1 => O!Eras[era] = "before 7.0") /\ (era = 2 => O!Eras[era] = "7.0")
          /\ (era = 3 => O!Eras[era] = "7.3") /\ (era = 4 => O!Eras[era] = "8.x")
      BY <1>2
    <3>2. (era = 1 \/ era = 2) => era # 3 /\ era # 4
      OBVIOUS
    <3> QED  BY <2>1, <3>1, <3>2
  <2> QED  BY <2>2, <2>3 DEF O!is7Dot3Chain
<1> QED  BY <1>1, <1>3

\* There are no offerings at first.
LEMMA OfferingInit == O!Init => OfferingInv
<1> SUFFICES ASSUME O!Init PROVE OfferingInv
  OBVIOUS
<1>1. /\ era \in 1..4 /\ cNow = 0 /\ ~stoStopped /\ misread = {}
      /\ DOMAIN cSto = {} /\ DOMAIN sto = {} /\ invested = [s \in Sto |-> 0]
  BY OfferingEras DEF O!Init, O!NoTable
<1>2. FromAccount = {}
  BY <1>1 DEF FromAccount
<1> QED  BY <1>1, <1>2 DEF OfferingInv, OfferingTypes, RowsShown, StoppedFor

\* The invariant says what is checked.
LEMMA OfferingShown == OfferingInv => OfferingsMirrorChain
BY OfferingEras
   DEF OfferingInv, OfferingTypes, RowsShown, StoppedFor, FromAccount, OfferingsMirrorChain,
       O!OfferingsMirrorChain, O!ShownAsIs, O!StopsOnly, O!Has

\* The clock and the upgrades of the chain.
LEMMA OfferingClock == OfferingInv /\ (O!Tick \/ O!Upgrade) => OfferingInv'
<1> SUFFICES ASSUME OfferingInv, O!Tick \/ O!Upgrade PROVE OfferingInv'
  OBVIOUS
<1>1. /\ ~stoStopped /\ UNCHANGED <<cSto, sto, invested, stoStopped, misread>>
      /\ era' \in 1..4 /\ cNow' \in Nat
  <2>1. era \in 1..4 /\ cNow \in Nat
    BY DEF OfferingInv, OfferingTypes
  <2>2. CASE O!Tick
    BY <2>1, <2>2 DEF O!Tick
  <2>3. CASE O!Upgrade
    <3>1. ~stoStopped /\ era < 4 /\ era' = era + 1 /\ cNow' = cNow
          /\ UNCHANGED <<cSto, sto, invested, stoStopped, misread>>
      BY <2>3, OfferingEras DEF O!Upgrade
    <3> QED  BY <2>1, <3>1
  <2> QED  BY <2>2, <2>3
<1>2. FromAccount' = FromAccount
  BY <1>1 DEF FromAccount
<1> QED  BY <1>1, <1>2 DEF OfferingInv, OfferingTypes, RowsShown, StoppedFor

\* A new offering has no investment yet.
LEMMA OfferingCreated ==
  ASSUME OfferingInv, NEW s \in Sto, NEW end \in O!End, NEW account \in BOOLEAN,
         O!handleFundraiserCreated(s, end, account)
  PROVE  OfferingInv'
<1> DEFINE old == FromAccount
<1>1. /\ ~stoStopped /\ s \notin DOMAIN cSto /\ s \notin FromAccount
      /\ UNCHANGED <<era, cNow, invested, stoStopped, misread>>
  BY DEF O!handleFundraiserCreated, O!Has, FromAccount
<1>2. PICK a : a = account
  OBVIOUS
<1>3. cSto' = O!Save(cSto, s, [status |-> "Live", end |-> end, account |-> a, left |-> 2])
  BY <1>2, Zenon DEF O!handleFundraiserCreated, O!Total
<1>4. /\ DOMAIN cSto' = DOMAIN cSto \union {s}
      /\ \A k \in DOMAIN cSto : k # s => cSto'[k] = cSto[k]
      /\ cSto'[s].status = "Live" /\ cSto'[s].end = end /\ cSto'[s].left = 2
      /\ cSto'[s].account = a /\ DOMAIN cSto'[s] = {"status", "end", "account", "left"}
  BY <1>3 DEF O!Save
<1>5. cSto'[s].account = account
  BY <1>2, <1>4, Zenon
<1>6. FromAccount' = FromAccount \union {k \in {s} : account}
  BY <1>1, <1>4, <1>5 DEF FromAccount
<1>7. CASE account
  <2>1. FromAccount' = FromAccount \union {s} /\ sto' = sto
    BY <1>6, <1>7 DEF O!handleFundraiserCreated
  <2> QED  BY <1>1, <1>4, <2>1 DEF OfferingInv, OfferingTypes, RowsShown, StoppedFor, O!End
<1>8. CASE ~account
  <2>1. FromAccount' = FromAccount
    BY <1>6, <1>8
  <2>2. sto' = O!Save(sto, s, [status |-> "Live", end |-> end, offChain |-> FALSE, remaining |-> 2])
    BY <1>8 DEF O!handleFundraiserCreated, O!Total
  <2>3. /\ DOMAIN sto' = DOMAIN sto \union {s}
        /\ \A k \in DOMAIN sto : k # s => sto'[k] = sto[k]
        /\ sto'[s].status = "Live" /\ sto'[s].end = end /\ sto'[s].remaining = 2
        /\ "end" \in DOMAIN sto'[s]
    BY <2>2 DEF O!Save
  <2> QED  BY <1>1, <1>4, <2>1, <2>3 DEF OfferingInv, OfferingTypes, RowsShown, StoppedFor, O!End
<1> QED  BY <1>7, <1>8

\* A change of the pallet's status or end of an open offering.
LEMMA OfferingChanged ==
  ASSUME OfferingInv, NEW s \in DOMAIN cSto,
         DOMAIN cSto' = DOMAIN cSto, \A k \in DOMAIN cSto : k # s => cSto'[k] = cSto[k],
         cSto'[s].account = cSto[s].account
  PROVE  FromAccount' = FromAccount
BY DEF FromAccount

\* Before 7.3.0 an event may stop the indexer, later only one of an offering
\* from an account can.
LEMMA OfferingStatus ==
  ASSUME OfferingInv, NEW s \in Sto, NEW event \in O!StatusEvent, NEW call \in O!Call,
         O!handleFundraiserStatus(s, event, call)
  PROVE  OfferingInv'
<1>1. /\ ~stoStopped /\ s \in DOMAIN cSto /\ UNCHANGED <<era, cNow, invested, misread>>
      /\ cSto' = [cSto EXCEPT ![s].status = O!PalletStatus(event, cSto[s].end)]
  BY DEF O!handleFundraiserStatus, O!Open, O!Has, O!Stop
<1>2. PICK new : new = O!PalletStatus(event, cSto[s].end)
  OBVIOUS
<1>3. /\ DOMAIN cSto' = DOMAIN cSto /\ \A k \in DOMAIN cSto : k # s => cSto'[k] = cSto[k]
      /\ cSto'[s] = [cSto[s] EXCEPT !.status = new]
  BY <1>1, <1>2
<1>4. DOMAIN cSto'[s] = DOMAIN cSto[s]
  BY <1>3
<1>5. cSto'[s].end = cSto[s].end /\ cSto'[s].left = cSto[s].left
  BY <1>3
<1>6. cSto'[s].account = cSto[s].account
  BY <1>3
<1>7. FromAccount' = FromAccount
  BY <1>1, <1>3, <1>6, OfferingChanged
<1>8. CASE O!Stop
  <2>1. era \in 1..2 \/ FromAccount # {}
    <3>1. O!getOfferingAssetThrows(call) \/ O!Row(s, call) = {}
      BY <1>8, <1>1 DEF O!handleFundraiserStatus, O!Stop
    <3> QED  BY <1>1, <3>1, OfferingEras
             DEF O!getOfferingAssetThrows, O!Row, O!OfferingAssetFound, OfferingInv, OfferingTypes
  <2> QED  BY <1>1, <1>3, <1>4, <1>5, <1>7, <1>8, <2>1
           DEF OfferingInv, OfferingTypes, RowsShown, StoppedFor, O!Stop
<1>9. CASE ~O!Stop
  <2>1. /\ O!Row(s, call) # {} /\ UNCHANGED stoStopped
        /\ sto' = [sto EXCEPT ![s].status = O!NewStatus(event, sto[s].end)]
    BY <1>9 DEF O!handleFundraiserStatus
  <2>2. s \in DOMAIN sto
    BY <2>1 DEF O!Row
  <2>3. PICK shown : shown = O!NewStatus(event, sto[s].end)
    OBVIOUS
  <2>4. /\ DOMAIN sto' = DOMAIN sto /\ \A k \in DOMAIN sto : k # s => sto'[k] = sto[k]
        /\ sto'[s] = [sto[s] EXCEPT !.status = shown]
    BY <2>1, <2>2, <2>3
  <2>9. DOMAIN sto'[s] = DOMAIN sto[s]
    BY <2>4
  <2>5. sto'[s].end = sto[s].end /\ sto'[s].remaining = sto[s].remaining
    BY <2>4
  <2>6. s \notin FromAccount /\ (s \notin misread \/ cSto'[s].status \in StillOpen)
          => sto'[s].status = cSto'[s].status
    <3>1. s \notin FromAccount \union misread => sto[s].end = cSto[s].end
      BY <1>1 DEF OfferingInv, RowsShown
    <3>5. new \in StillOpen => shown = new
      BY <1>2, <2>3 DEF O!NewStatus, O!PalletStatus, O!StatusEvent, StillOpen
    <3>2. cSto[s].end = NoEnd \/ cSto[s].end \in Nat
      BY <1>1 DEF OfferingInv, OfferingTypes
    <3>3. sto[s].end = cSto[s].end => shown = new
      BY <1>2, <2>3, <3>2
         DEF O!NewStatus, O!PalletStatus, O!Closed, O!Expired, O!StatusEvent, OfferingInv, OfferingTypes
    <3>4. cSto'[s].status = new /\ sto'[s].status = shown
      <4>1. cSto'[s].status = new
        BY <1>3
      <4>2. sto'[s].status = shown
        BY <2>4
      <4> QED  BY <4>1, <4>2
    <3> QED  BY <3>1, <3>3, <3>4, <3>5
  <2>7. OfferingTypes'
    BY <1>1, <1>3, <1>4, <1>5, <1>7, <2>2, <2>4, <2>5, <2>9 DEF OfferingInv, OfferingTypes
  <2>8. RowsShown'
    <3>1. ASSUME NEW k \in DOMAIN cSto \ FromAccount, k # s
          PROVE  /\ k \notin misread \/ cSto'[k].status \in StillOpen
                      => sto'[k].status = cSto'[k].status
                 /\ k \notin misread => sto'[k].end = cSto'[k].end
                 /\ sto'[k].remaining - invested[k] = cSto'[k].left
      BY <1>1, <1>3, <2>4, <3>1 DEF OfferingInv, OfferingTypes, RowsShown
    <3>2. ASSUME s \notin FromAccount
          PROVE  /\ s \notin misread => sto'[s].end = cSto'[s].end
                 /\ sto'[s].remaining - invested[s] = cSto'[s].left
      BY <1>1, <1>5, <2>5, <3>2 DEF OfferingInv, RowsShown
    <3> QED  BY <1>1, <1>3, <1>7, <2>6, <3>1, <3>2 DEF RowsShown
  <2> QED  BY <1>1, <1>7, <2>1, <2>7, <2>8 DEF OfferingInv, StoppedFor
<1> QED  BY <1>8, <1>9

\* A window changed by a nested call before 7.3.0 is recorded as misread.
LEMMA OfferingWindow ==
  ASSUME OfferingInv, NEW s \in Sto, NEW end \in O!End, NEW call \in O!Call,
         O!handleFundraiserWindowModified(s, end, call)
  PROVE  OfferingInv'
<1>1. /\ ~stoStopped /\ s \in DOMAIN cSto /\ UNCHANGED <<era, cNow, invested>>
      /\ cSto' = [cSto EXCEPT ![s].end = end]
  BY DEF O!handleFundraiserWindowModified, O!Open, O!Has, O!Stop
<1>2. /\ DOMAIN cSto' = DOMAIN cSto /\ \A k \in DOMAIN cSto : k # s => cSto'[k] = cSto[k]
      /\ cSto'[s] = [cSto[s] EXCEPT !.end = end]
  BY <1>1
<1>3. cSto'[s].left = cSto[s].left /\ DOMAIN cSto'[s] = DOMAIN cSto[s]
  BY <1>2
<1>4. cSto'[s].status = cSto[s].status
  BY <1>2
<1>5. cSto'[s].account = cSto[s].account
  BY <1>2
<1>6. FromAccount' = FromAccount
  BY <1>1, <1>2, <1>5, OfferingChanged
<1>7. cSto'[s].end \in {NoEnd} \union Nat
  <2>1. cSto'[s].end = end \/ cSto'[s].end = cSto[s].end
    BY <1>2
  <2> QED  BY <1>1, <2>1 DEF OfferingInv, OfferingTypes, O!End
<1>8. CASE O!getOfferingAssetThrows(call)
  <2>1. era \in 1..2 /\ stoStopped' /\ UNCHANGED <<sto, misread>>
    BY <1>8, OfferingEras
       DEF O!handleFundraiserWindowModified, O!Stop, O!getOfferingAssetThrows,
           OfferingInv, OfferingTypes
  <2> QED  BY <1>1, <1>2, <1>3, <1>6, <1>7, <2>1
           DEF OfferingInv, OfferingTypes, RowsShown, StoppedFor
<1>9. CASE ~O!getOfferingAssetThrows(call)
  <2>1. /\ UNCHANGED stoStopped
        /\ sto' = [k \in DOMAIN sto |->
                     IF k \in O!Row(s, call) THEN [sto[k] EXCEPT !.end = end] ELSE sto[k]]
        /\ misread' = IF O!OfferingAssetFound(call) THEN misread \ {s} ELSE misread \union {s}
    BY <1>9 DEF O!handleFundraiserWindowModified
  <2>2. /\ DOMAIN sto' = DOMAIN sto /\ \A k \in DOMAIN sto : k # s => sto'[k] = sto[k]
        /\ O!OfferingAssetFound(call) /\ s \in DOMAIN sto => sto'[s] = [sto[s] EXCEPT !.end = end]
        /\ ~O!OfferingAssetFound(call) /\ s \in DOMAIN sto => sto'[s] = sto[s]
    BY <2>1 DEF O!Row
  <2>3. s \in DOMAIN sto => sto'[s].remaining = sto[s].remaining
    <3>1. CASE s \in DOMAIN sto /\ O!OfferingAssetFound(call)
      <4>1. sto'[s] = [sto[s] EXCEPT !.end = end]
        BY <2>2, <3>1
      <4> QED  BY <4>1
    <3> QED  BY <2>2, <3>1
  <2>4. s \in DOMAIN sto => sto'[s].status = sto[s].status
    <3>1. CASE s \in DOMAIN sto /\ O!OfferingAssetFound(call)
      <4>1. sto'[s] = [sto[s] EXCEPT !.end = end]
        BY <2>2, <3>1
      <4> QED  BY <4>1
    <3> QED  BY <2>2, <3>1
  <2>10. \A k \in DOMAIN sto : DOMAIN sto'[k] = DOMAIN sto[k]
    BY <2>1
  <2>5. /\ cSto[s].status \in StillOpen
        /\ s \notin FromAccount => s \in DOMAIN sto
        /\ s \notin misread' => O!OfferingAssetFound(call)
    BY <1>1, <2>1
       DEF OfferingInv, OfferingTypes, StillOpen, O!handleFundraiserWindowModified, O!Open
  <2>6. s \notin FromAccount \union misread' => sto'[s].end = cSto'[s].end
    <3>1. ASSUME s \notin FromAccount \union misread'
          PROVE  sto'[s].end = cSto'[s].end
      <4>1. sto'[s] = [sto[s] EXCEPT !.end = end] /\ cSto'[s] = [cSto[s] EXCEPT !.end = end]
        BY <1>2, <2>2, <2>5, <3>1
      <4>2. "end" \in DOMAIN sto[s] /\ "end" \in DOMAIN cSto[s]
        BY <1>1, <2>5, <3>1 DEF OfferingInv, OfferingTypes
      <4>3. sto'[s].end = end
        BY <4>1, <4>2
      <4>4. cSto'[s].end = end
        BY <4>1, <4>2
      <4> QED  BY <4>3, <4>4
    <3> QED  BY <3>1
  <2>7. misread \ {s} = misread' \ {s}
    BY <2>1
  <2>8. OfferingTypes'
    BY <1>1, <1>2, <1>3, <1>6, <1>7, <2>2, <2>3, <2>10 DEF OfferingInv, OfferingTypes
  <2>9. RowsShown'
    <3>1. ASSUME NEW k \in DOMAIN cSto \ FromAccount, k # s
          PROVE  /\ k \notin misread' \/ cSto'[k].status \in StillOpen
                      => sto'[k].status = cSto'[k].status
                 /\ k \notin misread' => sto'[k].end = cSto'[k].end
                 /\ sto'[k].remaining - invested[k] = cSto'[k].left
      BY <1>1, <1>2, <2>2, <2>7, <3>1 DEF OfferingInv, OfferingTypes, RowsShown
    <3>2. ASSUME s \notin FromAccount
          PROVE  /\ sto'[s].status = cSto'[s].status
                 /\ sto'[s].remaining - invested[s] = cSto'[s].left
      BY <1>1, <1>3, <1>4, <2>3, <2>4, <2>5, <3>2 DEF OfferingInv, RowsShown
    <3> QED  BY <1>1, <1>2, <1>6, <2>1, <2>6, <3>1, <3>2 DEF RowsShown
  <2> QED  BY <1>1, <1>6, <2>1, <2>8, <2>9 DEF OfferingInv, StoppedFor
<1> QED  BY <1>8, <1>9

\* Only a note in the row.
LEMMA OfferingFunding ==
  ASSUME OfferingInv, NEW s \in Sto, O!handleFundraiserOffchainFundingEnabled(s)
  PROVE  OfferingInv'
<1>1. /\ ~stoStopped /\ s \in DOMAIN cSto
      /\ UNCHANGED <<era, cNow, cSto, invested, stoStopped, misread>>
      /\ sto' = [k \in DOMAIN sto |-> IF k = s THEN [sto[k] EXCEPT !.offChain = TRUE] ELSE sto[k]]
  BY DEF O!handleFundraiserOffchainFundingEnabled, O!pallet, O!Open, O!Has
<1>2. PICK yes : yes = TRUE
  OBVIOUS
<1>3. /\ DOMAIN sto' = DOMAIN sto /\ \A k \in DOMAIN sto : k # s => sto'[k] = sto[k]
      /\ s \in DOMAIN sto => sto'[s] = [sto[s] EXCEPT !.offChain = yes]
  BY <1>1, <1>2, Zenon
<1>4. s \in DOMAIN sto => /\ sto'[s].end = sto[s].end
                          /\ sto'[s].status = sto[s].status
                          /\ sto'[s].remaining = sto[s].remaining
  <2>1. CASE s \in DOMAIN sto
    <3>1. sto'[s] = [sto[s] EXCEPT !.offChain = yes]
      BY <1>3, <2>1
    <3>2. sto'[s].end = sto[s].end
      BY <3>1
    <3>3. sto'[s].status = sto[s].status
      BY <3>1
    <3>4. sto'[s].remaining = sto[s].remaining
      BY <3>1
    <3> QED  BY <3>2, <3>3, <3>4
  <2> QED  BY <2>1
<1>5. FromAccount' = FromAccount
  BY <1>1 DEF FromAccount
<1>6. s \in DOMAIN sto => DOMAIN sto'[s] = DOMAIN sto[s]
  BY <1>3
<1> QED  BY <1>1, <1>3, <1>4, <1>5, <1>6 DEF OfferingInv, OfferingTypes, RowsShown, StoppedFor

\* What the pallet has left goes down as an Investment row is made.
LEMMA OfferingInvested ==
  ASSUME OfferingInv, NEW s \in Sto, O!handleInvested(s)
  PROVE  OfferingInv'
<1>1. /\ ~stoStopped /\ s \in DOMAIN cSto
      /\ UNCHANGED <<era, cNow, sto, stoStopped, misread>>
      /\ cSto' = [cSto EXCEPT ![s].left = @ - 1]
      /\ invested' = [invested EXCEPT ![s] = @ + 1]
  BY DEF O!handleInvested, O!Open, O!Has
<1>2. /\ DOMAIN cSto' = DOMAIN cSto /\ \A k \in DOMAIN cSto : k # s => cSto'[k] = cSto[k]
      /\ cSto'[s] = [cSto[s] EXCEPT !.left = @ - 1]
  BY <1>1
<1>3. cSto'[s].end = cSto[s].end /\ DOMAIN cSto'[s] = DOMAIN cSto[s]
  BY <1>2
<1>4. cSto'[s].status = cSto[s].status
  BY <1>2
<1>5. cSto'[s].account = cSto[s].account
  BY <1>2
<1>6. FromAccount' = FromAccount
  BY <1>1, <1>2, <1>5, OfferingChanged
<1>7. invested[s] \in Int /\ cSto[s].left \in Int
  BY <1>1 DEF OfferingInv, OfferingTypes
<1>8. s \notin FromAccount => sto[s].remaining \in Int
  BY <1>1 DEF OfferingInv, OfferingTypes
<1>9. /\ invested' \in [Sto -> Int] /\ invested'[s] = invested[s] + 1
      /\ \A k \in Sto : k # s => invested'[k] = invested[k]
  BY <1>1, <1>7 DEF OfferingInv, OfferingTypes
<1>10. "left" \in DOMAIN cSto[s]
  BY <1>1 DEF OfferingInv, OfferingTypes
<1>11. cSto'[s].left = cSto[s].left - 1
  BY <1>2, <1>10
<1> QED  BY <1>1, <1>2, <1>3, <1>4, <1>6, <1>7, <1>8, <1>9, <1>11
         DEF OfferingInv, OfferingTypes, RowsShown, StoppedFor

\* Every event of an offering.
LEMMA OfferingStep == OfferingInv /\ O!Next => OfferingInv'
BY OfferingClock, OfferingCreated, OfferingStatus, OfferingWindow, OfferingFunding, OfferingInvested
   DEF O!Next

-----------------------------------------------------------------------------
(* One register moves at a time, and a step of another leaves it alone.    *)

\* The invariant of the agents holds in every state of the registers.
LEMMA AgentAlways == Spec => []AgentInv
<1>1. Init => AgentInv
  BY AgentInit DEF Init
<1>2. AgentInv /\ [Next]_vars => AgentInv'
  <2> SUFFICES ASSUME AgentInv, [Next]_vars PROVE AgentInv'
    OBVIOUS
  <2>1. A!Next \/ UNCHANGED agentVars
    BY DEF Next, Only, vars, Rules
  <2>2. CASE A!Next
    BY <2>2, AgentStep
  <2>3. CASE UNCHANGED agentVars
    BY <2>3 DEF agentVars, AgentInv, AgentTypes, AgentsSound, A!AgentsSound
  <2> QED  BY <2>1, <2>2, <2>3
<1> QED  BY <1>1, <1>2, PTL DEF Spec

\* The invariant of the requirements holds in every state of the registers.
LEMMA ComplianceAlways == Spec => []ComplianceInv
<1>1. Init => ComplianceInv
  BY ComplianceInit DEF Init
<1>2. ComplianceInv /\ [Next]_vars => ComplianceInv'
  <2> SUFFICES ASSUME ComplianceInv, [Next]_vars PROVE ComplianceInv'
    OBVIOUS
  <2>1. Q!Next \/ UNCHANGED complianceVars
    BY DEF Next, Only, vars, Rules
  <2>2. CASE Q!Next
    BY <2>2, ComplianceStep
  <2>3. CASE UNCHANGED complianceVars
    BY <2>3 DEF complianceVars, ComplianceInv, ComplianceMirrorsChain, Q!ComplianceMirrorsChain
  <2> QED  BY <2>1, <2>2, <2>3
<1> QED  BY <1>1, <1>2, PTL DEF Spec

\* The invariant of the offerings holds in every state of the registers.
LEMMA OfferingAlways == Spec => []OfferingInv
<1>1. Init => OfferingInv
  BY OfferingInit DEF Init
<1>2. OfferingInv /\ [Next]_vars => OfferingInv'
  <2> SUFFICES ASSUME OfferingInv, [Next]_vars PROVE OfferingInv'
    OBVIOUS
  <2>1. O!Next \/ UNCHANGED offeringVars
    BY DEF Next, Only, vars, Rules
  <2>2. CASE O!Next
    BY <2>2, OfferingStep
  <2>3. CASE UNCHANGED offeringVars
    BY <2>3 DEF offeringVars, OfferingInv, OfferingTypes, RowsShown, StoppedFor, FromAccount
  <2> QED  BY <2>1, <2>2, <2>3
<1> QED  BY <1>1, <1>2, PTL DEF Spec

\* In every state of the registers no identity is shown as the member of a
\* group it has left, and the history of an agent tells its permissions.
THEOREM AgentsAlwaysSound == Spec => []AgentsSound
<1>1. AgentInv => AgentsSound
  BY DEF AgentInv
<1> QED  BY <1>1, AgentAlways, PTL

\* In every state each requirement has its row, and no other is left unless a
\* reset or a replacement needed a second page.
THEOREM ComplianceAlwaysMirrorsChain == Spec => []ComplianceMirrorsChain
<1>1. ComplianceInv => ComplianceMirrorsChain
  BY DEF ComplianceInv
<1> QED  BY <1>1, ComplianceAlways, PTL

\* In every state an offering is shown with the status, the end and the rest
\* the chain gives it, and the indexer has stopped only where it may.
THEOREM OfferingsAlwaysMirrorChain == Spec => []OfferingsMirrorChain
<1> QED  BY OfferingShown, OfferingAlways, PTL

-----------------------------------------------------------------------------
(* Transfer rules.                                                         *)

Count == R!Unscoped("Count")
Older == rulesChain = "before 5"

\* Nothing of the one kind of rules exists while the other is in force.
RulesApart ==
  /\ Older => cStat = {} /\ cCondition = {} /\ DOMAIN compliance = {} /\ cExempt = {}
  /\ ~Older => DOMAIN cManager = {}

ManagersInv ==
  /\ cSupply \in Nat /\ totalSupply = cSupply
  /\ Older => (Count \in stat <=> cSupply > 0) /\ manager = cManager

\* The row of a condition is one of the conditions that share its id, and there
\* is no other unless a page passed over it.
ConditionsInv ==
  /\ cStat \subseteq R!Stat /\ cStat \subseteq stat
  /\ ~Older => \A s \in stat :
       R!Plain(s) => s \in cStat \/ (rulesChain = "private" /\ s = Count)
  /\ \A c \in cCondition : c[1] \in cStat
  /\ \A c \in cCondition :
       LET id == R!PlainId(c[1])
       IN  /\ id \in DOMAIN compliance
           /\ compliance[id] \in cCondition /\ R!PlainId(compliance[id][1]) = id
  /\ ~conditionsTied => \A id \in DOMAIN compliance : compliance[id] \in cCondition

\* Whom nobody else ever exempted has one exemption and one row, or none.
ExemptionsInv ==
  /\ cExempt \subseteq R!Stat \X Entity
  /\ Older =>
       /\ \A id \in DOMAIN exemption : id = <<exemption[id].entity>>
       /\ \A e \in Entity \ shared :
            /\ <<e>> \in DOMAIN exemption => \E m \in DOMAIN cManager : e \in cManager[m]
            /\ \A m \in DOMAIN cManager : e \in cManager[m] =>
                 <<e>> \in DOMAIN exemption /\ exemption[<<e>>].op = m[1]
            /\ \A m, n \in DOMAIN cManager : e \in cManager[m] /\ e \in cManager[n] => m = n
  /\ ~Older =>
       /\ \A id \in DOMAIN exemption : exemption[id].entity = id[2]
       /\ \A e \in Entity \ shared :
            /\ \A id \in DOMAIN exemption : id[2] = e =>
                 \E s \in R!Stat : <<s, e>> \in cExempt /\ id = R!ExemptionId(s, e)
            /\ \A s \in R!Stat : <<s, e>> \in cExempt => R!ExemptionId(s, e) \in DOMAIN exemption
            /\ \A s, t \in R!Stat : <<s, e>> \in cExempt /\ <<t, e>> \in cExempt => s = t

RulesInv ==
  /\ rulesChain \in {"before 5", "since 5", "private"}
  /\ RulesApart /\ ManagersInv /\ ConditionsInv /\ ExemptionsInv

\* There are no rules at first.
LEMMA RulesInit == R!Init => RulesInv
<1> SUFFICES ASSUME R!Init PROVE RulesInv
  OBVIOUS
<1>1. /\ rulesChain \in {"before 5", "since 5", "private"}
      /\ cExempt = {} /\ cStat = {} /\ cCondition = {} /\ cSupply = 0
      /\ DOMAIN cManager = {} /\ manager = cManager /\ DOMAIN exemption = {} /\ stat = {}
      /\ DOMAIN compliance = {} /\ totalSupply = 0
  BY DEF R!Init, R!NoTable
<1>2. RulesApart
  BY <1>1 DEF RulesApart
<1>5. ManagersInv
  <2>1. cSupply \in Nat /\ ~(cSupply > 0) /\ totalSupply = cSupply
    <3>1. cSupply = 0 /\ totalSupply = 0
      BY <1>1, Zenon
    <3> QED  BY <3>1
  <2> QED  BY <1>1, <2>1, Zenon DEF ManagersInv
<1>3. ConditionsInv
  BY <1>1 DEF ConditionsInv
<1>4. ExemptionsInv
  BY <1>1 DEF ExemptionsInv
<1> QED  BY <1>1, <1>2, <1>3, <1>4, <1>5 DEF RulesInv

\* A condition that shares its id with no other has its row.
LEMMA ConditionRows ==
  ASSUME ConditionsInv, NEW c \in cCondition,
         \A d \in cCondition : R!PlainId(d[1]) = R!PlainId(c[1]) => d = c
  PROVE  R!PlainId(c[1]) \in DOMAIN compliance /\ compliance[R!PlainId(c[1])] = c
BY DEF ConditionsInv

\* The invariant says what is checked.
LEMMA RulesShown == RulesInv => RulesMirrorChain
<1> SUFFICES ASSUME RulesInv PROVE RulesMirrorChain
  OBVIOUS
<1>1. R!ManagersShown
  BY DEF R!ManagersShown, RulesInv, ManagersInv, Count, R!Before5, Older
<1>2. R!ConditionsShown
  BY ConditionRows DEF R!ConditionsShown, RulesInv, ConditionsInv, R!Has, R!Before5, R!Since5,
                          Older, Count
<1>3. R!ExemptionsShown
  <2> SUFFICES ASSUME NEW e \in Entity \ shared
               PROVE  (\E id \in DOMAIN exemption : exemption[id].entity = e)
                        <=> \/ \E x \in cExempt : x[2] = e
                            \/ \E m \in DOMAIN cManager : e \in cManager[m]
    BY DEF R!ExemptionsShown
  <2>1. CASE Older
    <3>1. (\E id \in DOMAIN exemption : exemption[id].entity = e) <=> <<e>> \in DOMAIN exemption
      <4>1. <<e>> \in DOMAIN exemption => <<exemption[<<e>>].entity>> = <<e>>
        BY <2>1 DEF RulesInv, ExemptionsInv
      <4>2. ASSUME NEW x, <<x>> = <<e>> PROVE x = e
        BY <4>2
      <4> QED  BY <2>1, <4>1, <4>2 DEF RulesInv, ExemptionsInv
    <3>2. cExempt = {}
      BY <2>1 DEF RulesInv, RulesApart
    <3> QED  BY <2>1, <3>1, <3>2 DEF RulesInv, ExemptionsInv
  <2>2. CASE ~Older
    <3>1. DOMAIN cManager = {}
      BY <2>2 DEF RulesInv, RulesApart
    <3>2. ASSUME NEW id \in DOMAIN exemption, exemption[id].entity = e
          PROVE  \E x \in cExempt : x[2] = e
      <4>1. PICK s \in R!Stat : <<s, e>> \in cExempt
        BY <2>2, <3>2 DEF RulesInv, ExemptionsInv
      <4> QED  BY <4>1
    <3>3. ASSUME NEW x \in cExempt, x[2] = e
          PROVE  \E id \in DOMAIN exemption : exemption[id].entity = e
      <4>0. cExempt \subseteq R!Stat \X Entity
        BY DEF RulesInv, ExemptionsInv
      <4>1. x[1] \in R!Stat /\ x = <<x[1], e>>
        BY <3>3, <4>0
      <4>2. R!ExemptionId(x[1], e) \in DOMAIN exemption
        BY <2>2, <4>1 DEF RulesInv, ExemptionsInv
      <4>3. R!ExemptionId(x[1], e)[2] = e
        BY DEF R!ExemptionId
      <4> QED  BY <2>2, <4>2, <4>3 DEF RulesInv, ExemptionsInv
    <3> QED  BY <3>1, <3>2, <3>3
  <2> QED  BY <2>1, <2>2
<1> QED  BY <1>1, <1>2, <1>3 DEF RulesMirrorChain, R!RulesMirrorChain

\* What is built from a statistic does not depend on the state.
LEMMA RuleIds ==
  /\ \A s : R!PlainId(s)' = R!PlainId(s) /\ (R!Plain(s)' <=> R!Plain(s))
  /\ \A s, e : R!ExemptionId(s, e)' = R!ExemptionId(s, e)
  /\ Count' = Count /\ R!Stat' = R!Stat
BY DEF R!PlainId, R!Plain, R!ExemptionId, Count, R!Unscoped, R!Stat, R!Op, R!StatScope, R!NoCustom

\* A count is not a balance.
LEMMA RuleOfBalance == Count # R!Unscoped("Balance")
BY DEF Count, R!Unscoped

\* What a list has is of the kind it lists.
LEMMA Listed == ASSUME NEW S, NEW list \in R!Lists(S) PROVE list \subseteq S
BY DEF R!Lists

\* What a paged query of the exemptions finds.
LEMMA PagedExemptions ==
  ASSUME NEW found \in R!getPaginatedData(DOMAIN exemption)
  PROVE  /\ found \subseteq DOMAIN exemption
         /\ ~R!Crowded(DOMAIN exemption) => found = DOMAIN exemption
BY DEF R!getPaginatedData, R!FoundAmong, R!Crowded

\* What has to stay for the managers to.
LEMMA ManagersKept ==
  ASSUME ManagersInv, UNCHANGED <<rulesChain, cSupply, totalSupply, manager, cManager>>,
         Older => stat' = stat
  PROVE  ManagersInv'
BY RuleIds DEF ManagersInv, Older

\* What has to stay for the conditions to.
LEMMA ConditionsKept ==
  ASSUME ConditionsInv,
         UNCHANGED <<rulesChain, cStat, stat, cCondition, compliance, conditionsTied>>
  PROVE  ConditionsInv'
BY RuleIds DEF ConditionsInv, Older

\* What has to stay for the exemptions to.
LEMMA ExemptionsKept ==
  ASSUME ExemptionsInv, UNCHANGED <<rulesChain, cExempt, exemption, shared>>,
         Older => UNCHANGED cManager
  PROVE  ExemptionsInv'
BY RuleIds DEF ExemptionsInv, Older

\* The count of the holders comes and goes with the supply; on a private chain it
\* comes, and nothing else does.
LEMMA RulesSupply ==
  ASSUME RulesInv, R!Issue \/ \E amount \in 1..MaxIssued : R!Redeem(amount)
  PROVE  RulesInv'
<1>1. /\ UNCHANGED <<rulesChain, cStat, cManager, manager, cExempt, shared, exemption,
                     cCondition, compliance, conditionsTied>>
      /\ rulesChain \in {"before 5", "since 5", "private"}
  BY DEF R!Issue, R!Redeem, R!managerVars, R!exemptVars, R!conditionVars, RulesInv
<1>0. cSupply \in Nat /\ totalSupply = cSupply
  BY DEF RulesInv, ManagersInv
<1>2. RulesApart' /\ ExemptionsInv'
  BY <1>1, ExemptionsKept DEF RulesInv, RulesApart, Older
<1>3. ASSUME stat' = stat \/ (~Older => rulesChain = "private" /\ stat' = stat \union {Count}),
             cSupply' \in Nat, totalSupply' = cSupply',
             Older => (Count \in stat' <=> cSupply' > 0)
      PROVE  RulesInv'
  <2>1. Older => cStat = {}
    BY DEF RulesInv, RulesApart
  <2>2. cStat' \subseteq stat'
    BY <1>1, <1>3, <2>1 DEF RulesInv, ConditionsInv
  <2>3. ~Older => \A s \in stat' :
          R!Plain(s) => s \in cStat' \/ (rulesChain = "private" /\ s = Count)
    <3>1. ~Older => \A s \in stat :
            R!Plain(s) => s \in cStat \/ (rulesChain = "private" /\ s = Count)
      BY DEF RulesInv, ConditionsInv
    <3>2. ~Older => stat' = stat \/ (rulesChain = "private" /\ stat' = stat \union {Count})
      BY <1>3
    <3>3. cStat' = cStat
      BY <1>1
    <3> QED  BY <3>1, <3>2, <3>3
  <2>4. ConditionsInv'
    BY <1>1, <2>2, <2>3, RuleIds DEF RulesInv, ConditionsInv, Older
  <2>5. ManagersInv'
    BY <1>1, <1>3, RuleIds DEF RulesInv, ManagersInv, Older
  <2> QED  BY <1>1, <1>2, <2>4, <2>5 DEF RulesInv
<1>4. CASE R!Issue
  <2>1. /\ cSupply' = cSupply + 1 /\ totalSupply' = totalSupply + 1
        /\ stat' = IF R!OldSpec THEN stat \union {Count} ELSE stat
    BY <1>4 DEF R!Issue, R!StatTypeId, Count
  <2>2. R!OldSpec <=> rulesChain # "since 5"
    BY DEF R!OldSpec
  <2>3. Older => stat' = stat \union {Count}
    BY <2>1, <2>2 DEF Older
  <2>4. rulesChain = "private" => stat' = stat \union {Count}
    BY <2>1, <2>2
  <2>5. rulesChain = "since 5" => stat' = stat
    BY <2>1, <2>2
  <2>6. stat' = stat \/ (~Older => rulesChain = "private" /\ stat' = stat \union {Count})
    BY <1>1, <2>3, <2>4, <2>5 DEF Older
  <2>7. cSupply' \in Nat /\ totalSupply' = cSupply' /\ cSupply' > 0
    BY <1>0, <2>1
  <2>8. Older => Count \in stat'
    BY <2>3
  <2> QED  BY <1>3, <2>6, <2>7, <2>8
<1>5. ASSUME NEW amount \in 1..MaxIssued, R!Redeem(amount) PROVE RulesInv'
  <2>1. amount \in Nat \ {0}
    BY RegistersAssumption
  <2>2. /\ amount <= cSupply /\ cSupply' = cSupply - amount
        /\ totalSupply' = totalSupply - amount
        /\ stat' = IF R!OldSpec /\ rulesChain # "private" /\ totalSupply - amount = 0
                   THEN stat \ {Count} ELSE stat
    BY <1>5 DEF R!Redeem, R!Remaining, Count
  <2>3. R!OldSpec /\ rulesChain # "private" <=> Older
    BY <1>1 DEF R!OldSpec, Older
  <2>4. stat' = IF Older /\ totalSupply - amount = 0 THEN stat \ {Count} ELSE stat
    BY <2>2, <2>3
  <2>5. Older => (Count \in stat <=> cSupply > 0)
    BY DEF RulesInv, ManagersInv
  <2>6. /\ cSupply' \in Nat /\ totalSupply' = cSupply'
        /\ cSupply > 0 /\ (cSupply' > 0 <=> totalSupply - amount # 0)
    BY <1>0, <2>1, <2>2
  <2>7. Older => (Count \in stat' <=> cSupply' > 0)
    <3>1. CASE Older /\ totalSupply - amount = 0
      BY <2>4, <2>6, <3>1
    <3>2. CASE Older /\ totalSupply - amount # 0
      BY <2>4, <2>5, <2>6, <3>2
    <3> QED  BY <3>1, <3>2
  <2>8. ~Older => stat' = stat
    BY <2>4
  <2>9. stat' = stat \/ (~Older => rulesChain = "private" /\ stat' = stat \union {Count})
    BY <2>8
  <2> QED  BY <1>3, <2>6, <2>7, <2>9
<1> QED  BY <1>4, <1>5

\* Managers come and go.
LEMMA RulesManagers ==
  ASSUME RulesInv, NEW m \in R!Manager,
         R!handleTransferManagerAdded(m) \/ R!handleTransferManagerRemoved(m)
  PROVE  RulesInv'
<1>1. /\ Older /\ UNCHANGED <<rulesChain, cStat, cExempt, shared, exemption,
                               cCondition, compliance, conditionsTied,
                               cSupply, totalSupply>>
      /\ cStat = {} /\ cCondition = {} /\ DOMAIN compliance = {} /\ cExempt = {}
      /\ manager = cManager
  BY DEF Older, R!Before5, R!Since5,
         R!handleTransferManagerAdded, R!handleTransferManagerRemoved, R!statVars, R!supplyVars,
         R!exemptVars, R!conditionVars, RulesInv, RulesApart, ManagersInv
<1>2. manager' = cManager' /\ (Count \in stat' <=> Count \in stat)
  BY <1>1, Zenon, RuleOfBalance
     DEF R!handleTransferManagerAdded, R!handleTransferManagerRemoved, R!statVars
<1>3. CASE R!handleTransferManagerAdded(m)
  <2>1. /\ m \notin DOMAIN cManager /\ DOMAIN cManager' = DOMAIN cManager \union {m}
        /\ cManager'[m] = {} /\ \A n \in DOMAIN cManager : cManager'[n] = cManager[n]
    BY <1>3 DEF R!handleTransferManagerAdded, R!Has, R!Save
  <2>2. ExemptionsInv'
    BY <1>1, <2>1 DEF RulesInv, ExemptionsInv, Older
  <2> QED  BY <1>1, <1>2, <2>2, RuleIds DEF RulesInv, RulesApart, ManagersInv, ConditionsInv, Older
<1>4. CASE R!handleTransferManagerRemoved(m)
  <2>1. /\ cManager[m] = {} /\ DOMAIN cManager' = DOMAIN cManager \ {m}
        /\ \A n \in DOMAIN cManager' : cManager'[n] = cManager[n]
    BY <1>4 DEF R!handleTransferManagerRemoved, R!Delete
  <2>2. ExemptionsInv'
    BY <1>1, <2>1 DEF RulesInv, ExemptionsInv, Older
  <2> QED  BY <1>1, <1>2, <2>2, RuleIds DEF RulesInv, RulesApart, ManagersInv, ConditionsInv, Older
<1> QED  BY <1>3, <1>4

\* A manager exempts entities, or stops to.
LEMMA RulesManagerExemptionsAdded ==
  ASSUME RulesInv, NEW m \in R!Manager, NEW es \in R!Lists(Entity),
         R!handleExemptionsAdded(m, es)
  PROVE  RulesInv'
<1>1. /\ Older /\ UNCHANGED <<rulesChain, cStat, stat, cExempt, cCondition, compliance,
                               conditionsTied, cSupply, totalSupply>>
      /\ cStat = {} /\ cCondition = {} /\ DOMAIN compliance = {} /\ cExempt = {}
      /\ manager = cManager /\ m \in DOMAIN cManager
  BY DEF Older, R!Before5, R!Since5,
         R!handleExemptionsAdded, R!statVars, R!supplyVars, R!conditionVars, R!Has,
         RulesInv, RulesApart, ManagersInv
<1>15. es \subseteq Entity
  BY Listed
<1>2. manager' = cManager'
  BY <1>1 DEF R!handleExemptionsAdded, R!Has
<1>3. cManager' = [cManager EXCEPT ![m] = @ \union es]
  BY DEF R!handleExemptionsAdded
<1>4. /\ DOMAIN cManager' = DOMAIN cManager /\ cManager'[m] = cManager[m] \union es
      /\ \A n \in DOMAIN cManager : n # m => cManager'[n] = cManager[n]
  BY <1>1, <1>3
<1>5. shared' = shared \union {e \in es : \E n \in DOMAIN cManager \ {m} : e \in cManager[n]}
  BY DEF R!handleExemptionsAdded
<1>6. PICK found \in R!getPaginatedData(DOMAIN exemption) :
        exemption' = R!SaveAll(exemption, [id \in {<<e>> : e \in R!Missed(es, R!OfOp(found, m[1]))}
                                            |-> [op |-> m[1], entity |-> id[1]]])
  BY DEF R!handleExemptionsAdded
<1> DEFINE old == R!OfOp(found, m[1])
           new == R!Missed(es, old)
<1>7. \A id \in {<<e>> : e \in new} : id = <<id[1]>> /\ id[1] \in new
  OBVIOUS
<1>8. \A e : <<e>> \in {<<d>> : d \in new} <=> e \in new
  OBVIOUS
<1>9. \A id \in DOMAIN exemption : id = <<exemption[id].entity>>
  BY <1>1 DEF RulesInv, ExemptionsInv
<1>10. /\ new \subseteq es
       /\ \A e \in es : e \notin new => <<e>> \in DOMAIN exemption /\ exemption[<<e>>].op = m[1]
  <2>1. ASSUME NEW e \in es, e \notin new
        PROVE  <<e>> \in DOMAIN exemption /\ exemption[<<e>>].op = m[1]
    <3>1. PICK id \in found : exemption[id].op = m[1] /\ exemption[id].entity = e
      BY <2>1 DEF R!Missed, R!OfOp
    <3> QED  BY <1>9, <3>1, PagedExemptions
  <2> QED  BY <2>1 DEF R!Missed
<1> HIDE DEF new, old
<1>11. /\ DOMAIN exemption' = DOMAIN exemption \union {<<e>> : e \in new}
       /\ \A e \in new : exemption'[<<e>>].op = m[1] /\ exemption'[<<e>>].entity = e
       /\ \A id \in DOMAIN exemption : id \notin {<<e>> : e \in new} => exemption'[id] = exemption[id]
  BY <1>6, <1>7 DEF R!SaveAll, R!Has, new, old
<1>12. \A id \in DOMAIN exemption' : id = <<exemption'[id].entity>>
  BY <1>7, <1>9, <1>11
<1>13. ASSUME NEW e \in Entity \ shared'
       PROVE  /\ <<e>> \in DOMAIN exemption' => \E n \in DOMAIN cManager' : e \in cManager'[n]
              /\ \A n \in DOMAIN cManager' : e \in cManager'[n] =>
                   <<e>> \in DOMAIN exemption' /\ exemption'[<<e>>].op = n[1]
              /\ \A n, k \in DOMAIN cManager' : e \in cManager'[n] /\ e \in cManager'[k] => n = k
  <2>1. e \notin shared /\ (e \in es => \A n \in DOMAIN cManager \ {m} : e \notin cManager[n])
    BY <1>5
  <2>2. /\ <<e>> \in DOMAIN exemption => \E n \in DOMAIN cManager : e \in cManager[n]
        /\ \A n \in DOMAIN cManager : e \in cManager[n] =>
             <<e>> \in DOMAIN exemption /\ exemption[<<e>>].op = n[1]
        /\ \A n, k \in DOMAIN cManager : e \in cManager[n] /\ e \in cManager[k] => n = k
    BY <1>1, <2>1 DEF RulesInv, ExemptionsInv
  <2>3. CASE e \in es
    <3>1. /\ \A n \in DOMAIN cManager' : e \in cManager'[n] <=> n = m
          /\ m \in DOMAIN cManager'
      BY <1>1, <1>4, <2>1, <2>3
    <3>2. <<e>> \in DOMAIN exemption' /\ exemption'[<<e>>].op = m[1]
      <4>1. CASE e \in new
        BY <1>8, <1>11, <4>1
      <4>2. CASE e \notin new
        BY <1>8, <1>10, <1>11, <2>3, <4>2
      <4> QED  BY <4>1, <4>2
    <3> QED  BY <3>1, <3>2
  <2>4. CASE e \notin es
    <3>1. e \notin new
      BY <1>10, <2>4
    <3>2. /\ <<e>> \in DOMAIN exemption' <=> <<e>> \in DOMAIN exemption
          /\ <<e>> \in DOMAIN exemption => exemption'[<<e>>] = exemption[<<e>>]
      BY <1>8, <1>11, <3>1
    <3>3. \A n \in DOMAIN cManager : e \in cManager'[n] <=> e \in cManager[n]
      BY <1>4, <2>4
    <3> QED  BY <1>4, <2>2, <3>2, <3>3
  <2> QED  BY <2>3, <2>4
<1>14. ExemptionsInv'
  BY <1>1, <1>12, <1>13, RuleIds DEF RulesInv, ExemptionsInv, Older
<1> QED  BY <1>1, <1>2, <1>14, ConditionsKept DEF RulesInv, RulesApart, ManagersInv, Count, Older

\* The exempted of a manager lose their rows, whichever manager they had them
\* from: an entity that had several stays marked as shared.
LEMMA RulesManagerExemptionsRemoved ==
  ASSUME RulesInv, NEW m \in R!Manager, NEW es \in R!Lists(Entity),
         R!handleExemptionsRemoved(m, es)
  PROVE  RulesInv'
<1>1. /\ Older /\ UNCHANGED <<rulesChain, cStat, stat, cExempt, cCondition, compliance,
                               conditionsTied, cSupply, totalSupply>>
      /\ cStat = {} /\ cCondition = {} /\ DOMAIN compliance = {} /\ cExempt = {}
      /\ manager = cManager /\ m \in DOMAIN cManager /\ es \subseteq cManager[m]
  BY DEF Older, R!Before5, R!Since5,
         R!handleExemptionsRemoved, R!statVars, R!supplyVars, R!conditionVars, R!Has,
         RulesInv, RulesApart, ManagersInv
<1>2. manager' = cManager'
  BY <1>1 DEF R!handleExemptionsRemoved, R!Has
<1>3. cManager' = [cManager EXCEPT ![m] = @ \ es]
  BY DEF R!handleExemptionsRemoved
<1>4. /\ DOMAIN cManager' = DOMAIN cManager /\ cManager'[m] = cManager[m] \ es
      /\ \A n \in DOMAIN cManager : n # m => cManager'[n] = cManager[n]
  BY <1>1, <1>3
<1>12. /\ shared \subseteq shared'
       /\ R!Crowded(DOMAIN exemption) => es \subseteq shared'
  BY DEF R!handleExemptionsRemoved
<1>13. PICK found \in R!getPaginatedData(DOMAIN exemption) :
        exemption' = R!Delete(exemption, {id \in R!OfOp(found, m[1]) : exemption[id].entity \in es})
  BY DEF R!handleExemptionsRemoved
<1>14. /\ found \subseteq DOMAIN exemption
       /\ ~R!Crowded(DOMAIN exemption) => found = DOMAIN exemption
  BY PagedExemptions
<1> DEFINE gone == {id \in found : exemption[id].op = m[1] /\ exemption[id].entity \in es}
<1>5. exemption' = R!Delete(exemption, gone)
  BY <1>13 DEF R!OfOp
<1>6. /\ DOMAIN exemption' = DOMAIN exemption \ gone
      /\ \A id \in DOMAIN exemption' : exemption'[id] = exemption[id]
  BY <1>5 DEF R!Delete
<1>7. \A id \in DOMAIN exemption : id = <<exemption[id].entity>>
  BY <1>1 DEF RulesInv, ExemptionsInv
<1>8. \A e : <<e>> \in DOMAIN exemption => exemption[<<e>>].entity = e
  <2>1. ASSUME NEW e, <<e>> \in DOMAIN exemption PROVE exemption[<<e>>].entity = e
    <3>1. <<e>> = <<exemption[<<e>>].entity>>
      BY <1>7, <2>1
    <3> QED  BY <3>1
  <2> QED  BY <2>1
<1>9. /\ \A e : <<e>> \in gone => e \in es
      /\ ~R!Crowded(DOMAIN exemption) => \A e \in es :
           <<e>> \in DOMAIN exemption /\ exemption[<<e>>].op = m[1] => <<e>> \in gone
  BY <1>8, <1>14
<1> HIDE DEF gone
<1>10. ASSUME NEW e \in Entity \ shared'
       PROVE  /\ <<e>> \in DOMAIN exemption' => \E n \in DOMAIN cManager' : e \in cManager'[n]
              /\ \A n \in DOMAIN cManager' : e \in cManager'[n] =>
                   <<e>> \in DOMAIN exemption' /\ exemption'[<<e>>].op = n[1]
              /\ \A n, k \in DOMAIN cManager' : e \in cManager'[n] /\ e \in cManager'[k] => n = k
  <2>1. /\ <<e>> \in DOMAIN exemption => \E n \in DOMAIN cManager : e \in cManager[n]
        /\ \A n \in DOMAIN cManager : e \in cManager[n] =>
             <<e>> \in DOMAIN exemption /\ exemption[<<e>>].op = n[1]
        /\ \A n, k \in DOMAIN cManager : e \in cManager[n] /\ e \in cManager[k] => n = k
    BY <1>1, <1>12 DEF RulesInv, ExemptionsInv
  <2>2. CASE e \in es
    <3>1. e \in cManager[m]
      BY <1>1, <2>2
    <3>2. ~R!Crowded(DOMAIN exemption)
      BY <1>12, <2>2
    <3>3. <<e>> \in DOMAIN exemption => <<e>> \in gone
      BY <1>1, <1>9, <2>1, <2>2, <3>1, <3>2
    <3>4. <<e>> \notin DOMAIN exemption' /\ \A n \in DOMAIN cManager' : e \notin cManager'[n]
      BY <1>1, <1>4, <1>6, <2>1, <2>2, <3>1, <3>3
    <3> QED  BY <3>4
  <2>3. CASE e \notin es
    <3>1. <<e>> \notin gone /\ \A n \in DOMAIN cManager : e \in cManager'[n] <=> e \in cManager[n]
      BY <1>4, <1>9, <2>3
    <3> QED  BY <1>4, <1>6, <2>1, <3>1
  <2> QED  BY <2>2, <2>3
<1>11. ExemptionsInv'
  BY <1>1, <1>6, <1>7, <1>10, RuleIds DEF RulesInv, ExemptionsInv, Older
<1> QED  BY <1>1, <1>2, <1>11, ConditionsKept DEF RulesInv, RulesApart, ManagersInv, Count, Older

\* Another asset takes the rows of those it exempts.
LEMMA RulesElsewhere ==
  ASSUME RulesInv, NEW es \in R!Lists(Entity), R!ExemptedElsewhere(es)
  PROVE  RulesInv'
<1>1. /\ Older /\ UNCHANGED <<rulesChain, cManager, manager, cStat, stat, cExempt, cCondition,
                               compliance, conditionsTied, cSupply, totalSupply>>
      /\ cExempt = {}
      /\ exemption' = R!Delete(exemption, {<<e>> : e \in es})
      /\ shared' = shared \union {e \in es : \E m \in DOMAIN cManager : e \in cManager[m]}
  BY DEF Older, R!Before5, R!ExemptedElsewhere, R!managerVars, R!statVars, R!conditionVars,
         R!supplyVars, RulesInv, RulesApart
<1> DEFINE gone == {<<e>> : e \in es}
<1>2. \A e : <<e>> \in gone <=> e \in es
  OBVIOUS
<1> HIDE DEF gone
<1>3. /\ DOMAIN exemption' = DOMAIN exemption \ gone
      /\ \A id \in DOMAIN exemption' : exemption'[id] = exemption[id]
  BY <1>1 DEF R!Delete, gone
<1>4. ASSUME NEW e \in Entity \ shared'
      PROVE  /\ <<e>> \in DOMAIN exemption' => \E m \in DOMAIN cManager : e \in cManager[m]
             /\ \A m \in DOMAIN cManager : e \in cManager[m] =>
                  <<e>> \in DOMAIN exemption' /\ exemption'[<<e>>].op = m[1]
             /\ \A m, n \in DOMAIN cManager : e \in cManager[m] /\ e \in cManager[n] => m = n
  <2>1. e \notin shared /\ (e \in es => \A m \in DOMAIN cManager : e \notin cManager[m])
    BY <1>1
  <2>2. /\ <<e>> \in DOMAIN exemption => \E m \in DOMAIN cManager : e \in cManager[m]
        /\ \A m \in DOMAIN cManager : e \in cManager[m] =>
             <<e>> \in DOMAIN exemption /\ exemption[<<e>>].op = m[1]
        /\ \A m, n \in DOMAIN cManager : e \in cManager[m] /\ e \in cManager[n] => m = n
    BY <1>1, <2>1 DEF RulesInv, ExemptionsInv
  <2> QED  BY <1>2, <1>3, <2>1, <2>2
<1>5. \A id \in DOMAIN exemption' : id = <<exemption'[id].entity>>
  BY <1>1, <1>3 DEF RulesInv, ExemptionsInv
<1>6. ExemptionsInv'
  BY <1>1, <1>4, <1>5, RuleIds DEF RulesInv, ExemptionsInv, Older
<1> QED  BY <1>1, <1>6, ConditionsKept, ManagersKept DEF RulesInv, RulesApart, Older

\* The id without the custom type is that of the statistic, or of no other.
LEMMA PlainIds ==
  \A s, t \in R!Stat : R!PlainId(s) = t => s = t
<1> SUFFICES ASSUME NEW s \in R!Stat, NEW t \in R!Stat, R!PlainId(s) = t PROVE s = t
  OBVIOUS
<1>1. /\ s[2] \in R!StatScope /\ t[2] \in R!StatScope
      /\ s = <<s[1], s[2]>> /\ t = <<t[1], t[2]>>
  BY DEF R!Stat
<1>2. s[1] = t[1] /\ t[2] = <<s[2][1], R!NoCustom>>
  BY <1>1 DEF R!PlainId
<1>3. R!NoCustom \notin CustomId
  BY RegistersAssumption DEF R!NoCustom
<1>4. \A x \in R!StatScope : x = <<x[1], x[2]>> /\
        (x[2] = R!NoCustom <=> x[1] \in {"None"} \union BuiltIn)
  <2>1. "Custom" \notin {"None"} \union BuiltIn
    BY RegistersAssumption
  <2> QED  BY <1>3, <2>1 DEF R!StatScope
<1>5. t[2][2] = R!NoCustom /\ t[2][1] = s[2][1]
  BY <1>2
<1>6. s[2] = t[2]
  BY <1>1, <1>4, <1>5
<1> QED  BY <1>1, <1>2, <1>6

\* Statistics that are added or removed.
LEMMA RulesStatistics ==
  ASSUME RulesInv, NEW ss \in R!Lists(R!Stat),
         R!handleStatTypeAdded(ss) \/ R!handleStatTypeRemoved(ss)
  PROVE  RulesInv'
<1>1. /\ ~Older /\ UNCHANGED <<rulesChain, cManager, manager, cExempt, shared, exemption,
                                cCondition, compliance, conditionsTied,
                               cSupply, totalSupply>>
      /\ DOMAIN cManager = {}
  BY DEF Older, R!Before5, R!Since5,
         R!handleStatTypeAdded, R!handleStatTypeRemoved, R!managerVars, R!exemptVars,
         R!conditionVars, R!supplyVars, RulesInv, RulesApart
<1>5. ss \subseteq R!Stat
  BY Listed
<1>2. RulesApart' /\ ManagersInv' /\ ExemptionsInv'
  BY <1>1, ManagersKept, ExemptionsKept DEF RulesInv, RulesApart, Older
<1>3. CASE R!handleStatTypeAdded(ss)
  <2>1. cStat' = cStat \union ss /\ stat' = stat \union ss
    BY <1>3 DEF R!handleStatTypeAdded, R!StatTypeId
  <2>2. ConditionsInv'
    <3>1. cStat' \subseteq R!Stat /\ cStat' \subseteq stat'
      BY <1>5, <2>1 DEF RulesInv, ConditionsInv
    <3>2. ~Older => \A s \in stat' :
            R!Plain(s) => s \in cStat' \/ (rulesChain = "private" /\ s = Count)
      BY <2>1 DEF RulesInv, ConditionsInv
    <3> QED  BY <1>1, <2>1, <3>1, <3>2, RuleIds DEF RulesInv, ConditionsInv, Older
  <2> QED  BY <1>1, <1>2, <2>2 DEF RulesInv
<1>4. CASE R!handleStatTypeRemoved(ss)
  <2>1. /\ ss \cap {c[1] : c \in cCondition} = {} /\ cStat' = cStat \ ss
        /\ stat' = stat \ {R!PlainId(s) : s \in ss}
    BY <1>4 DEF R!handleStatTypeRemoved
  <2>2. cStat' \subseteq stat'
    <3>1. cStat \subseteq R!Stat /\ cStat \subseteq stat
      BY DEF RulesInv, ConditionsInv
    <3> QED  BY <1>5, <2>1, <3>1, PlainIds
  <2>3. \A s \in stat' :
          R!Plain(s) => s \in cStat' \/ (rulesChain = "private" /\ s = Count)
    <3>1. ASSUME NEW s \in ss, R!Plain(s) PROVE s \notin stat'
      BY <2>1, <3>1 DEF R!Plain
    <3> QED  BY <1>1, <2>1, <3>1 DEF RulesInv, ConditionsInv
  <2>4. \A c \in cCondition : c[1] \in cStat'
    BY <2>1 DEF RulesInv, ConditionsInv
  <2>5. ConditionsInv'
    BY <1>1, <2>1, <2>2, <2>3, <2>4, RuleIds DEF RulesInv, ConditionsInv, Older
  <2> QED  BY <1>1, <1>2, <2>5 DEF RulesInv
<1> QED  BY <1>3, <1>4

\* Conditions are replaced as a whole.
LEMMA RulesConditions ==
  ASSUME RulesInv, NEW cs, R!handleSetTransferCompliance(cs)
  PROVE  RulesInv'
<1> DEFINE ids == {R!PlainId(c[1]) : c \in cs}
<1>1. /\ ~Older /\ {c[1] : c \in cs} \subseteq cStat /\ cCondition' = cs
      /\ UNCHANGED <<rulesChain, cManager, manager, cExempt, shared, exemption, cStat, stat,
                     cSupply, totalSupply>>
      /\ DOMAIN cManager = {}
  BY DEF Older, R!Before5, R!Since5,
         R!handleSetTransferCompliance, R!managerVars, R!exemptVars, R!statVars, R!supplyVars,
         RulesInv, RulesApart
<1>2. PICK pick \in [ids -> cs], found \in R!getPaginatedData(DOMAIN compliance) :
        /\ \A id \in ids : R!PlainId(pick[id][1]) = id
        /\ compliance' = R!SaveAll(R!Delete(compliance, R!Dropped(found, ids)), pick)
  BY DEF R!handleSetTransferCompliance
<1>3. /\ conditionsTied' = (conditionsTied \/ R!Crowded(DOMAIN compliance))
      /\ ~R!Crowded(DOMAIN compliance) => found = DOMAIN compliance
  BY DEF R!handleSetTransferCompliance, R!getPaginatedData, R!FoundAmong, R!Crowded
<1> HIDE DEF ids
<1>4. /\ ids \subseteq DOMAIN compliance' /\ \A id \in ids : compliance'[id] = pick[id]
      /\ found = DOMAIN compliance => DOMAIN compliance' = ids
  BY <1>2 DEF R!SaveAll, R!Delete, R!Dropped, R!Has
<1>5. RulesApart' /\ ManagersInv' /\ ExemptionsInv'
  BY <1>1, ManagersKept, ExemptionsKept DEF RulesInv, RulesApart, Older
<1>6. ASSUME NEW c \in cCondition'
      PROVE  /\ R!PlainId(c[1]) \in DOMAIN compliance'
             /\ compliance'[R!PlainId(c[1])] \in cCondition'
             /\ R!PlainId(compliance'[R!PlainId(c[1])][1]) = R!PlainId(c[1])
  <2>1. R!PlainId(c[1]) \in ids
    BY <1>1 DEF ids
  <2> QED  BY <1>1, <1>2, <1>4, <2>1
<1>7. ~conditionsTied' => \A id \in DOMAIN compliance' : compliance'[id] \in cCondition'
  BY <1>1, <1>2, <1>3, <1>4
<1>8. ConditionsInv'
  BY <1>1, <1>6, <1>7, RuleIds DEF RulesInv, ConditionsInv, Older
<1> QED  BY <1>1, <1>5, <1>8 DEF RulesInv

\* An exemption id names the statistic without its custom type, and the entity.
LEMMA ExemptionIds ==
  \A s, e : R!ExemptionId(s, e) = <<R!PlainId(s), e>> /\ R!ExemptionId(s, e)[2] = e
BY DEF R!ExemptionId

\* An exemption of a statistic adds its row, which another statistic may share.
LEMMA RulesExemptionsAdded ==
  ASSUME RulesInv, NEW s \in R!Stat, NEW es \in R!Lists(Entity),
         R!handleStatisticExemptionsAdded(s, es)
  PROVE  RulesInv'
<1>1. /\ ~Older /\ UNCHANGED <<rulesChain, cManager, manager, cStat, stat, cCondition, compliance,
                                conditionsTied, cSupply, totalSupply>>
      /\ DOMAIN cManager = {}
      /\ cExempt' = cExempt \union ({s} \X es)
      /\ shared' = shared \union {e \in es : \E x \in cExempt : x[2] = e /\ x[1] # s}
  BY DEF Older, R!Before5, R!Since5,
         R!handleStatisticExemptionsAdded, R!managerVars, R!statVars, R!conditionVars,
         R!supplyVars, RulesInv, RulesApart
<1>10. es \subseteq Entity
  BY Listed
<1>2. exemption' = R!SaveAll(exemption, [id \in {R!ExemptionId(s, e) : e \in es}
                                          |-> [op |-> s[1], entity |-> id[2]]])
  BY DEF R!handleStatisticExemptionsAdded
<1> DEFINE new == {R!ExemptionId(s, e) : e \in es}
<1>3. /\ DOMAIN exemption' = DOMAIN exemption \union new
      /\ \A id \in DOMAIN exemption' :
           exemption'[id].entity = IF id \in new THEN id[2] ELSE exemption[id].entity
  <2> HIDE DEF new
  <2>1. exemption' = R!SaveAll(exemption, [id \in new |-> [op |-> s[1], entity |-> id[2]]])
    BY <1>2 DEF new
  <2> QED  BY <2>1 DEF R!SaveAll, R!Has
<1>4. \A id \in DOMAIN exemption' : exemption'[id].entity = id[2]
  BY <1>1, <1>3 DEF RulesInv, ExemptionsInv
<1>5. \A e : \A id \in new : id[2] = e => e \in es /\ id = R!ExemptionId(s, e)
  BY ExemptionIds
<1>6. ASSUME NEW e \in Entity \ shared'
      PROVE  /\ \A id \in DOMAIN exemption' : id[2] = e =>
                  \E t \in R!Stat : <<t, e>> \in cExempt' /\ id = R!ExemptionId(t, e)
             /\ \A t \in R!Stat : <<t, e>> \in cExempt' => R!ExemptionId(t, e) \in DOMAIN exemption'
             /\ \A t, u \in R!Stat : <<t, e>> \in cExempt' /\ <<u, e>> \in cExempt' => t = u
  <2>1. /\ e \notin shared
        /\ e \in es => \A t : <<t, e>> \in cExempt => t = s
    BY <1>1
  <2>2. /\ \A id \in DOMAIN exemption : id[2] = e =>
             \E t \in R!Stat : <<t, e>> \in cExempt /\ id = R!ExemptionId(t, e)
        /\ \A t \in R!Stat : <<t, e>> \in cExempt => R!ExemptionId(t, e) \in DOMAIN exemption
        /\ \A t, u \in R!Stat : <<t, e>> \in cExempt /\ <<u, e>> \in cExempt => t = u
    BY <1>1, <2>1 DEF RulesInv, ExemptionsInv
  <2>3. \A t : <<t, e>> \in cExempt' <=> <<t, e>> \in cExempt \/ (t = s /\ e \in es)
    BY <1>1
  <2>4. e \in es => R!ExemptionId(s, e) \in DOMAIN exemption'
    BY <1>3
  <2> HIDE DEF new
  <2>5. \A id \in DOMAIN exemption' : id[2] = e =>
          \/ id \in DOMAIN exemption
          \/ e \in es /\ id = R!ExemptionId(s, e)
    BY <1>3, <1>5
  <2> QED  BY <1>3, <2>1, <2>2, <2>3, <2>4, <2>5
<1>7. cExempt' \subseteq R!Stat \X Entity
  BY <1>1, <1>10 DEF RulesInv, ExemptionsInv
<1>8. ExemptionsInv'
  BY <1>1, <1>4, <1>6, <1>7, RuleIds DEF ExemptionsInv, Older
<1> QED  BY <1>1, <1>8, ConditionsKept, ManagersKept DEF RulesInv, RulesApart, Older

\* An exemption that goes takes its row with it.
LEMMA RulesExemptionsRemoved ==
  ASSUME RulesInv, NEW s \in R!Stat, NEW es \in R!Lists(Entity),
         R!handleStatisticExemptionsRemoved(s, es)
  PROVE  RulesInv'
<1>1. /\ ~Older /\ UNCHANGED <<rulesChain, cManager, manager, cStat, stat, cCondition, compliance,
                                conditionsTied, cSupply, totalSupply, shared>>
      /\ DOMAIN cManager = {}
      /\ {s} \X es \subseteq cExempt /\ cExempt' = cExempt \ ({s} \X es)
  BY DEF Older, R!Before5, R!Since5,
         R!handleStatisticExemptionsRemoved, R!managerVars, R!statVars, R!conditionVars,
         R!supplyVars, RulesInv, RulesApart
<1> DEFINE gone == {R!ExemptionId(s, e) : e \in es}
<1>10. es \subseteq Entity
  BY Listed
<1>2. exemption' = R!Delete(exemption, gone)
  BY DEF R!handleStatisticExemptionsRemoved
<1>3. /\ DOMAIN exemption' = DOMAIN exemption \ gone
      /\ \A id \in DOMAIN exemption' : exemption'[id] = exemption[id]
  <2> HIDE DEF gone
  <2> QED  BY <1>2 DEF R!Delete
<1>4. \A e, t : R!ExemptionId(t, e) \in gone => e \in es
  <2>1. ASSUME NEW e, NEW t, NEW d \in es, R!ExemptionId(t, e) = R!ExemptionId(s, d)
        PROVE  e = d
    BY <2>1, ExemptionIds
  <2> QED  BY <2>1
<1>5. \A e \in es : R!ExemptionId(s, e) \in gone
  OBVIOUS
<1> HIDE DEF gone
<1>6. ASSUME NEW e \in Entity \ shared
      PROVE  /\ \A id \in DOMAIN exemption' : id[2] = e =>
                  \E t \in R!Stat : <<t, e>> \in cExempt' /\ id = R!ExemptionId(t, e)
             /\ \A t \in R!Stat : <<t, e>> \in cExempt' => R!ExemptionId(t, e) \in DOMAIN exemption'
             /\ \A t, u \in R!Stat : <<t, e>> \in cExempt' /\ <<u, e>> \in cExempt' => t = u
  <2>1. /\ \A id \in DOMAIN exemption : id[2] = e =>
             \E t \in R!Stat : <<t, e>> \in cExempt /\ id = R!ExemptionId(t, e)
        /\ \A t \in R!Stat : <<t, e>> \in cExempt => R!ExemptionId(t, e) \in DOMAIN exemption
        /\ \A t, u \in R!Stat : <<t, e>> \in cExempt /\ <<u, e>> \in cExempt => t = u
    BY <1>1 DEF RulesInv, ExemptionsInv
  <2>2. \A t : <<t, e>> \in cExempt' <=> <<t, e>> \in cExempt /\ ~(t = s /\ e \in es)
    BY <1>1
  <2>3. e \in es => <<s, e>> \in cExempt
    BY <1>1
  <2> QED  BY <1>3, <1>4, <1>5, <2>1, <2>2, <2>3
<1>7. \A id \in DOMAIN exemption' : exemption'[id].entity = id[2]
  BY <1>1, <1>3 DEF RulesInv, ExemptionsInv
<1>8. cExempt' \subseteq R!Stat \X Entity
  BY <1>1 DEF RulesInv, ExemptionsInv
<1>9. ExemptionsInv'
  BY <1>1, <1>6, <1>7, <1>8, RuleIds DEF ExemptionsInv, Older
<1> QED  BY <1>1, <1>9, ConditionsKept, ManagersKept DEF RulesInv, RulesApart, Older

\* Whatever kind of rule an event is about.
LEMMA RulesStep ==
  RulesInv /\ (R!NextSupply \/ R!NextManagers \/ R!NextConditions \/ R!NextExemptions)
    => RulesInv'
BY RulesSupply, RulesManagers, RulesElsewhere, RulesManagerExemptionsAdded,
   RulesManagerExemptionsRemoved,
   RulesStatistics, RulesConditions, RulesExemptionsAdded, RulesExemptionsRemoved
   DEF R!NextSupply, R!NextManagers, R!NextConditions, R!NextExemptions

\* The invariant of the rules holds in every state of the registers.
LEMMA RulesAlways == Spec => []RulesInv
<1>1. Init => RulesInv
  BY RulesInit DEF Init
<1>2. RulesInv /\ [Next]_vars => RulesInv'
  <2> SUFFICES ASSUME RulesInv, [Next]_vars PROVE RulesInv'
    OBVIOUS
  <2>1. \/ R!NextSupply \/ R!NextManagers \/ R!NextConditions \/ R!NextExemptions
        \/ UNCHANGED ruleVars
    BY DEF Next, Only, vars, Rules
  <2>2. CASE R!NextSupply \/ R!NextManagers \/ R!NextConditions \/ R!NextExemptions
    BY <2>2, RulesStep
  <2>3. CASE UNCHANGED ruleVars
    <3>1. /\ UNCHANGED <<rulesChain, cManager, cExempt, cStat, cCondition, cSupply>>
          /\ UNCHANGED <<shared, conditionsTied, manager, exemption, stat, compliance, totalSupply>>
      BY <2>3 DEF ruleVars
    <3>2. ManagersInv' /\ ConditionsInv' /\ ExemptionsInv'
      BY <3>1, ManagersKept, ConditionsKept, ExemptionsKept DEF RulesInv
    <3> QED  BY <3>1, <3>2 DEF RulesInv, RulesApart, Older
  <2> QED  BY <2>1, <2>2, <2>3
<1> QED  BY <1>1, <1>2, PTL DEF Spec

\* In every state the transfer restrictions are shown as the chain has them,
\* where their ids tell them apart.
THEOREM RulesAlwaysMirrorChain == Spec => []RulesMirrorChain
<1> QED  BY RulesShown, RulesAlways, PTL

-----------------------------------------------------------------------------
(* Distributions.                                                          *)

\* A sum in the instance is the sum the lemmas are about.
LEMMA DistributionsSum == \A fun, S : D!SumFunctionOnSet(fun, S) = SumFunctionOnSet(fun, S)
BY DEF D!SumFunctionOnSet, D!FoldFunctionOnSet, D!MapThenFoldSet,
       SumFunctionOnSet, FoldFunctionOnSet, MapThenFoldSet

\* One more element adds its value.
LEMMA SumGrow ==
  ASSUME NEW S, IsFiniteSet(S), NEW x, x \notin S, NEW fun, NEW gun,
         \A y \in S : fun[y] \in Int /\ gun[y] = fun[y], gun[x] \in Int
  PROVE  /\ SumFunctionOnSet(fun, S) \in Int
         /\ SumFunctionOnSet(gun, S \union {x}) = SumFunctionOnSet(fun, S) + gun[x]
<1>1. /\ Ints(fun, S) /\ Ints(gun, S \union {x}) /\ IsFiniteSet(S \union {x})
      /\ (S \union {x}) \ {x} = S
  BY FS_AddElement DEF Ints
<1>2. SumFunctionOnSet(fun, S) \in Int
  BY <1>1, SumUnfold
<1>3. SumFunctionOnSet(gun, S \union {x}) =
        gun[x] + SumFunctionOnSet(gun, (S \union {x}) \ {x})
  BY <1>1, SumTake, x \in S \union {x}
<1>4. SumFunctionOnSet(gun, S) = SumFunctionOnSet(fun, S)
  BY <1>1, SumAgree
<1>5. SumFunctionOnSet(gun, S \union {x}) = gun[x] + SumFunctionOnSet(fun, S)
  BY <1>1, <1>3, <1>4, Zenon
<1> QED  BY <1>2, <1>5

\* What a distribution holds at first is a number.
LEMMA TotalInt == D!Total \in Int
<1>1. D!Max(Benefit) \in Int
  <2>1. IsFiniteSet(Benefit) /\ Benefit # {} /\ Benefit \subseteq Int
    BY RegistersAssumption
  <2>2. Max(Benefit) \in Benefit
    BY <2>1, MaxMember, Zenon
  <2>3. D!Max(Benefit) = Max(Benefit)
    BY DEF D!Max, Max
  <2> QED  BY <2>1, <2>2, <2>3
<1>2. D!Cardinality(Target) = Cardinality(Target)
  BY DEF D!Cardinality, Cardinality
<1>3. Cardinality(Target) \in Int
  BY FS_CardinalityType, RegistersAssumption
<1> QED  BY <1>1, <1>2, <1>3 DEF D!Total

\* What was paid of a distribution, and claimed; and the sums over it.
PaidOf(d, S) == {p \in S : p.distribution = d}
ClaimedOf(d, S) == {p \in PaidOf(d, S) : ~p.reclaimed}
TaxSum(S) == SumFunctionOnSet([p \in S |-> p.amount - p.amountAfterTax], S)
AmountSum(S) == SumFunctionOnSet([p \in S |-> p.amount], S)
ClaimTaxSum(S) == SumFunctionOnSet([c \in S |-> c.tax], S)
ClaimOf(p) == [target |-> p.target, paid |-> p.amountAfterTax, tax |-> p.amount - p.amountAfterTax]

Amounts(S) == IsFiniteSet(S) /\ \A p \in S : p.amount \in Int /\ p.amountAfterTax \in Int
Taxes(S) == IsFiniteSet(S) /\ \A c \in S : c.tax \in Int

\* The sums over what was paid are numbers, and grow with a payment.
LEMMA SumsGrow ==
  /\ \A S : Amounts(S) => TaxSum(S) \in Int /\ AmountSum(S) \in Int
  /\ \A S, q : Amounts(S) /\ q \notin S /\ q.amount \in Int /\ q.amountAfterTax \in Int =>
       /\ TaxSum(S \union {q}) = TaxSum(S) + (q.amount - q.amountAfterTax)
       /\ AmountSum(S \union {q}) = AmountSum(S) + q.amount
  /\ \A S : Taxes(S) => ClaimTaxSum(S) \in Int
  /\ \A S, c : Taxes(S) /\ c \notin S /\ c.tax \in Int =>
       ClaimTaxSum(S \union {c}) = ClaimTaxSum(S) + c.tax
<1>1. ASSUME NEW S, Amounts(S) PROVE TaxSum(S) \in Int /\ AmountSum(S) \in Int
  <2>1. /\ Ints([p \in S |-> p.amount - p.amountAfterTax], S)
        /\ Ints([p \in S |-> p.amount], S) /\ IsFiniteSet(S)
    BY <1>1 DEF Amounts, Ints
  <2> QED  BY <2>1, SumUnfold DEF TaxSum, AmountSum
<1>2. ASSUME NEW S, NEW q, Amounts(S), q \notin S, q.amount \in Int, q.amountAfterTax \in Int
      PROVE  /\ TaxSum(S \union {q}) = TaxSum(S) + (q.amount - q.amountAfterTax)
             /\ AmountSum(S \union {q}) = AmountSum(S) + q.amount
  <2> DEFINE f == [p \in S |-> p.amount - p.amountAfterTax]
             g == [p \in S \union {q} |-> p.amount - p.amountAfterTax]
             h == [p \in S |-> p.amount]
             k == [p \in S \union {q} |-> p.amount]
  <2>1. /\ IsFiniteSet(S)
        /\ \A y \in S : f[y] \in Int /\ g[y] = f[y] /\ h[y] \in Int /\ k[y] = h[y]
        /\ g[q] = q.amount - q.amountAfterTax /\ k[q] = q.amount
        /\ g[q] \in Int /\ k[q] \in Int
    BY <1>2 DEF Amounts
  <2>2. /\ TaxSum(S) = SumFunctionOnSet(f, S)
        /\ TaxSum(S \union {q}) = SumFunctionOnSet(g, S \union {q})
        /\ AmountSum(S) = SumFunctionOnSet(h, S)
        /\ AmountSum(S \union {q}) = SumFunctionOnSet(k, S \union {q})
    BY DEF TaxSum, AmountSum
  <2> HIDE DEF f, g, h, k
  <2>0. IsFiniteSet(S) /\ q \notin S
    BY <1>2, <2>1
  <2>3. SumFunctionOnSet(g, S \union {q}) = SumFunctionOnSet(f, S) + g[q]
    <3>1. (\A y \in S : f[y] \in Int /\ g[y] = f[y]) /\ g[q] \in Int
      BY <2>1
    <3> QED  BY <2>0, <3>1, SumGrow
  <2>4. SumFunctionOnSet(k, S \union {q}) = SumFunctionOnSet(h, S) + k[q]
    <3>1. (\A y \in S : h[y] \in Int /\ k[y] = h[y]) /\ k[q] \in Int
      BY <2>1
    <3> QED  BY <2>0, <3>1, SumGrow
  <2> QED  BY <2>1, <2>2, <2>3, <2>4, Zenon
<1>3. ASSUME NEW S, Taxes(S) PROVE ClaimTaxSum(S) \in Int
  <2>1. Ints([c \in S |-> c.tax], S) /\ IsFiniteSet(S)
    BY <1>3 DEF Taxes, Ints
  <2> QED  BY <2>1, SumUnfold DEF ClaimTaxSum
<1>4. ASSUME NEW S, NEW c, Taxes(S), c \notin S, c.tax \in Int
      PROVE  ClaimTaxSum(S \union {c}) = ClaimTaxSum(S) + c.tax
  <2> DEFINE f == [p \in S |-> p.tax]
             g == [p \in S \union {c} |-> p.tax]
  <2>1. /\ IsFiniteSet(S) /\ \A y \in S : f[y] \in Int /\ g[y] = f[y]
        /\ g[c] = c.tax /\ g[c] \in Int
    BY <1>4 DEF Taxes
  <2>2. /\ ClaimTaxSum(S) = SumFunctionOnSet(f, S)
        /\ ClaimTaxSum(S \union {c}) = SumFunctionOnSet(g, S \union {c})
    BY DEF ClaimTaxSum
  <2> HIDE DEF f, g
  <2>3. SumFunctionOnSet(g, S \union {c}) = SumFunctionOnSet(f, S) + g[c]
    <3>1. IsFiniteSet(S) /\ c \notin S
      BY <1>4, <2>1
    <3>2. (\A y \in S : f[y] \in Int /\ g[y] = f[y]) /\ g[c] \in Int
      BY <2>1
    <3> QED  BY <3>1, <3>2, SumGrow
  <2> QED  BY <2>1, <2>2, <2>3, Zenon
<1> QED  BY <1>1, <1>2, <1>3, <1>4

\* A payment is among those of its own distribution, and of the claimed ones
\* unless it was reclaimed.
LEMMA ClaimedGrow ==
  ASSUME NEW S, NEW q, NEW d, q.distribution = d, ~q.reclaimed
  PROVE  ClaimedOf(d, S \union {q}) = ClaimedOf(d, S) \union {q}
<1>1. PaidOf(d, S \union {q}) = PaidOf(d, S) \union {q}
  BY DEF PaidOf
<1>2. \A W : {p \in W \union {q} : ~p.reclaimed} = {p \in W : ~p.reclaimed} \union {q}
  BY Zenon
<1> QED  BY <1>1, <1>2, Zenon DEF ClaimedOf

\* A payment does not count among those of another distribution, and a
\* reclaimed one not among the claims.
LEMMA ClaimedKept ==
  ASSUME NEW S, NEW q, NEW d
  PROVE  /\ q.distribution # d => /\ PaidOf(d, S \union {q}) = PaidOf(d, S)
                                  /\ ClaimedOf(d, S \union {q}) = ClaimedOf(d, S)
         /\ q.reclaimed => ClaimedOf(d, S \union {q}) = ClaimedOf(d, S)
<1>1. q.distribution # d => PaidOf(d, S \union {q}) = PaidOf(d, S)
  BY DEF PaidOf
<1>2. q.distribution = d => PaidOf(d, S \union {q}) = PaidOf(d, S) \union {q}
  BY DEF PaidOf
<1>3. \A W : q.reclaimed => {p \in W \union {q} : ~p.reclaimed} = {p \in W : ~p.reclaimed}
  BY Zenon
<1>4. q.distribution # d => ClaimedOf(d, S \union {q}) = ClaimedOf(d, S)
  BY <1>1, Zenon DEF ClaimedOf
<1>5. q.reclaimed => ClaimedOf(d, S \union {q}) = ClaimedOf(d, S)
  BY <1>1, <1>2, <1>3, Zenon DEF ClaimedOf
<1> QED  BY <1>1, <1>4, <1>5, Zenon

DistTypes ==
  /\ DOMAIN distribution \subseteq DOMAIN cDist
  /\ Amounts(payment)
  /\ \A p \in payment : p.distribution \in DOMAIN cDist
  /\ \A d \in DOMAIN cDist :
       /\ DOMAIN cDist[d] = {"account", "left", "claims", "state"}
       /\ cDist[d].left \in Int /\ Taxes(cDist[d].claims)
       /\ cDist[d].state = "open" => ClaimedOf(d, payment) = PaidOf(d, payment)

RowAddsUp(row, chain, d, paid) ==
  /\ DOMAIN row = {"taxes", "remaining"} /\ row.remaining \in Int
  /\ row.taxes = TaxSum(ClaimedOf(d, paid))
  /\ row.taxes = ClaimTaxSum(chain.claims)
  /\ row.remaining - AmountSum(PaidOf(d, paid)) = chain.left
  /\ {ClaimOf(p) : p \in ClaimedOf(d, paid)} = chain.claims

RowsAddUp == \A d \in DOMAIN distribution : RowAddsUp(distribution[d], cDist[d], d, payment)

DistInv == DistTypes /\ (~distStopped => RowsAddUp)

\* The invariant says what is checked.
LEMMA DistShown == DistInv => DistributionsAddUp
<1> SUFFICES ASSUME DistInv, ~distStopped, NEW d \in DOMAIN distribution
             PROVE  LET claims == {p \in D!Paid(d) : ~p.reclaimed}
                    IN /\ distribution[d].taxes = D!SumOf(claims, LAMBDA p : p.amount - p.amountAfterTax)
                       /\ distribution[d].taxes = D!SumOf(cDist[d].claims, LAMBDA c : c.tax)
                       /\ distribution[d].remaining - D!SumOf(D!Paid(d), LAMBDA p : p.amount) = cDist[d].left
                       /\ {[target |-> p.target, paid |-> p.amountAfterTax,
                            tax |-> p.amount - p.amountAfterTax] : p \in claims} = cDist[d].claims
  BY Zenon DEF DistributionsAddUp, D!DistributionsAddUp
<1>1. RowAddsUp(distribution[d], cDist[d], d, payment)
  BY Zenon DEF DistInv, RowsAddUp
<1>2. D!Paid(d) = PaidOf(d, payment) /\ {p \in D!Paid(d) : ~p.reclaimed} = ClaimedOf(d, payment)
  BY Zenon DEF D!Paid, PaidOf, ClaimedOf
<1>3. /\ \A S : D!SumOf(S, LAMBDA p : p.amount - p.amountAfterTax) = TaxSum(S)
      /\ \A S : D!SumOf(S, LAMBDA p : p.amount) = AmountSum(S)
      /\ \A S : D!SumOf(S, LAMBDA c : c.tax) = ClaimTaxSum(S)
  BY DistributionsSum, Zenon DEF D!SumOf, TaxSum, AmountSum, ClaimTaxSum
<1> QED  BY <1>1, <1>2, <1>3, Zenon DEF RowAddsUp, ClaimOf

\* Nothing paid adds up to nothing.
LEMMA NothingPaid == TaxSum({}) = 0 /\ AmountSum({}) = 0 /\ ClaimTaxSum({}) = 0
<1>1. IsFiniteSet({}) /\ \A fun : \A x \in {} : fun[x] = 0
  BY FS_EmptySet
<1>2. \A fun : SumFunctionOnSet(fun, {}) = 0
  BY <1>1, ZeroSum
<1> QED  BY <1>2 DEF TaxSum, AmountSum, ClaimTaxSum

\* There are no distributions at first.
LEMMA DistInit == D!Init => DistInv
<1> SUFFICES ASSUME D!Init PROVE DistInv
  OBVIOUS
<1>1. DOMAIN cDist = {} /\ DOMAIN distribution = {} /\ payment = {}
  BY DEF D!Init, D!NoTable
<1>2. IsFiniteSet(payment)
  BY <1>1, FS_EmptySet
<1>3. DistTypes
  BY <1>1, <1>2 DEF DistTypes, Amounts
<1>4. RowsAddUp
  BY <1>1 DEF RowsAddUp
<1> QED  BY <1>3, <1>4 DEF DistInv

\* A new distribution has nothing paid, and the old ones keep what they have.
LEMMA DistCreated ==
  ASSUME DistInv, NEW d \in Dist, NEW account \in BOOLEAN, D!handleDistributionCreated(d, account)
  PROVE  DistInv'
<1>1. PICK a : a = account
  OBVIOUS
<1>2. /\ ~distStopped /\ d \notin DOMAIN cDist /\ UNCHANGED <<payment, distStopped>>
      /\ cDist' = D!Save(cDist, d, [account |-> a, left |-> D!Total, claims |-> {}, state |-> "open"])
      /\ \/ distribution' = distribution
         \/ distribution' = D!Save(distribution, d, [taxes |-> 0, remaining |-> D!Total])
  BY <1>1, Zenon DEF D!handleDistributionCreated, D!Has
<1>3. /\ DOMAIN cDist' = DOMAIN cDist \union {d}
      /\ cDist'[d] = [account |-> a, left |-> D!Total, claims |-> {}, state |-> "open"]
      /\ \A e \in DOMAIN cDist : cDist'[e] = cDist[e]
  BY <1>2 DEF D!Save
<1>4. /\ DOMAIN cDist'[d] = {"account", "left", "claims", "state"}
      /\ cDist'[d].left = D!Total /\ cDist'[d].claims = {} /\ cDist'[d].state = "open"
  BY <1>3
<1>5. PaidOf(d, payment) = {} /\ ClaimedOf(d, payment) = {}
  <2>1. PaidOf(d, payment) = {}
    BY <1>2 DEF DistInv, DistTypes, PaidOf
  <2> QED  BY <2>1, Zenon DEF ClaimedOf
<1>6. Taxes({}) /\ D!Total \in Int
  BY FS_EmptySet, TotalInt DEF Taxes
<1>7. DOMAIN distribution' \subseteq DOMAIN distribution \union {d}
  BY <1>2 DEF D!Save
<1>8. DistTypes'
  <2>1. DistTypes /\ payment' = payment
    BY <1>2 DEF DistInv
  <2>2. \A e \in DOMAIN cDist' :
          /\ DOMAIN cDist'[e] = {"account", "left", "claims", "state"}
          /\ cDist'[e].left \in Int /\ Taxes(cDist'[e].claims)
          /\ cDist'[e].state = "open" => ClaimedOf(e, payment) = PaidOf(e, payment)
    BY <1>3, <1>4, <1>5, <1>6, <2>1 DEF DistTypes
  <2> QED  BY <1>3, <1>7, <2>1, <2>2 DEF DistTypes
<1>9. ASSUME NEW e \in DOMAIN distribution'
      PROVE  RowAddsUp(distribution'[e], cDist'[e], e, payment')
  <2>1. CASE e \in DOMAIN distribution
    <3>1. e # d /\ cDist'[e] = cDist[e]
      BY <1>2, <1>3, <2>1 DEF DistInv, DistTypes
    <3>2. distribution'[e] = distribution[e]
      BY <1>2, <2>1, <3>1 DEF D!Save
    <3> QED  BY <1>2, <2>1, <3>1, <3>2, Zenon DEF DistInv, RowsAddUp
  <2>2. CASE e \notin DOMAIN distribution
    <3>1. e = d /\ distribution'[d] = [taxes |-> 0, remaining |-> D!Total]
      BY <1>2, <1>7, <1>9, <2>2 DEF D!Save
    <3>2. {ClaimOf(p) : p \in {}} = {}
      OBVIOUS
    <3>3. \A row : row = [taxes |-> 0, remaining |-> D!Total] =>
            DOMAIN row = {"taxes", "remaining"} /\ row.taxes = 0 /\ row.remaining = D!Total
      OBVIOUS
    <3>4. D!Total - 0 = D!Total
      BY <1>6
    <3>5. RowAddsUp(distribution'[d], cDist'[d], d, payment)
      BY <1>4, <1>5, <1>6, <3>1, <3>2, <3>3, <3>4, NothingPaid DEF RowAddsUp
    <3> QED  BY <1>2, <3>1, <3>5
  <2> QED  BY <2>1, <2>2
<1> QED  BY <1>8, <1>9 DEF DistInv, RowsAddUp

\* A removed distribution has no row.
LEMMA DistRemoved ==
  ASSUME DistInv, NEW d \in Dist, D!handleDistributionRemoved(d)
  PROVE  DistInv'
<1>1. /\ ~distStopped /\ d \in DOMAIN cDist /\ UNCHANGED <<payment, distStopped>>
      /\ cDist' = [cDist EXCEPT ![d].state = "removed"]
      /\ distribution' = [e \in DOMAIN distribution \ {d} |-> distribution[e]]
  BY Zenon DEF D!handleDistributionRemoved, D!Active, D!Has, D!Delete
<1>2. DOMAIN cDist[d] = {"account", "left", "claims", "state"}
  BY <1>1 DEF DistInv, DistTypes
<1>3. /\ DOMAIN cDist' = DOMAIN cDist /\ cDist'[d] = [cDist[d] EXCEPT !.state = "removed"]
      /\ \A e \in DOMAIN cDist : e # d => cDist'[e] = cDist[e]
  BY <1>1
<1>4. /\ DOMAIN cDist'[d] = {"account", "left", "claims", "state"}
      /\ cDist'[d].left = cDist[d].left /\ cDist'[d].claims = cDist[d].claims
      /\ cDist'[d].state = "removed"
  BY <1>2, <1>3
<1>5. DistTypes'
  BY <1>1, <1>3, <1>4 DEF DistInv, DistTypes
<1>6. \A e \in DOMAIN distribution' : RowAddsUp(distribution'[e], cDist'[e], e, payment')
  BY <1>1, <1>3 DEF DistInv, DistTypes, RowsAddUp
<1> QED  BY <1>5, <1>6 DEF DistInv, RowsAddUp

\* What is claimed and its tax are numbers.
LEMMA TaxInt ==
  ASSUME NEW amount \in Benefit, NEW tax \in TaxRate
  PROVE  amount \in Int /\ D!TaxAmount(amount, tax) \in Int
<1>1. amount \in Int /\ tax \in Int /\ Million \in Int /\ Million > 0
  BY RegistersAssumption
<1>2. \A x, y \in Int : x * y \in Int
  OBVIOUS
<1>3. amount * tax \in Int
  BY <1>1, <1>2
<1>4. \A x, y \in Int : y > 0 => x \div y \in Int
  OBVIOUS
<1>5. (amount * tax) \div Million \in Int
  BY <1>1, <1>3, <1>4
<1> QED  BY <1>1, <1>5 DEF D!TaxAmount

\* A payment changes nothing of the other distributions.
LEMMA OthersPaid ==
  ASSUME DistInv, ~distStopped, NEW d, NEW q, q.distribution = d,
         DOMAIN distribution' = DOMAIN distribution, payment' = payment \union {q},
         \A e \in DOMAIN distribution : e # d => distribution'[e] = distribution[e],
         \A e \in DOMAIN cDist : e # d => cDist'[e] = cDist[e],
         NEW e \in DOMAIN distribution', e # d
  PROVE  RowAddsUp(distribution'[e], cDist'[e], e, payment')
<1>1. distribution'[e] = distribution[e] /\ cDist'[e] = cDist[e]
  BY DEF DistInv, DistTypes
<1>2. PaidOf(e, payment') = PaidOf(e, payment) /\ ClaimedOf(e, payment') = ClaimedOf(e, payment)
  BY ClaimedKept, Zenon
<1>3. RowAddsUp(distribution[e], cDist[e], e, payment)
  BY Zenon DEF DistInv, RowsAddUp
<1> QED  BY <1>1, <1>2, <1>3, Zenon DEF RowAddsUp

\* A claim adds its tax to the row and to what the chain has withheld.
LEMMA DistClaimed ==
  ASSUME DistInv, NEW d \in Dist, NEW target \in Target, NEW amount \in Benefit, NEW tax \in TaxRate,
         D!handleBenefitClaimed(d, target, amount, tax)
  PROVE  DistInv'
<1> DEFINE taxAmount == D!TaxAmount(amount, tax)
           c == [target |-> target, paid |-> amount - taxAmount, tax |-> taxAmount]
<1>1. amount \in Int /\ taxAmount \in Int
  BY TaxInt
<1>2. /\ ~distStopped /\ d \in DOMAIN cDist /\ cDist[d].state = "open"
      /\ target \notin {k.target : k \in cDist[d].claims}
      /\ cDist' = [cDist EXCEPT ![d].left = @ - amount, ![d].claims = @ \union {c}]
  BY Zenon DEF D!handleBenefitClaimed, D!Active, D!Has
<1>3. \/ d \notin DOMAIN distribution /\ distStopped' = TRUE /\ UNCHANGED <<distribution, payment>>
      \/ /\ d \in DOMAIN distribution
         /\ distribution' = [distribution EXCEPT ![d].taxes = @ + taxAmount]
         /\ payment' = payment \union {D!Payment(d, target, amount, taxAmount, FALSE)}
         /\ UNCHANGED distStopped
  BY Zenon DEF D!handleBenefitClaimed, D!Has, D!Withheld
<1> HIDE DEF taxAmount
<1>4. /\ DOMAIN cDist[d] = {"account", "left", "claims", "state"}
      /\ cDist[d].left \in Int /\ Taxes(cDist[d].claims)
      /\ ClaimedOf(d, payment) = PaidOf(d, payment)
  BY <1>2 DEF DistInv, DistTypes
<1>5. DOMAIN cDist' = DOMAIN cDist /\ \A e \in DOMAIN cDist : e # d => cDist'[e] = cDist[e]
  BY <1>2
<1>6. /\ DOMAIN cDist'[d] = {"account", "left", "claims", "state"}
      /\ cDist'[d].left = cDist[d].left - amount
      /\ cDist'[d].claims = cDist[d].claims \union {c}
      /\ cDist'[d].state = "open"
  BY <1>2, <1>4
<1>7. c.target = target /\ c.tax = taxAmount /\ c \notin cDist[d].claims
  BY <1>2
<1>8. Taxes(cDist'[d].claims)
  BY <1>1, <1>4, <1>6, <1>7, FS_AddElement DEF Taxes
<1>9. cDist'[d].left \in Int
  BY <1>1, <1>4, <1>6
<1> HIDE DEF c
<1>10. CASE d \notin DOMAIN distribution /\ distStopped' = TRUE /\ UNCHANGED <<distribution, payment>>
  <2>1. distStopped'
    BY <1>10, Zenon
  <2>2. UNCHANGED <<distribution, payment>>
    BY <1>10, Zenon
  <2>3. \A e \in DOMAIN cDist' :
          /\ DOMAIN cDist'[e] = {"account", "left", "claims", "state"}
          /\ cDist'[e].left \in Int /\ Taxes(cDist'[e].claims)
          /\ cDist'[e].state = "open" => ClaimedOf(e, payment) = PaidOf(e, payment)
    BY <1>4, <1>5, <1>6, <1>8, <1>9 DEF DistInv, DistTypes
  <2>4. DistTypes'
    BY <1>5, <2>2, <2>3 DEF DistInv, DistTypes
  <2> QED  BY <2>1, <2>4, Zenon DEF DistInv
<1>11. CASE /\ d \in DOMAIN distribution
            /\ distribution' = [distribution EXCEPT ![d].taxes = @ + taxAmount]
            /\ payment' = payment \union {D!Payment(d, target, amount, taxAmount, FALSE)}
            /\ UNCHANGED distStopped
  <2>1. PICK no : no = FALSE
    OBVIOUS
  <2>2. PICK q : q = [distribution |-> d, target |-> target, amount |-> amount,
                      amountAfterTax |-> amount - taxAmount, reclaimed |-> no]
    OBVIOUS
  <2>3. payment' = payment \union {q}
    BY <1>11, <2>1, <2>2, Zenon DEF D!Payment
  <2>4. /\ q.distribution = d /\ q.target = target /\ q.amount = amount
        /\ q.amountAfterTax = amount - taxAmount /\ q.reclaimed = no
    BY <2>2
  <2>5. ~q.reclaimed
    BY <2>1, <2>4, Zenon
  <2>6. q.amount \in Int /\ q.amountAfterTax \in Int /\ q.amount - q.amountAfterTax = taxAmount
    BY <1>1, <2>4
  <2>7. ClaimOf(q) = c
    BY <2>4, <2>6 DEF ClaimOf, c
  <2>8. /\ PaidOf(d, payment') = PaidOf(d, payment) \union {q}
        /\ ClaimedOf(d, payment') = ClaimedOf(d, payment) \union {q}
        /\ \A e : e # d => /\ PaidOf(e, payment') = PaidOf(e, payment)
                           /\ ClaimedOf(e, payment') = ClaimedOf(e, payment)
    <3> DEFINE paid == payment \union {q}
    <3>1. PaidOf(d, paid) = PaidOf(d, payment) \union {q}
      BY <2>4 DEF PaidOf
    <3>2. ClaimedOf(d, paid) = ClaimedOf(d, payment) \union {q}
      BY <2>4, <2>5, ClaimedGrow
    <3>3. ASSUME NEW e, e # d
          PROVE  PaidOf(e, paid) = PaidOf(e, payment) /\ ClaimedOf(e, paid) = ClaimedOf(e, payment)
      <4>1. q.distribution # e
        BY <2>4, <3>3
      <4> QED  BY <4>1, ClaimedKept, Zenon
    <3> QED  BY <2>3, <3>1, <3>2, <3>3
  <2>9. DistTypes'
    <3>1. Amounts(payment')
      BY <2>3, <2>6, FS_AddElement DEF DistInv, DistTypes, Amounts
    <3>2. \A p \in payment' : p.distribution \in DOMAIN cDist'
      BY <1>2, <1>5, <2>3, <2>4 DEF DistInv, DistTypes
    <3>3. ClaimedOf(d, payment') = PaidOf(d, payment')
      BY <1>4, <2>8
    <3>4. \A e \in DOMAIN cDist' :
            /\ DOMAIN cDist'[e] = {"account", "left", "claims", "state"}
            /\ cDist'[e].left \in Int /\ Taxes(cDist'[e].claims)
            /\ cDist'[e].state = "open" => ClaimedOf(e, payment') = PaidOf(e, payment')
      BY <1>5, <1>6, <1>8, <1>9, <2>8, <3>3 DEF DistInv, DistTypes
    <3>5. DOMAIN distribution' \subseteq DOMAIN cDist'
      BY <1>5, <1>11 DEF DistInv, DistTypes
    <3> QED  BY <3>1, <3>2, <3>4, <3>5 DEF DistTypes
  <2>10. RowAddsUp(distribution[d], cDist[d], d, payment)
    BY <1>2, <1>11, Zenon DEF DistInv, RowsAddUp
  <2>11. distribution'[d] = [distribution[d] EXCEPT !.taxes = distribution[d].taxes + taxAmount]
    BY <1>11
  <2>12. /\ DOMAIN distribution'[d] = {"taxes", "remaining"}
         /\ distribution'[d].taxes = distribution[d].taxes + taxAmount
         /\ distribution'[d].remaining = distribution[d].remaining
    BY <2>10, <2>11 DEF RowAddsUp
  <2>13. q \notin PaidOf(d, payment)
    <3>1. ASSUME q \in ClaimedOf(d, payment) PROVE FALSE
      <4>1. c \in cDist[d].claims
        BY <2>7, <2>10, <3>1 DEF RowAddsUp
      <4> QED  BY <1>7, <4>1
    <3> QED  BY <1>4, <3>1
  <2>14. Amounts(PaidOf(d, payment))
    BY FS_Subset DEF PaidOf, DistInv, DistTypes, Amounts
  <2>15. /\ TaxSum(ClaimedOf(d, payment')) = TaxSum(ClaimedOf(d, payment)) + taxAmount
         /\ AmountSum(PaidOf(d, payment')) = AmountSum(PaidOf(d, payment)) + amount
         /\ ClaimTaxSum(cDist'[d].claims) = ClaimTaxSum(cDist[d].claims) + taxAmount
         /\ AmountSum(PaidOf(d, payment)) \in Int
    <3>1. Amounts(ClaimedOf(d, payment)) /\ q \notin ClaimedOf(d, payment)
      BY <1>4, <2>13, <2>14
    <3>2. TaxSum(ClaimedOf(d, payment')) = TaxSum(ClaimedOf(d, payment)) + taxAmount
      BY <2>6, <2>8, <3>1, SumsGrow
    <3>3. /\ AmountSum(PaidOf(d, payment')) = AmountSum(PaidOf(d, payment)) + amount
          /\ AmountSum(PaidOf(d, payment)) \in Int
      BY <2>4, <2>6, <2>8, <2>13, <2>14, SumsGrow
    <3>4. ClaimTaxSum(cDist'[d].claims) = ClaimTaxSum(cDist[d].claims) + taxAmount
      BY <1>1, <1>4, <1>6, <1>7, SumsGrow
    <3> QED  BY <3>2, <3>3, <3>4
  <2>16. {ClaimOf(p) : p \in ClaimedOf(d, payment')} = cDist'[d].claims
    <3>1. \A S : {ClaimOf(p) : p \in S \union {q}} = {ClaimOf(p) : p \in S} \union {ClaimOf(q)}
      OBVIOUS
    <3> QED  BY <1>6, <2>7, <2>8, <2>10, <3>1, Zenon DEF RowAddsUp
  <2>17. /\ distribution'[d].taxes = TaxSum(ClaimedOf(d, payment'))
         /\ distribution'[d].taxes = ClaimTaxSum(cDist'[d].claims)
    BY <2>10, <2>12, <2>15 DEF RowAddsUp
  <2>18. /\ distribution'[d].remaining \in Int
         /\ distribution'[d].remaining - AmountSum(PaidOf(d, payment')) = cDist'[d].left
    <3>1. \A x, y, z, w \in Int : x - y = z => x - (y + w) = z - w
      OBVIOUS
    <3>2. /\ distribution[d].remaining \in Int
          /\ distribution[d].remaining - AmountSum(PaidOf(d, payment)) = cDist[d].left
      BY <2>10 DEF RowAddsUp
    <3> QED  BY <1>1, <1>4, <1>6, <2>12, <2>15, <3>1, <3>2
  <2>19. RowAddsUp(distribution'[d], cDist'[d], d, payment')
    BY <2>12, <2>16, <2>17, <2>18, Zenon DEF RowAddsUp
  <2>20. ASSUME NEW e \in DOMAIN distribution', e # d
         PROVE  RowAddsUp(distribution'[e], cDist'[e], e, payment')
    <3>1. /\ DOMAIN distribution' = DOMAIN distribution
          /\ \A k \in DOMAIN distribution : k # d => distribution'[k] = distribution[k]
      BY <1>11
    <3> QED  BY <1>2, <1>5, <2>3, <2>4, <2>20, <3>1, OthersPaid
  <2> QED  BY <2>9, <2>19, <2>20, Zenon DEF DistInv, RowsAddUp
<1> QED  BY <1>3, <1>10, <1>11, Zenon

\* What is left goes back to the creator, and nothing is left.
LEMMA DistReclaimed ==
  ASSUME DistInv, NEW d \in Dist, NEW who \in Target, D!handleReclaimed(d, who)
  PROVE  DistInv'
<1>1. /\ ~distStopped /\ d \in DOMAIN cDist /\ cDist[d].state = "open"
      /\ cDist' = [cDist EXCEPT ![d].left = 0, ![d].state = "reclaimed"]
      /\ payment' = payment \union {D!Payment(d, who, cDist[d].left, 0, TRUE)}
      /\ UNCHANGED <<distribution, distStopped>>
  BY Zenon DEF D!handleReclaimed, D!Active, D!Has
<1>2. PICK yes : yes = TRUE
  OBVIOUS
<1>3. PICK q : q = [distribution |-> d, target |-> who, amount |-> cDist[d].left,
                    amountAfterTax |-> cDist[d].left - 0, reclaimed |-> yes]
  OBVIOUS
<1>4. payment' = payment \union {q}
  BY <1>1, <1>2, <1>3, Zenon DEF D!Payment
<1>5. /\ DOMAIN cDist[d] = {"account", "left", "claims", "state"}
      /\ cDist[d].left \in Int /\ Taxes(cDist[d].claims)
      /\ ClaimedOf(d, payment) = PaidOf(d, payment)
  BY <1>1 DEF DistInv, DistTypes
<1>6. /\ q.distribution = d /\ q.amount = cDist[d].left /\ q.amountAfterTax \in Int
      /\ q.reclaimed = yes /\ q.amount \in Int
  BY <1>3, <1>5
<1>7. q.reclaimed
  BY <1>2, <1>6, Zenon
<1>8. DOMAIN cDist' = DOMAIN cDist /\ \A e \in DOMAIN cDist : e # d => cDist'[e] = cDist[e]
  BY <1>1
<1>9. /\ DOMAIN cDist'[d] = {"account", "left", "claims", "state"}
      /\ cDist'[d].left = 0 /\ cDist'[d].claims = cDist[d].claims
      /\ cDist'[d].state = "reclaimed"
  BY <1>1, <1>5
<1>10. /\ PaidOf(d, payment') = PaidOf(d, payment) \union {q}
       /\ ClaimedOf(d, payment') = ClaimedOf(d, payment)
       /\ \A e : e # d => /\ PaidOf(e, payment') = PaidOf(e, payment)
                          /\ ClaimedOf(e, payment') = ClaimedOf(e, payment)
  <2> DEFINE paid == payment \union {q}
  <2>1. PaidOf(d, paid) = PaidOf(d, payment) \union {q}
    BY <1>6 DEF PaidOf
  <2>2. ClaimedOf(d, paid) = ClaimedOf(d, payment)
    BY <1>7, ClaimedKept, Zenon
  <2>3. ASSUME NEW e, e # d
        PROVE  PaidOf(e, paid) = PaidOf(e, payment) /\ ClaimedOf(e, paid) = ClaimedOf(e, payment)
    <3>1. q.distribution # e
      BY <1>6, <2>3
    <3> QED  BY <3>1, ClaimedKept, Zenon
  <2> QED  BY <1>4, <2>1, <2>2, <2>3
<1>11. DistTypes'
  <2>1. Amounts(payment')
    BY <1>4, <1>6, FS_AddElement DEF DistInv, DistTypes, Amounts
  <2>2. \A p \in payment' : p.distribution \in DOMAIN cDist'
    BY <1>1, <1>4, <1>6, <1>8 DEF DistInv, DistTypes
  <2>3. \A e \in DOMAIN cDist' :
          /\ DOMAIN cDist'[e] = {"account", "left", "claims", "state"}
          /\ cDist'[e].left \in Int /\ Taxes(cDist'[e].claims)
          /\ cDist'[e].state = "open" => ClaimedOf(e, payment') = PaidOf(e, payment')
    BY <1>5, <1>8, <1>9, <1>10 DEF DistInv, DistTypes
  <2>4. DOMAIN distribution' \subseteq DOMAIN cDist'
    BY <1>1, <1>8 DEF DistInv, DistTypes
  <2> QED  BY <2>1, <2>2, <2>3, <2>4 DEF DistTypes
<1>12. ASSUME d \in DOMAIN distribution
       PROVE  RowAddsUp(distribution'[d], cDist'[d], d, payment')
  <2>1. RowAddsUp(distribution[d], cDist[d], d, payment)
    BY <1>1, <1>12, Zenon DEF DistInv, RowsAddUp
  <2>2. q \notin PaidOf(d, payment)
    BY <1>5, <1>7, Zenon DEF ClaimedOf
  <2>3. Amounts(PaidOf(d, payment))
    BY FS_Subset DEF PaidOf, DistInv, DistTypes, Amounts
  <2>4. /\ AmountSum(PaidOf(d, payment')) = AmountSum(PaidOf(d, payment)) + q.amount
        /\ AmountSum(PaidOf(d, payment)) \in Int
    BY <1>6, <1>10, <2>2, <2>3, SumsGrow
  <2>5. /\ distribution[d].remaining \in Int
        /\ distribution[d].remaining - AmountSum(PaidOf(d, payment)) = cDist[d].left
    BY <2>1 DEF RowAddsUp
  <2>6. \A x, y, z \in Int : x - y = z => x - (y + z) = 0
    OBVIOUS
  <2>7. distribution[d].remaining - AmountSum(PaidOf(d, payment')) = cDist'[d].left
    BY <1>5, <1>6, <1>9, <2>4, <2>5, <2>6
  <2> QED  BY <1>1, <1>9, <1>10, <2>1, <2>7, Zenon DEF RowAddsUp
<1>13. ASSUME NEW e \in DOMAIN distribution', e # d
       PROVE  RowAddsUp(distribution'[e], cDist'[e], e, payment')
  <2>1. /\ DOMAIN distribution' = DOMAIN distribution
        /\ \A k \in DOMAIN distribution : k # d => distribution'[k] = distribution[k]
    BY <1>1
  <2> QED  BY <1>1, <1>4, <1>6, <1>8, <1>13, <2>1, OthersPaid
<1>14. DOMAIN distribution' = DOMAIN distribution
  BY <1>1
<1> QED  BY <1>11, <1>12, <1>13, <1>14, Zenon DEF DistInv, RowsAddUp

\* Every event of a distribution.
LEMMA DistStep == DistInv /\ D!Next => DistInv'
BY DistCreated, DistRemoved, DistClaimed, DistReclaimed DEF D!Next

\* The invariant of the distributions holds in every state of the registers.
LEMMA DistAlways == Spec => []DistInv
<1>1. Init => DistInv
  BY DistInit DEF Init
<1>2. DistInv /\ [Next]_vars => DistInv'
  <2> SUFFICES ASSUME DistInv, [Next]_vars PROVE DistInv'
    OBVIOUS
  <2>1. D!Next \/ UNCHANGED distributionVars
    BY DEF Next, Only, vars, Rules
  <2>2. CASE D!Next
    BY <2>2, DistStep
  <2>3. CASE UNCHANGED distributionVars
    <3>1. /\ cDist' = cDist /\ distribution' = distribution
          /\ payment' = payment /\ distStopped' = distStopped
      BY <2>3 DEF distributionVars
    <3>2. DistTypes'
      BY <3>1 DEF DistInv, DistTypes
    <3>3. ~distStopped => RowsAddUp'
      BY <3>1 DEF DistInv, RowsAddUp
    <3> QED  BY <3>1, <3>2, <3>3, Zenon DEF DistInv
  <2> QED  BY <2>1, <2>2, <2>3
<1> QED  BY <1>1, <1>2, PTL DEF Spec

\* In every state in which no claim has stopped the indexer, the taxes and the
\* payments of a distribution add up to what the chain has paid of it.
THEOREM DistributionsAlwaysAddUp == Spec => []DistributionsAddUp
<1> QED  BY DistShown, DistAlways, PTL

-----------------------------------------------------------------------------
(* NFTs.                                                                   *)

Held == {n \in Nft : cOwner[n] # NoDid}

\* The list of each identity is a list of the ids it holds, each once.
NftInv ==
  /\ cOwner \in [Nft -> Did \union {NoDid}]
  /\ \A d \in Did : /\ N!Ids(d) \in Seq(Nft) /\ IsInjective(N!Ids(d))
                    /\ ToSet(N!Ids(d)) = {n \in Nft : cOwner[n] = d}
  /\ supply = Cardinality(Held)

\* The operators of the instance are those the lemmas are about.
LEMMA NftOperators ==
  /\ \A s : N!ToSet(s) = ToSet(s) /\ (N!IsInjective(s) <=> IsInjective(s))
  /\ \A list, ids : N!Without(list, ids) = FilterOut(list, ToSet(ids))
  /\ \A S : N!Cardinality(S) = Cardinality(S)
<1>1. \A s : N!ToSet(s) = ToSet(s)
  BY DEF N!ToSet, ToSet
<1>2. \A s : N!IsInjective(s) <=> IsInjective(s)
  BY DEF N!IsInjective, IsInjective
<1>3. \A list, items : N!FilterOut(list, items) = FilterOut(list, items)
  BY DEF N!FilterOut, N!FoldLeft, N!MapThenFoldSet, N!Max,
         FilterOut, FoldLeft, MapThenFoldSet, Max
<1>4. \A S : N!Cardinality(S) = Cardinality(S)
  BY DEF N!Cardinality, Cardinality
<1> QED  BY <1>1, <1>2, <1>3, <1>4 DEF N!Without

\* The lists an event brings are lists of ids, each once.
LEMMA NftBatch ==
  ASSUME NEW ids \in N!Batches
  PROVE  /\ ids \in Seq(Nft) /\ IsInjective(ids) /\ ToSet(ids) \subseteq Nft
         /\ IsFiniteSet(ToSet(ids)) /\ Cardinality(ToSet(ids)) = Len(ids)
<1>1. Cardinality(Nft) \in Nat
  BY RegistersAssumption, FS_CardinalityType
<1>2. PICK k \in 1..Cardinality(Nft) : ids \in [1..k -> Nft] /\ IsInjective(ids)
  <2>1. ids \in UNION {N!TupleOf(Nft, k) : k \in 1..Cardinality(Nft)} /\ N!IsInjective(ids)
    BY NftOperators DEF N!Batches
  <2>2. PICK k \in 1..Cardinality(Nft) : ids \in N!TupleOf(Nft, k)
    BY <2>1
  <2> QED  BY <2>1, <2>2, NftOperators DEF N!TupleOf
<1>3. k \in Nat /\ ids \in Seq(Nft) /\ Len(ids) = k /\ DOMAIN ids = 1..k
  <2>1. k \in Nat
    BY <1>1
  <2> QED  BY <1>2, <2>1
<1>4. ToSet(ids) \subseteq Nft
  BY <1>2, <1>3 DEF ToSet
<1>5. ids \in Surjection(1..k, ToSet(ids)) /\ ids \in Injection(1..k, ToSet(ids))
  BY <1>2, <1>3 DEF ToSet, Surjection, Injection
<1>6. IsFiniteSet(1..k) /\ Cardinality(1..k) = k
  BY <1>3, FS_Interval
<1> QED  BY <1>2, <1>3, <1>4, <1>5, <1>6, FS_Surjection

\* There are none at first.
LEMMA NftInit == N!Init => NftInv
<1> SUFFICES ASSUME N!Init PROVE NftInv
  OBVIOUS
<1>1. cOwner = [n \in Nft |-> NoDid] /\ supply = 0
  BY DEF N!Init
<1>2. \A d \in Did : N!Ids(d) = << >>
  BY DEF N!Init, N!NoTable, N!Ids, N!Has
<1>3. << >> \in Seq(Nft) /\ IsInjective(<< >>) /\ ToSet(<< >>) = {}
  BY DEF IsInjective, ToSet
<1>4. Held = {} /\ Cardinality({}) = 0
  BY <1>1, FS_EmptySet DEF Held
<1>5. \A d \in Did : d # NoDid
  BY RegistersAssumption
<1> QED  BY <1>1, <1>2, <1>3, <1>4, <1>5 DEF NftInv

\* The ids are issued to an identity: its list has them at its end.
LEMMA NftIssued ==
  ASSUME NftInv, NEW d \in Did, NEW ids \in N!Batches, N!Issued(d, ids)
  PROVE  NftInv'
<1>1. /\ \A n \in ToSet(ids) : cOwner[n] = NoDid
      /\ cOwner' = [n \in Nft |-> IF n \in ToSet(ids) THEN d ELSE cOwner[n]]
      /\ supply' = supply + Len(ids) /\ holder' = N!Save(holder, d, N!Ids(d) \o ids)
  BY NftOperators DEF N!Issued, N!HeldBy, N!Give
<1>2. /\ ids \in Seq(Nft) /\ IsInjective(ids) /\ ToSet(ids) \subseteq Nft
      /\ IsFiniteSet(ToSet(ids)) /\ Cardinality(ToSet(ids)) = Len(ids)
  BY NftBatch
<1>3. d # NoDid /\ \A e \in Did : e # NoDid
  BY RegistersAssumption
<1>4. /\ N!Ids(d)' = N!Ids(d) \o ids
      /\ \A e \in Did \ {d} : N!Ids(e)' = N!Ids(e)
  BY <1>1 DEF N!Ids, N!Has, N!Save
<1>5. cOwner' \in [Nft -> Did \union {NoDid}]
  BY <1>1 DEF NftInv
<1>6. ToSet(N!Ids(d)) \cap ToSet(ids) = {}
  BY <1>1, <1>3 DEF NftInv
<1>7. /\ N!Ids(d) \o ids \in Seq(Nft) /\ IsInjective(N!Ids(d) \o ids)
      /\ ToSet(N!Ids(d) \o ids) = ToSet(N!Ids(d)) \union ToSet(ids)
  BY <1>2, <1>6, ListsJoined DEF NftInv
<1>8. {n \in Nft : cOwner'[n] = d} = {n \in Nft : cOwner[n] = d} \union ToSet(ids)
  BY <1>1, <1>2
<1>9. \A e \in Did \ {d} : {n \in Nft : cOwner'[n] = e} = {n \in Nft : cOwner[n] = e}
  BY <1>1, <1>3
<1>10. \A e \in Did : /\ N!Ids(e)' \in Seq(Nft) /\ IsInjective(N!Ids(e)')
                      /\ ToSet(N!Ids(e)') = {n \in Nft : cOwner'[n] = e}
  BY <1>4, <1>7, <1>8, <1>9 DEF NftInv
<1>11. Held' = Held \union ToSet(ids) /\ Held \cap ToSet(ids) = {}
  BY <1>1, <1>2, <1>3 DEF Held
<1>12. IsFiniteSet(Held) /\ Cardinality(Held) \in Nat
  BY RegistersAssumption, FS_Subset, FS_CardinalityType DEF Held
<1>13. Cardinality(Held') = Cardinality(Held) + Len(ids)
  <2>1. Len(ids) \in Nat
    BY <1>2
  <2>2. Cardinality(Held') = Cardinality(Held) + Cardinality(ToSet(ids)) - Cardinality({})
    BY <1>2, <1>11, <1>12, FS_Union
  <2> QED  BY <1>2, <1>12, <2>1, <2>2, FS_EmptySet
<1> QED  BY <1>1, <1>5, <1>10, <1>13 DEF NftInv

\* The ids are redeemed: they are gone from the list.
LEMMA NftRedeemed ==
  ASSUME NftInv, NEW d \in Did, NEW ids \in N!Batches, N!Redeemed(d, ids)
  PROVE  NftInv'
<1>1. /\ \A n \in ToSet(ids) : cOwner[n] = d
      /\ cOwner' = [n \in Nft |-> IF n \in ToSet(ids) THEN NoDid ELSE cOwner[n]]
      /\ supply' = supply - Len(ids)
      /\ holder' = N!Save(holder, d, FilterOut(N!Ids(d), ToSet(ids)))
  BY NftOperators DEF N!Redeemed, N!HeldBy, N!Give
<1>2. /\ ids \in Seq(Nft) /\ IsInjective(ids) /\ ToSet(ids) \subseteq Nft
      /\ IsFiniteSet(ToSet(ids)) /\ Cardinality(ToSet(ids)) = Len(ids)
  BY NftBatch
<1>3. d # NoDid /\ \A e \in Did : e # NoDid
  BY RegistersAssumption
<1>4. /\ N!Ids(d)' = FilterOut(N!Ids(d), ToSet(ids))
      /\ \A e \in Did \ {d} : N!Ids(e)' = N!Ids(e)
  BY <1>1 DEF N!Ids, N!Has, N!Save
<1>5. cOwner' \in [Nft -> Did \union {NoDid}]
  BY <1>1 DEF NftInv
<1>7. /\ N!Ids(d)' \in Seq(Nft) /\ IsInjective(N!Ids(d)')
      /\ ToSet(N!Ids(d)') = ToSet(N!Ids(d)) \ ToSet(ids)
  BY <1>4, FilterOutList DEF NftInv
<1>8. {n \in Nft : cOwner'[n] = d} = {n \in Nft : cOwner[n] = d} \ ToSet(ids)
  BY <1>1, <1>2, <1>3
<1>9. \A e \in Did \ {d} : {n \in Nft : cOwner'[n] = e} = {n \in Nft : cOwner[n] = e}
  BY <1>1, <1>3
<1>10. \A e \in Did : /\ N!Ids(e)' \in Seq(Nft) /\ IsInjective(N!Ids(e)')
                      /\ ToSet(N!Ids(e)') = {n \in Nft : cOwner'[n] = e}
  BY <1>4, <1>7, <1>8, <1>9 DEF NftInv
<1>11. Held' = Held \ ToSet(ids) /\ Held \cap ToSet(ids) = ToSet(ids)
  BY <1>1, <1>2, <1>3 DEF Held
<1>12. IsFiniteSet(Held) /\ Cardinality(Held) \in Nat
  BY RegistersAssumption, FS_Subset, FS_CardinalityType DEF Held
<1>13. Cardinality(Held') = Cardinality(Held) - Len(ids)
  <2>1. Cardinality(Held') = Cardinality(Held) - Cardinality(ToSet(ids))
    BY <1>11, <1>12, FS_Difference
  <2> QED  BY <1>2, <2>1
<1> QED  BY <1>1, <1>5, <1>10, <1>13 DEF NftInv

\* The ids move from the one list to the end of the other.
LEMMA NftTransferred ==
  ASSUME NftInv, NEW from \in Did, NEW to \in Did, NEW ids \in N!Batches,
         N!Transferred(from, to, ids)
  PROVE  NftInv'
<1>0. from # to
  BY DEF N!Transferred
<1>1. /\ \A n \in ToSet(ids) : cOwner[n] = from
      /\ cOwner' = [n \in Nft |-> IF n \in ToSet(ids) THEN to ELSE cOwner[n]]
      /\ supply' = supply
      /\ holder' = N!Save(N!Save(holder, from, FilterOut(N!Ids(from), ToSet(ids))),
                          to, N!Ids(to) \o ids)
  BY NftOperators DEF N!Transferred, N!HeldBy, N!Give
<1>2. ids \in Seq(Nft) /\ IsInjective(ids) /\ ToSet(ids) \subseteq Nft
  BY NftBatch
<1>3. \A e \in Did : e # NoDid
  BY RegistersAssumption
<1>4. /\ N!Ids(from)' = FilterOut(N!Ids(from), ToSet(ids))
      /\ N!Ids(to)' = N!Ids(to) \o ids
      /\ \A e \in Did \ {from, to} : N!Ids(e)' = N!Ids(e)
  <2> DEFINE first == N!Save(holder, from, FilterOut(N!Ids(from), ToSet(ids)))
  <2>1. /\ DOMAIN first = DOMAIN holder \union {from}
        /\ first[from] = FilterOut(N!Ids(from), ToSet(ids))
        /\ \A e \in DOMAIN holder : e # from => first[e] = holder[e]
    BY DEF N!Save
  <2> HIDE DEF first
  <2>2. /\ DOMAIN holder' = DOMAIN first \union {to} /\ holder'[to] = N!Ids(to) \o ids
        /\ \A e \in DOMAIN first : e # to => holder'[e] = first[e]
    BY <1>1 DEF first, N!Save
  <2> QED  BY <1>0, <2>1, <2>2 DEF N!Ids, N!Has
<1>5. cOwner' \in [Nft -> Did \union {NoDid}]
  BY <1>1 DEF NftInv
<1>6. ToSet(N!Ids(to)) \cap ToSet(ids) = {}
  BY <1>0, <1>1 DEF NftInv
<1>7. /\ N!Ids(from)' \in Seq(Nft) /\ IsInjective(N!Ids(from)')
      /\ ToSet(N!Ids(from)') = ToSet(N!Ids(from)) \ ToSet(ids)
  BY <1>4, FilterOutList DEF NftInv
<1>8. /\ N!Ids(to) \o ids \in Seq(Nft) /\ IsInjective(N!Ids(to) \o ids)
      /\ ToSet(N!Ids(to) \o ids) = ToSet(N!Ids(to)) \union ToSet(ids)
  BY <1>2, <1>6, ListsJoined DEF NftInv
<1>9. {n \in Nft : cOwner'[n] = from} = {n \in Nft : cOwner[n] = from} \ ToSet(ids)
  BY <1>0, <1>1, <1>2
<1>10. {n \in Nft : cOwner'[n] = to} = {n \in Nft : cOwner[n] = to} \union ToSet(ids)
  BY <1>1, <1>2
<1>11. \A e \in Did \ {from, to} : {n \in Nft : cOwner'[n] = e} = {n \in Nft : cOwner[n] = e}
  BY <1>1
<1>12. \A e \in Did : /\ N!Ids(e)' \in Seq(Nft) /\ IsInjective(N!Ids(e)')
                      /\ ToSet(N!Ids(e)') = {n \in Nft : cOwner'[n] = e}
  BY <1>4, <1>7, <1>8, <1>9, <1>10, <1>11 DEF NftInv
<1>13. Held' = Held
  BY <1>1, <1>3 DEF Held
<1> QED  BY <1>1, <1>5, <1>12, <1>13 DEF NftInv

\* The invariant of the collection holds in every state of the registers.
LEMMA NftAlways == Spec => []NftInv
<1>1. Init => NftInv
  BY NftInit DEF Init
<1>2. NftInv /\ [Next]_vars => NftInv'
  <2> SUFFICES ASSUME NftInv, [Next]_vars PROVE NftInv'
    OBVIOUS
  <2>1. N!Next \/ UNCHANGED nftVars
    BY DEF Next, Only, vars, Rules
  <2>2. CASE N!Next
    BY <2>2, NftIssued, NftRedeemed, NftTransferred DEF N!Next
  <2>3. CASE UNCHANGED nftVars
    BY <2>3 DEF nftVars, NftInv, Held, N!Ids, N!Has
  <2> QED  BY <2>1, <2>2, <2>3
<1> QED  BY <1>1, <1>2, PTL DEF Spec

\* In every state the list of an identity has the ids it holds, each once, and
\* the supply is the number of ids that anyone holds.
THEOREM NftsAlwaysMirrorChain == Spec => []NftsMirrorChain
<1>1. NftInv => NftsMirrorChain
  BY NftOperators DEF NftInv, Held, NftsMirrorChain, N!NftsMirrorChain
<1> QED  BY <1>1, NftAlways, PTL

-----------------------------------------------------------------------------
(* Confidential assets.                                                    *)

AssetColumns == {"totalSupply", "venueFiltering", "allowed", "isFrozen"}
Plain == {"totalSupply", "venueFiltering", "isFrozen"}
FrozenList(a) == IF a \in DOMAIN confAccount THEN confAccount[a] ELSE << >>

\* The row of an asset is what the pallet has of it: the columns are the
\* same, the venues a list of those it allows.
RowSound(row, chain) ==
  /\ row = [k \in AssetColumns |-> row[k]] /\ chain = [k \in AssetColumns |-> chain[k]]
  /\ \A k \in Plain : row[k] = chain[k]
  /\ row.allowed \in Seq(ConfVenue) /\ IsInjective(row.allowed)
  /\ ToSet(row.allowed) = chain.allowed

\* Every asset of the pallet has a row, and no other.
ConfidentialAssetsInv ==
  /\ DOMAIN confAsset = DOMAIN cAsset
  /\ \A s \in DOMAIN confAsset : RowSound(confAsset[s], cAsset[s])

\* The lists are lists of what an account is frozen for, and an account that
\* the pallet does not have is frozen for nothing.
FrozenInv ==
  /\ cFrozen \in [ConfAccount -> SUBSET ConfAsset]
  /\ \A a \in ConfAccount :
       /\ cFrozen[a] # {} => a \in cAccount
       /\ FrozenList(a) \in Seq(ConfAsset) /\ IsInjective(FrozenList(a))
       /\ ToSet(FrozenList(a)) = cFrozen[a]

ConfidentialInv == ConfidentialAssetsInv /\ FrozenInv /\ confHolder = cBalance

\* The operators of the instance are those the lemmas are about.
LEMMA ConfidentialOperators ==
  /\ \A s : K!ToSet(s) = ToSet(s) /\ (K!IsInjective(s) <=> IsInjective(s))
  /\ \A list, items : K!FilterOut(list, items) = FilterOut(list, items)
  /\ \A list, x : K!AddIfNotIncludes(list, x) = AddIfNotIncludes(list, x)
<1>1. \A s : K!ToSet(s) = ToSet(s)
  BY DEF K!ToSet, ToSet
<1>2. \A s : K!IsInjective(s) <=> IsInjective(s)
  BY DEF K!IsInjective, IsInjective
<1>3. \A list, items : K!FilterOut(list, items) = FilterOut(list, items)
  BY DEF K!FilterOut, K!FoldLeft, K!MapThenFoldSet, K!Max,
         FilterOut, FoldLeft, MapThenFoldSet, Max
<1>4. \A list, x : K!AddIfNotIncludes(list, x) = AddIfNotIncludes(list, x)
  BY DEF K!AddIfNotIncludes, K!Contains, AddIfNotIncludes, Contains
<1> QED  BY <1>1, <1>2, <1>3, <1>4

\* The lists of venues an event brings are lists of venues, each once.
LEMMA VenuesBatch ==
  ASSUME NEW venues \in K!Batches
  PROVE  venues \in Seq(ConfVenue) /\ IsInjective(venues)
<1>1. /\ venues \in K!TupleOf(ConfVenue, 1) \union K!TupleOf(ConfVenue, 2)
      /\ IsInjective(venues)
  BY ConfidentialOperators DEF K!Batches
<1>2. venues \in [1..1 -> ConfVenue] \/ venues \in [1..2 -> ConfVenue]
  BY <1>1 DEF K!TupleOf
<1>3. \A n \in Nat : [1..n -> ConfVenue] \subseteq Seq(ConfVenue)
  OBVIOUS
<1> QED  BY <1>1, <1>2, <1>3

\* A plain column of an asset takes the same value in its row.
LEMMA ColumnChanged ==
  ASSUME ConfidentialAssetsInv, NEW s \in DOMAIN confAsset, NEW k \in Plain, NEW x,
         confAsset' = [confAsset EXCEPT ![s] = [confAsset[s] EXCEPT ![k] = x]],
         cAsset' = [cAsset EXCEPT ![s] = [cAsset[s] EXCEPT ![k] = x]]
  PROVE  ConfidentialAssetsInv'
<1> DEFINE row == [confAsset[s] EXCEPT ![k] = x]
           chain == [cAsset[s] EXCEPT ![k] = x]
<1>1. k \in AssetColumns /\ "allowed" \in AssetColumns /\ k # "allowed" /\ Plain \subseteq AssetColumns
  BY DEF Plain, AssetColumns
<1>2. /\ confAsset[s] = [j \in AssetColumns |-> confAsset[s][j]]
      /\ cAsset[s] = [j \in AssetColumns |-> cAsset[s][j]]
      /\ \A j \in Plain : confAsset[s][j] = cAsset[s][j]
      /\ DOMAIN confAsset = DOMAIN cAsset
  BY DEF ConfidentialAssetsInv, RowSound
<1>3. /\ row = [j \in AssetColumns |-> row[j]] /\ chain = [j \in AssetColumns |-> chain[j]]
      /\ \A j \in AssetColumns : row[j] = IF j = k THEN x ELSE confAsset[s][j]
      /\ \A j \in AssetColumns : chain[j] = IF j = k THEN x ELSE cAsset[s][j]
  BY <1>1, <1>2
<1>4. /\ \A j \in Plain : row[j] = chain[j]
      /\ row["allowed"] = confAsset[s].allowed /\ chain["allowed"] = cAsset[s].allowed
  BY <1>1, <1>2, <1>3
<1>5. /\ DOMAIN confAsset' = DOMAIN confAsset /\ DOMAIN cAsset' = DOMAIN cAsset
      /\ confAsset'[s] = row /\ cAsset'[s] = chain
      /\ \A t \in DOMAIN confAsset : t # s => confAsset'[t] = confAsset[t] /\ cAsset'[t] = cAsset[t]
  BY <1>2
<1>6. RowSound(confAsset[s], cAsset[s])
  BY DEF ConfidentialAssetsInv
<1> HIDE DEF row, chain
<1>7. RowSound(row, chain)
  BY <1>3, <1>4, <1>6 DEF RowSound
<1> QED  BY <1>2, <1>5, <1>7 DEF ConfidentialAssetsInv

\* The venues of an asset become others, on both sides.
LEMMA VenuesChanged ==
  ASSUME ConfidentialAssetsInv, NEW s \in DOMAIN confAsset, NEW list, NEW known,
         confAsset' = [confAsset EXCEPT ![s] = [confAsset[s] EXCEPT !.allowed = list]],
         cAsset' = [cAsset EXCEPT ![s] = [cAsset[s] EXCEPT !.allowed = known]],
         list \in Seq(ConfVenue), IsInjective(list), ToSet(list) = known
  PROVE  ConfidentialAssetsInv'
<1> DEFINE row == [confAsset[s] EXCEPT !.allowed = list]
           chain == [cAsset[s] EXCEPT !.allowed = known]
<1>1. "allowed" \in AssetColumns /\ \A j \in Plain : j # "allowed" /\ j \in AssetColumns
  BY DEF Plain, AssetColumns
<1>2. /\ confAsset[s] = [j \in AssetColumns |-> confAsset[s][j]]
      /\ cAsset[s] = [j \in AssetColumns |-> cAsset[s][j]]
      /\ \A j \in Plain : confAsset[s][j] = cAsset[s][j]
      /\ DOMAIN confAsset = DOMAIN cAsset
  BY DEF ConfidentialAssetsInv, RowSound
<1>3. /\ row = [j \in AssetColumns |-> row[j]] /\ chain = [j \in AssetColumns |-> chain[j]]
      /\ \A j \in AssetColumns : row[j] = IF j = "allowed" THEN list ELSE confAsset[s][j]
      /\ \A j \in AssetColumns : chain[j] = IF j = "allowed" THEN known ELSE cAsset[s][j]
  BY <1>1, <1>2
<1>4. /\ \A j \in Plain : row[j] = chain[j]
      /\ row.allowed = list /\ chain.allowed = known
  BY <1>1, <1>2, <1>3
<1>5. /\ DOMAIN confAsset' = DOMAIN confAsset /\ DOMAIN cAsset' = DOMAIN cAsset
      /\ confAsset'[s] = row /\ cAsset'[s] = chain
      /\ \A t \in DOMAIN confAsset : t # s => confAsset'[t] = confAsset[t] /\ cAsset'[t] = cAsset[t]
  BY <1>2
<1>6. RowSound(confAsset[s], cAsset[s])
  BY DEF ConfidentialAssetsInv
<1> HIDE DEF row, chain
<1>7. RowSound(row, chain)
  BY <1>3, <1>4, <1>6 DEF RowSound
<1> QED  BY <1>2, <1>5, <1>7 DEF ConfidentialAssetsInv

\* Venues are put before those that are there, and taken out.
LEMMA VenuesAllowed ==
  ASSUME ConfidentialInv, NEW s \in ConfAsset, NEW venues \in K!Batches,
         K!handleVenuesAllowed(s, venues) \/ K!handleVenuesBlocked(s, venues)
  PROVE  ConfidentialInv'
<1>0. /\ s \in DOMAIN confAsset /\ s \in DOMAIN cAsset
      /\ confAsset[s].allowed \in Seq(ConfVenue) /\ IsInjective(confAsset[s].allowed)
      /\ ToSet(confAsset[s].allowed) = cAsset[s].allowed
  BY DEF K!handleVenuesAllowed, K!handleVenuesBlocked, K!Has, ConfidentialInv,
         ConfidentialAssetsInv, RowSound
<1>1. venues \in Seq(ConfVenue) /\ IsInjective(venues)
  BY VenuesBatch
<1>2. PICK list, known :
        /\ confAsset' = [confAsset EXCEPT ![s] = [confAsset[s] EXCEPT !.allowed = list]]
        /\ cAsset' = [cAsset EXCEPT ![s] = [cAsset[s] EXCEPT !.allowed = known]]
        /\ list \in Seq(ConfVenue) /\ IsInjective(list) /\ ToSet(list) = known
  <2>1. CASE K!handleVenuesAllowed(s, venues)
    <3> DEFINE rest == FilterOut(confAsset[s].allowed, ToSet(venues))
               list == venues \o rest
               known == cAsset[s].allowed \union ToSet(venues)
    <3>1. /\ confAsset' = [confAsset EXCEPT ![s] = [confAsset[s] EXCEPT !.allowed = list]]
          /\ cAsset' = [cAsset EXCEPT ![s] = [cAsset[s] EXCEPT !.allowed = known]]
      BY <1>0, <2>1, ConfidentialOperators DEF K!handleVenuesAllowed, K!Update, K!Allow, K!Has
    <3>2. /\ rest \in Seq(ConfVenue) /\ IsInjective(rest)
          /\ ToSet(rest) = ToSet(confAsset[s].allowed) \ ToSet(venues)
      BY <1>0, FilterOutList
    <3> HIDE DEF rest
    <3>3. list \in Seq(ConfVenue) /\ IsInjective(list) /\ ToSet(list) = ToSet(venues) \union ToSet(rest)
      BY <1>1, <3>2, ListsJoined
    <3>4. ToSet(list) = known
      BY <1>0, <3>2, <3>3
    <3> HIDE DEF list, known
    <3> QED  BY <3>1, <3>3, <3>4
  <2>2. CASE K!handleVenuesBlocked(s, venues)
    <3> DEFINE list == FilterOut(confAsset[s].allowed, ToSet(venues))
               known == cAsset[s].allowed \ ToSet(venues)
    <3>1. /\ confAsset' = [confAsset EXCEPT ![s] = [confAsset[s] EXCEPT !.allowed = list]]
          /\ cAsset' = [cAsset EXCEPT ![s] = [cAsset[s] EXCEPT !.allowed = known]]
      BY <1>0, <2>2, ConfidentialOperators DEF K!handleVenuesBlocked, K!Update, K!Has
    <3>2. list \in Seq(ConfVenue) /\ IsInjective(list) /\ ToSet(list) = known
      BY <1>0, FilterOutList
    <3> HIDE DEF list, known
    <3> QED  BY <3>1, <3>2
  <2> QED  BY <2>1, <2>2
<1>3. ConfidentialAssetsInv'
  BY <1>0, <1>2, VenuesChanged DEF ConfidentialInv
<1>4. UNCHANGED <<cAccount, cFrozen, cBalance, confAccount, confHolder>>
  BY DEF K!handleVenuesAllowed, K!handleVenuesBlocked, K!Update
<1> QED  BY <1>3, <1>4 DEF ConfidentialInv, FrozenInv, FrozenList

\* Issuing and burning change the supply and a balance.
LEMMA AssetIssued ==
  ASSUME ConfidentialInv, NEW s, NEW a, NEW n, K!IssueOrBurn(s, a, n)
  PROVE  ConfidentialInv'
<1>0. s \in DOMAIN confAsset /\ s \in DOMAIN cAsset
  BY DEF K!IssueOrBurn, K!Has, ConfidentialInv, ConfidentialAssetsInv
<1> DEFINE x == cAsset[s].totalSupply + n
<1>1. /\ confAsset' = [confAsset EXCEPT ![s] = [confAsset[s] EXCEPT !["totalSupply"] = x]]
      /\ cAsset' = [cAsset EXCEPT ![s] = [cAsset[s] EXCEPT !["totalSupply"] = x]]
  BY <1>0 DEF K!IssueOrBurn, K!Update, K!Has
<1>2. "totalSupply" \in Plain
  BY DEF Plain
<1> HIDE DEF x
<1>3. ConfidentialAssetsInv'
  BY <1>0, <1>1, <1>2, ColumnChanged DEF ConfidentialInv
<1>4. UNCHANGED <<cAccount, cFrozen, confAccount>>
  BY DEF K!IssueOrBurn, K!Update
<1>5. confHolder' = cBalance'
  BY DEF ConfidentialInv, K!IssueOrBurn, K!HolderSaved
<1> QED  BY <1>3, <1>4, <1>5 DEF ConfidentialInv, FrozenInv, FrozenList

\* The filtering and the freezing of an asset.
LEMMA AssetFlagged ==
  ASSUME ConfidentialInv, NEW s, NEW on,
         K!handleVenueFiltering(s, on) \/ K!handleAssetFrozenUnfrozen(s, on)
  PROVE  ConfidentialInv'
<1>0. s \in DOMAIN confAsset /\ s \in DOMAIN cAsset
  BY DEF K!handleVenueFiltering, K!handleAssetFrozenUnfrozen, K!Has,
         ConfidentialInv, ConfidentialAssetsInv
<1>1. \E k \in Plain : \E x :
        /\ confAsset' = [confAsset EXCEPT ![s] = [confAsset[s] EXCEPT ![k] = x]]
        /\ cAsset' = [cAsset EXCEPT ![s] = [cAsset[s] EXCEPT ![k] = x]]
  <2>0. PICK x : x = on
    OBVIOUS
  <2>1. CASE K!handleVenueFiltering(s, on)
    <3>1. /\ confAsset' = [confAsset EXCEPT ![s] = [confAsset[s] EXCEPT !["venueFiltering"] = x]]
          /\ cAsset' = [cAsset EXCEPT ![s] = [cAsset[s] EXCEPT !["venueFiltering"] = x]]
      BY <1>0, <2>0, <2>1 DEF K!handleVenueFiltering, K!Update, K!Has
    <3> QED  BY <3>1 DEF Plain
  <2>2. CASE K!handleAssetFrozenUnfrozen(s, on)
    <3>1. /\ confAsset' = [confAsset EXCEPT ![s] = [confAsset[s] EXCEPT !["isFrozen"] = x]]
          /\ cAsset' = [cAsset EXCEPT ![s] = [cAsset[s] EXCEPT !["isFrozen"] = x]]
      BY <1>0, <2>0, <2>2 DEF K!handleAssetFrozenUnfrozen, K!Update, K!Has
    <3> QED  BY <3>1 DEF Plain
  <2> QED  BY <2>1, <2>2
<1>2. ConfidentialAssetsInv'
  <2>1. PICK k \in Plain : \E x :
          /\ confAsset' = [confAsset EXCEPT ![s] = [confAsset[s] EXCEPT ![k] = x]]
          /\ cAsset' = [cAsset EXCEPT ![s] = [cAsset[s] EXCEPT ![k] = x]]
    BY <1>1
  <2>2. PICK x :
          /\ confAsset' = [confAsset EXCEPT ![s] = [confAsset[s] EXCEPT ![k] = x]]
          /\ cAsset' = [cAsset EXCEPT ![s] = [cAsset[s] EXCEPT ![k] = x]]
    BY <2>1
  <2> QED  BY <1>0, <2>1, <2>2, ColumnChanged DEF ConfidentialInv
<1>3. UNCHANGED <<cAccount, cFrozen, cBalance, confAccount, confHolder>>
  BY DEF K!handleVenueFiltering, K!handleAssetFrozenUnfrozen, K!Update
<1> QED  BY <1>2, <1>3 DEF ConfidentialInv, FrozenInv, FrozenList

\* A new asset: nothing is issued, no venue allowed.
LEMMA AssetCreated ==
  ASSUME ConfidentialInv, NEW s \in ConfAsset, K!handleConfidentialAssetCreated(s)
  PROVE  ConfidentialInv'
<1>0. PICK no : no = FALSE
  OBVIOUS
<1> DEFINE chain == [totalSupply |-> 0, venueFiltering |-> no, allowed |-> {}, isFrozen |-> no]
           row == [totalSupply |-> 0, venueFiltering |-> no, allowed |-> << >>, isFrozen |-> no]
<1>1. /\ cAsset' = K!Save(cAsset, s, chain) /\ confAsset' = K!Save(confAsset, s, row)
      /\ s \notin DOMAIN cAsset
      /\ UNCHANGED <<cAccount, cFrozen, cBalance, confAccount, confHolder>>
  BY <1>0 DEF K!handleConfidentialAssetCreated, K!Has
<1>2. /\ row = [k \in AssetColumns |-> row[k]] /\ chain = [k \in AssetColumns |-> chain[k]]
      /\ \A k \in Plain : row[k] = chain[k]
      /\ row.allowed = << >> /\ chain.allowed = {}
  BY DEF AssetColumns, Plain
<1>3. << >> \in Seq(ConfVenue) /\ IsInjective(<< >>) /\ ToSet(<< >>) = {}
  BY DEF IsInjective, ToSet
<1> HIDE DEF row, chain
<1>4. /\ DOMAIN confAsset' = DOMAIN confAsset \union {s} /\ DOMAIN cAsset' = DOMAIN cAsset \union {s}
      /\ confAsset'[s] = row /\ cAsset'[s] = chain
      /\ \A t \in DOMAIN confAsset : t # s => confAsset'[t] = confAsset[t]
      /\ \A t \in DOMAIN cAsset : t # s => cAsset'[t] = cAsset[t]
  BY <1>1 DEF K!Save
<1>5. ConfidentialAssetsInv'
  <2>1. RowSound(row, chain)
    BY <1>2, <1>3 DEF RowSound
  <2> QED  BY <1>4, <2>1 DEF ConfidentialInv, ConfidentialAssetsInv
<1> QED  BY <1>1, <1>5 DEF ConfidentialInv, FrozenInv, FrozenList

\* An account is made, frozen for an asset, or no longer.
LEMMA AccountChanged ==
  ASSUME ConfidentialInv, NEW a \in ConfAccount, NEW s,
         \/ K!handleConfidentialAccountCreated(a)
         \/ s \in ConfAsset /\ K!handleConfidentialAssetFrozenForAccount(a, s)
         \/ s \in ConfAsset /\ K!handleConfidentialAssetUnfrozenForAccount(a, s)
  PROVE  ConfidentialInv'
<1>0. /\ cFrozen \in [ConfAccount -> SUBSET ConfAsset]
      /\ cFrozen[a] # {} => a \in cAccount
      /\ FrozenList(a) \in Seq(ConfAsset) /\ IsInjective(FrozenList(a))
      /\ ToSet(FrozenList(a)) = cFrozen[a]
  BY DEF ConfidentialInv, FrozenInv
<1>1. << >> \in Seq(ConfAsset) /\ IsInjective(<< >>) /\ ToSet(<< >>) = {}
  BY DEF IsInjective, ToSet
<1>2. PICK list, known :
        /\ confAccount' = K!Save(confAccount, a, list)
        /\ cFrozen' = [cFrozen EXCEPT ![a] = known]
        /\ list \in Seq(ConfAsset) /\ IsInjective(list) /\ ToSet(list) = known
        /\ known \in SUBSET ConfAsset /\ cAccount \subseteq cAccount' /\ a \in cAccount'
  <2>1. CASE K!handleConfidentialAccountCreated(a)
    <3>1. /\ confAccount' = K!Save(confAccount, a, << >>) /\ cFrozen' = cFrozen
          /\ cAccount' = cAccount \union {a} /\ a \notin cAccount
      BY <2>1 DEF K!handleConfidentialAccountCreated
    <3>2. cFrozen' = [cFrozen EXCEPT ![a] = {}]
      BY <1>0, <3>1
    <3> QED  BY <1>1, <3>1, <3>2
  <2>2. CASE s \in ConfAsset /\ K!handleConfidentialAssetFrozenForAccount(a, s)
    <3> DEFINE list == AddIfNotIncludes(FrozenList(a), s)
               known == cFrozen[a] \union {s}
    <3>1. /\ cFrozen' = [cFrozen EXCEPT ![a] = known]
          /\ confAccount' = K!Save(confAccount, a, IF a \in DOMAIN confAccount
                                             THEN AddIfNotIncludes(confAccount[a], s) ELSE <<s>>)
          /\ cAccount' = cAccount /\ a \in cAccount
      BY <2>2, ConfidentialOperators DEF K!handleConfidentialAssetFrozenForAccount, K!Has
    <3>2. AddIfNotIncludes(<< >>, s) = <<s>>
      <4>1. ~Contains(<< >>, s) /\ Append(<< >>, s) = <<s>>
        BY DEF Contains
      <4> QED  BY <4>1 DEF AddIfNotIncludes
    <3>3. confAccount' = K!Save(confAccount, a, list)
      BY <3>1, <3>2 DEF FrozenList
    <3>4. list \in Seq(ConfAsset) /\ IsInjective(list) /\ ToSet(list) = known
      BY <1>0, <2>2, ItemAdded
    <3>5. known \in SUBSET ConfAsset
      BY <1>0, <2>2
    <3> HIDE DEF list, known
    <3> QED  BY <3>1, <3>3, <3>4, <3>5
  <2>3. CASE s \in ConfAsset /\ K!handleConfidentialAssetUnfrozenForAccount(a, s)
    <3> DEFINE list == FilterOut(FrozenList(a), {s})
               known == cFrozen[a] \ {s}
    <3>1. /\ cFrozen' = [cFrozen EXCEPT ![a] = known]
          /\ confAccount' = K!Save(confAccount, a, IF a \in DOMAIN confAccount
                                             THEN FilterOut(confAccount[a], {s}) ELSE << >>)
          /\ cAccount' = cAccount /\ a \in cAccount /\ s \in cFrozen[a]
      BY <2>3, ConfidentialOperators DEF K!handleConfidentialAssetUnfrozenForAccount, K!Has
    <3>2. a \in DOMAIN confAccount
      BY <1>0, <1>1, <3>1 DEF FrozenList
    <3>3. confAccount' = K!Save(confAccount, a, list)
      BY <3>1, <3>2 DEF FrozenList
    <3>4. list \in Seq(ConfAsset) /\ IsInjective(list) /\ ToSet(list) = known
      <4> DEFINE items == {s}
      <4>1. \A l \in Seq(ConfAsset) : IsInjective(l) =>
              /\ FilterOut(l, items) \in Seq(ConfAsset) /\ IsInjective(FilterOut(l, items))
              /\ ToSet(FilterOut(l, items)) = ToSet(l) \ items
        <5> HIDE DEF items
        <5> QED  BY FilterOutList
      <4> QED  BY <1>0, <4>1
    <3>5. known \in SUBSET ConfAsset
      <4>1. cFrozen[a] \in SUBSET ConfAsset
        BY <1>0
      <4> QED  BY <4>1
    <3> HIDE DEF list, known
    <3> QED  BY <3>1, <3>3, <3>4, <3>5
  <2> QED  BY <2>1, <2>2, <2>3
<1>3. /\ FrozenList(a)' = list /\ \A b \in ConfAccount \ {a} : FrozenList(b)' = FrozenList(b)
  BY <1>2 DEF FrozenList, K!Save
<1>4. /\ cFrozen' \in [ConfAccount -> SUBSET ConfAsset] /\ cFrozen'[a] = known
      /\ \A b \in ConfAccount \ {a} : cFrozen'[b] = cFrozen[b]
  BY <1>0, <1>2
<1>5. FrozenInv'
  BY <1>2, <1>3, <1>4 DEF ConfidentialInv, FrozenInv
<1>6. UNCHANGED <<cAsset, cBalance, confAsset, confHolder>>
  BY DEF K!handleConfidentialAccountCreated, K!handleConfidentialAssetFrozenForAccount,
         K!handleConfidentialAssetUnfrozenForAccount
<1> QED  BY <1>5, <1>6 DEF ConfidentialInv, ConfidentialAssetsInv

\* A deposit and a withdrawal bring the balance that the row then has.
LEMMA BalanceChanged ==
  ASSUME ConfidentialInv, NEW s, NEW a, NEW n, K!Withdraw(s, a, n) \/ K!Deposit(s, a, n)
  PROVE  ConfidentialInv'
<1>1. confHolder' = cBalance'
  BY DEF ConfidentialInv, K!Withdraw, K!Deposit, K!HolderSaved
<1>2. UNCHANGED <<cAsset, cAccount, cFrozen, confAsset, confAccount>>
  BY DEF K!Withdraw, K!Deposit
<1> QED  BY <1>1, <1>2 DEF ConfidentialInv, ConfidentialAssetsInv, FrozenInv, FrozenList

\* There are no assets at first, and no account is frozen.
LEMMA ConfidentialInit == K!Init => ConfidentialInv
<1> SUFFICES ASSUME K!Init PROVE ConfidentialInv
  OBVIOUS
<1>1. << >> \in Seq(ConfAsset) /\ IsInjective(<< >>) /\ ToSet(<< >>) = {}
  BY DEF IsInjective, ToSet
<1>2. \A a : FrozenList(a) = << >>
  BY DEF K!Init, K!NoTable, FrozenList
<1>3. cFrozen = [a \in ConfAccount |-> {}]
  BY DEF K!Init
<1>4. FrozenInv
  BY <1>1, <1>2, <1>3 DEF FrozenInv
<1>5. ConfidentialAssetsInv /\ confHolder = cBalance
  BY DEF K!Init, K!NoTable, ConfidentialAssetsInv
<1> QED  BY <1>4, <1>5 DEF ConfidentialInv

\* The invariant of the confidential assets holds in every state.
LEMMA ConfidentialAlways == Spec => []ConfidentialInv
<1>1. Init => ConfidentialInv
  BY ConfidentialInit DEF Init
<1>2. ConfidentialInv /\ [Next]_vars => ConfidentialInv'
  <2> SUFFICES ASSUME ConfidentialInv, [Next]_vars PROVE ConfidentialInv'
    OBVIOUS
  <2>1. K!Next \/ UNCHANGED confidentialVars
    BY DEF Next, Only, vars, Rules
  <2>2. CASE K!Next
    <3>1. CASE \E a \in ConfAccount : K!handleConfidentialAccountCreated(a)
      BY <3>1, AccountChanged
    <3>2. CASE \E s \in ConfAsset, a \in ConfAccount :
                 \/ K!handleConfidentialAssetFrozenForAccount(a, s)
                 \/ K!handleConfidentialAssetUnfrozenForAccount(a, s)
      BY <3>2, AccountChanged
    <3>3. CASE \E s \in ConfAsset, a \in ConfAccount : \E n :
                 K!IssueOrBurn(s, a, n) \/ K!Withdraw(s, a, n) \/ K!Deposit(s, a, n)
      BY <3>3, AssetIssued, BalanceChanged
    <3>4. CASE \E s \in ConfAsset : K!handleConfidentialAssetCreated(s)
      BY <3>4, AssetCreated
    <3>5. CASE \E s \in ConfAsset, venues \in K!Batches :
                 K!handleVenuesAllowed(s, venues) \/ K!handleVenuesBlocked(s, venues)
      BY <3>5, VenuesAllowed
    <3>6. CASE \E s \in ConfAsset : \E on :
                 K!handleVenueFiltering(s, on) \/ K!handleAssetFrozenUnfrozen(s, on)
      BY <3>6, AssetFlagged
    <3> QED  BY <2>2, <3>1, <3>2, <3>3, <3>4, <3>5, <3>6 DEF K!Next
  <2>3. CASE UNCHANGED confidentialVars
    BY <2>3 DEF confidentialVars, ConfidentialInv, ConfidentialAssetsInv, FrozenInv, FrozenList
  <2> QED  BY <2>1, <2>2, <2>3
<1> QED  BY <1>1, <1>2, PTL DEF Spec

\* In every state the assets, their holders and the accounts frozen for them
\* are the pallet's, whatever accounts there were before the first block.
THEOREM ConfidentialAlwaysMirrorsChain == Spec => []ConfidentialMirrorsChain
<1> SUFFICES ASSUME ConfidentialInv PROVE ConfidentialMirrorsChain
  BY ConfidentialAlways, PTL
<1>1. ASSUME NEW s \in DOMAIN confAsset
      PROVE  /\ K!IsInjective(confAsset[s].allowed)
             /\ [confAsset[s] EXCEPT !.allowed = K!ToSet(@)] = cAsset[s]
  <2> DEFINE row == [confAsset[s] EXCEPT !.allowed = ToSet(confAsset[s].allowed)]
  <2>1. /\ confAsset[s] = [j \in AssetColumns |-> confAsset[s][j]]
        /\ cAsset[s] = [j \in AssetColumns |-> cAsset[s][j]]
        /\ \A j \in Plain : confAsset[s][j] = cAsset[s][j]
        /\ IsInjective(confAsset[s].allowed) /\ ToSet(confAsset[s].allowed) = cAsset[s].allowed
    BY <1>1 DEF ConfidentialInv, ConfidentialAssetsInv, RowSound
  <2>2. AssetColumns = Plain \union {"allowed"}
    BY DEF AssetColumns, Plain
  <2>3. row = [j \in AssetColumns |-> row[j]] /\ \A j \in AssetColumns : row[j] = cAsset[s][j]
    BY <2>1, <2>2
  <2>4. row = cAsset[s]
    <3> HIDE DEF row
    <3> QED  BY <2>1, <2>3
  <2> QED  BY <2>1, <2>4, ConfidentialOperators
<1>2. ASSUME NEW a \in ConfAccount
      PROVE  LET frozen == IF K!Has(confAccount, a) THEN confAccount[a] ELSE << >>
             IN K!ToSet(frozen) = cFrozen[a] /\ K!IsInjective(frozen)
  BY ConfidentialOperators DEF ConfidentialInv, FrozenInv, FrozenList, K!Has
<1> QED  BY <1>1, <1>2 DEF ConfidentialInv, ConfidentialAssetsInv, ConfidentialMirrorsChain,
                          K!ConfidentialMirrorsChain

=============================================================================
