------------------------------- MODULE Agents -------------------------------
(***************************************************************************)
(* The external agents of one asset, their groups and the history of their *)
(* permissions (src/mappings/entities/externalAgents/mapExternalAgent.ts   *)
(* and mapExternalAgentHistory.ts).                                        *)
(***************************************************************************)
EXTENDS Store, Paging

CONSTANTS
  Did,
  Fixed,        \* the groups of the pallet itself: full, exceptMeta, ...
  Custom,       \* the custom groups of the asset
  Perms,        \* what a custom group may be permitted
  NoGroup       \* is neither

VARIABLES
  cAgent,       \* the pallet: the group of each agent
  cPerms,       \* the pallet: the permissions of each custom group
  agent,        \* TickerExternalAgent rows
  group,        \* AgentGroup rows: the permissions
  membership,   \* AgentGroupMembership rows: <<group, did>>
  history,      \* the permissions in the latest history row of each DID
  elsewhere,    \* how many memberships of each DID are in groups of other assets
  crowded,      \* history: DIDs whose memberships, when last removed, filled
                \* more than a page
  untold        \* history: members of a group with more than a page of them when
                \* its permissions changed

vars == <<cAgent, cPerms, agent, group, membership, history,
          elsewhere, crowded, untold>>
pages == <<elsewhere, crowded, untold>>

Init ==
  /\ cAgent = [d \in Did |-> NoGroup]
  /\ cPerms = NoTable
  /\ agent = {} /\ group = NoTable /\ membership = {} /\ history = NoTable
  /\ elsewhere = [d \in Did |-> 0] /\ crowded = {} /\ untold = {}

\* Other assets take in and dismiss the same identity as an agent.
AgentElsewhere(d, n) ==
  /\ elsewhere' = [elsewhere EXCEPT ![d] = n]
  /\ UNCHANGED <<cAgent, cPerms, agent, group, membership, history, crowded, untold>>

handleGroupCreated(g, p) ==
  /\ ~Has(cPerms, g)
  /\ cPerms' = Save(cPerms, g, p)
  /\ group' = Save(group, g, p)
  /\ UNCHANGED <<cAgent, agent, membership, history, pages>>

Members(g) == {d \in Did : <<g, d>> \in membership}

\* A history row for every member of the group that is found.
handleGroupPermissionsUpdated(g, p) ==
  /\ Has(cPerms, g) /\ Has(group, g)
  /\ cPerms' = [cPerms EXCEPT ![g] = p]
  /\ group' = [group EXCEPT ![g] = p]
  /\ \E found \in getPaginatedData(Members(g)) :
       history' = SaveAll(history, [d \in found |-> p])
  /\ untold' = IF Crowded(Members(g)) THEN untold \union Members(g)
                                      ELSE untold \ Members(g)
  /\ UNCHANGED <<cAgent, agent, membership, elsewhere, crowded>>

\* permissionsFromAgentGroup throws for a custom group without a row.
Known(g) == g \in Fixed \/ Has(group, g)
PermissionsOf(g) == IF g \in Fixed THEN g ELSE group[g]

MembershipOf(d, g) == IF g \in Custom THEN {<<g, d>>} ELSE {}
MembershipsOf(d) == {m \in membership : m[2] = d}
\* Mutant: nobody leaves a group.
removeMember_Kept(d, new) == {membership \union new}
\* removeMember, while the membership new is saved: the memberships of the DID,
\* in this and other assets, are read with the new one or without, and those
\* found that are of this asset removed.  A row saved again under its old id
\* may be among them.
removeMember(d, new) ==
  {(membership \union new) \ found :
     found \in FoundAmong(MembershipsOf(d), elsewhere[d])
             \union FoundAmong(MembershipsOf(d) \union new, elsewhere[d])}

\* What is known of the page a removal reads, and of the history it writes.
Removal(d, new) ==
  /\ crowded' = IF CrowdedAmong(MembershipsOf(d) \union new, elsewhere[d])
                THEN crowded \union {d} ELSE crowded \ {d}
  /\ untold' = untold \ {d}
  /\ UNCHANGED elsewhere

\* The rows of mapExternalAgent.ts.
handleExternalAgentAdded(d) == agent' = agent \union {d}
handleExternalAgentRemoved(d) == agent' = agent \ {d}

\* With handleExternalAgentAdded, for the same event.
handleAgentAdded(d, g) ==
  /\ cAgent[d] = NoGroup /\ g \in Fixed \union DOMAIN cPerms /\ Known(g)
  /\ cAgent' = [cAgent EXCEPT ![d] = g]
  /\ handleExternalAgentAdded(d)
  /\ history' = Save(history, d, PermissionsOf(g))
  /\ membership' = membership \union MembershipOf(d, g)
  /\ untold' = untold \ {d}
  /\ UNCHANGED <<cPerms, group, elsewhere, crowded>>

\* The removal of the old membership and the saving of the new one run at the
\* same time.
handleGroupChanged(d, g) ==
  /\ cAgent[d] # NoGroup /\ g \in Fixed \union DOMAIN cPerms /\ Known(g)
  /\ cAgent' = [cAgent EXCEPT ![d] = g]
  /\ history' = Save(history, d, PermissionsOf(g))
  /\ membership' \in removeMember(d, MembershipOf(d, g))
  /\ Removal(d, MembershipOf(d, g))
  /\ UNCHANGED <<cPerms, agent, group>>

\* With handleExternalAgentRemoved, for the same event.
handleAgentRemoved(d) ==
  /\ cAgent[d] # NoGroup
  /\ cAgent' = [cAgent EXCEPT ![d] = NoGroup]
  /\ handleExternalAgentRemoved(d)
  /\ membership' \in removeMember(d, {}) /\ Removal(d, {})
  /\ history' = Save(history, d, NoGroup)
  /\ UNCHANGED <<cPerms, group>>

Next ==
  \/ \E g \in Custom, p \in Perms :
       handleGroupCreated(g, p) \/ handleGroupPermissionsUpdated(g, p)
  \/ \E d \in Did :
       \/ \E g \in Fixed \union Custom : handleAgentAdded(d, g) \/ handleGroupChanged(d, g)
       \/ handleAgentRemoved(d)
       \/ \E n \in 0..PageSize : AgentElsewhere(d, n)

Spec == Init /\ [][Next]_vars

-----------------------------------------------------------------------------
\* The agents shown are the chain's; nobody is shown as a member of a group it
\* is not in, whichever way the handlers of a group change interleave, unless
\* its memberships in all assets filled more than a page when it left; and the
\* latest history row of an agent tells what it may do, unless its membership
\* row was lost in such a change, or the group filled more than a page when its
\* permissions changed.
AgentsSound ==
  /\ agent = {d \in Did : cAgent[d] # NoGroup}
  /\ \A m \in membership : m[2] \notin crowded => cAgent[m[2]] = m[1]
  /\ \A d \in agent :
       /\ Has(history, d)
       /\ d \notin crowded =>
            /\ cAgent[d] \in Fixed => history[d] = cAgent[d]
            /\ <<cAgent[d], d>> \in membership /\ d \notin untold
                 => history[d] = cPerms[cAgent[d]]

\* "Only keep track of membership for custom agent groups": every member of a
\* custom group has its row.
MembershipComplete ==
  \A d \in Did : cAgent[d] \in Custom => <<cAgent[d], d>> \in membership
=============================================================================
