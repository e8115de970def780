---------------------------- MODULE AccessScopes ----------------------------
(***************************************************************************)
(* Who may do what where: apps/api/src/access/access-policy.service.ts,    *)
(* infrastructure/infrastructure-access.service.ts, ipam/                  *)
(* ipam-access.service.ts and settings/access-group.service.ts.            *)
(*                                                                         *)
(* A decision combines the roles of a user, the access groups the user is  *)
(* in, the sites these are assigned to, and rules.  It is computed anew in *)
(* each place: where one object is asserted, where objects are listed, and *)
(* where the web application is told what to offer.                        *)
(***************************************************************************)
EXTENDS Integers, FiniteSets

CONSTANTS
  AccessGroups,
  Sites, Buildings, Rooms,
  SiteOf,      \* Buildings -> Sites
  BuildingOf,  \* Rooms -> Buildings
  RoleSets,    \* the sets of roles a user may come with
  Clerks,      \* requests of administrators that may be handled at once
  MaxEdits,    \* changes of groups and rules (a bound)
  NoEdit

ScopedAction == {"READ", "UPDATE"}  \* CREATE and DELETE are decided as UPDATE is
Everyone == {"ADMIN", "NETWORK_OPERATOR", "SYSTEMS_OPERATOR", "AUDITOR", "READ_ONLY"}
Kind == {"PHYSICAL", "SWITCH", "SERVER"}  \* what is managed: a place or a device type
Scopes == Sites \cup Buildings \cup Rooms
Rule == [group : AccessGroups, scope : Scopes, permission : ScopedAction]

ASSUME ScopeAssumption ==
  /\ SiteOf \in [Buildings -> Sites] /\ BuildingOf \in [Rooms -> Buildings]
  /\ RoleSets \subseteq SUBSET Everyone
  /\ Sites \cap Buildings = {} /\ Sites \cap Rooms = {} /\ Buildings \cap Rooms = {}
  /\ MaxEdits \in Nat

VARIABLES
  userRoles,  \* the roles in the token of the user
  memberOf,   \* groups the user is a member of
  existing,   \* groups that exist
  assigned,   \* AccessGroupSite: groups by site
  ipamGrant,  \* AccessGroupSitePermission rows
  rule,       \* InfrastructurePermission rows
  edit,       \* what each clerk has checked and is about to write
  edits

scopeVars == <<userRoles, memberOf, existing, assigned, ipamGrant, rule, edit, edits>>

SiteOfScope(x) == IF x \in Sites THEN x
                  ELSE IF x \in Buildings THEN SiteOf[x] ELSE SiteOf[BuildingOf[x]]
-----------------------------------------------------------------------------
(* access-policy.service.ts: what the roles allow at all.                  *)
IsAdministrator == "ADMIN" \in userRoles
CanReadScoped == userRoles \cap Everyone # {}
CanManage(action, kind) ==
  \/ IsAdministrator
  \/ action = "READ" /\ CanReadScoped
  \/ "SYSTEMS_OPERATOR" \in userRoles
  \/ "NETWORK_OPERATOR" \in userRoles /\ kind = "SWITCH"
CanUseIpam(action) ==
  \/ IsAdministrator
  \/ "NETWORK_OPERATOR" \in userRoles
  \/ action = "READ" /\ userRoles \cap {"AUDITOR", "READ_ONLY"} # {}

(* Rules of the narrowest place that has any decide, whoever they are for. *)
GroupIds(s) == IF CanReadScoped THEN {g \in memberOf : <<g, s>> \in assigned} ELSE {}
RulesOn(x) == {r \in rule : r.scope = x}
Allowed(rules, action, s) ==
  \/ IsAdministrator
  \/ \E r \in rules : r.group \in GroupIds(s) /\ (action = "READ" \/ r.permission = action)
EffectiveOfBuilding(b) == IF RulesOn(b) # {} THEN RulesOn(b) ELSE RulesOn(SiteOf[b])
EffectiveOfRoom(r) ==
  IF RulesOn(r) # {} THEN RulesOn(r) ELSE EffectiveOfBuilding(BuildingOf[r])

(* Lists.                                                                  *)
VisibleRoomsAtHand == {r \in Rooms :
  \/ IsAdministrator
  \/ CanReadScoped /\ Allowed(IF RulesOn(r) # {} THEN RulesOn(r) ELSE
       RulesOn(SiteOf[BuildingOf[r]]), "READ", SiteOf[BuildingOf[r]])}
VisibleRooms == {r \in Rooms :
  \/ IsAdministrator
  \/ CanReadScoped /\ Allowed(EffectiveOfRoom(r), "READ", SiteOf[BuildingOf[r]])}
VisibleBuildings(s) == {b \in {c \in Buildings : SiteOf[c] = s} :
  \/ IsAdministrator
  \/ /\ CanReadScoped
     /\ \/ Allowed(EffectiveOfBuilding(b), "READ", s)
        \/ \E r \in VisibleRooms : BuildingOf[r] = b}
VisibleUnplacedSites == {s \in Sites :
  IsAdministrator \/ (CanReadScoped /\ GroupIds(s) # {} /\ Allowed(RulesOn(s), "READ", s))}

(* Assertions about one object.                                            *)
SiteAsserts(action, s, kind) ==
  \/ CanManage(action, kind) /\ Allowed(RulesOn(s), action, s)
  \/ /\ action = "READ" /\ CanReadScoped
     /\ Allowed(RulesOn(s), "READ", s) \/ VisibleBuildings(s) # {}
BuildingAsserts(action, b, kind) ==
  \/ CanManage(action, kind) /\ Allowed(EffectiveOfBuilding(b), action, SiteOf[b])
  \/ /\ action = "READ" /\ CanReadScoped
     /\ \/ Allowed(EffectiveOfBuilding(b), "READ", SiteOf[b])
        \/ \E r \in VisibleRooms : BuildingOf[r] = b
RoomAsserts(action, r, kind) ==
  CanManage(action, kind) /\ Allowed(EffectiveOfRoom(r), action, SiteOf[BuildingOf[r]])
DeviceAsserts(action, x, kind) ==  \* of a device in a room, or of a site only
  IF x \in Rooms THEN RoomAsserts(action, x, kind) ELSE SiteAsserts(action, x, kind)

(* ipam-access.service.ts: grants by site; any grant of a site reads.      *)
IpamSites(action) == {s \in Sites : \E g \in memberOf :
  /\ CanReadScoped /\ <<g, s>> \in assigned
  /\ \E p \in ScopedAction : <<g, s, p>> \in ipamGrant /\ (action = "READ" \/ p = action)}
ContextAsserts(action, s) == IsAdministrator \/ (CanUseIpam(action) /\ s \in IpamSites(action))
IpamWhere(action) ==
  IF IsAdministrator THEN Sites ELSE IF CanUseIpam(action) THEN IpamSites(action) ELSE {}
\* A host is given by the sites of its addresses.
HostAsserts(action, sites) ==
  IF sites = {} THEN IsAdministrator ELSE \A s \in sites : ContextAsserts(action, s)
HostListed(sites) == IsAdministrator \/ sites \cap IpamWhere("READ") # {}

(* effectiveAccess: what the web application is told to offer.             *)
MayAsk(s) == IsAdministrator \/ (userRoles # {} /\ \E g \in memberOf : <<g, s>> \in assigned)
Offerable(action) == CanManage(action, "PHYSICAL") \/ CanManage(action, "SWITCH")
OfferedAt(x) ==
  IF ~MayAsk(SiteOfScope(x)) THEN {} ELSE {a \in ScopedAction : Offerable(a) /\
    \/ x \in Sites /\ Allowed(RulesOn(x), a, x)
    \/ /\ x \in Buildings /\ x \in VisibleBuildings(SiteOf[x])
       /\ Allowed(EffectiveOfBuilding(x), a, SiteOf[x])
    \/ /\ x \in Rooms /\ x \in VisibleRooms
       /\ BuildingOf[x] \in VisibleBuildings(SiteOf[BuildingOf[x]])
       /\ Allowed(EffectiveOfRoom(x), a, SiteOf[BuildingOf[x]])}
GrantedInIpam(s) == {p \in ScopedAction : \E g \in memberOf : <<g, s, p>> \in ipamGrant}
OfferedInIpam(s) ==
  IF ~MayAsk(s) THEN {}
  ELSE IF IsAdministrator THEN ScopedAction
  ELSE IF CanUseIpam("UPDATE") THEN GrantedInIpam(s)
  ELSE IF CanUseIpam("READ") /\ GrantedInIpam(s) # {} THEN {"READ"} ELSE {}
-----------------------------------------------------------------------------
ScopesInit ==
  /\ userRoles \in RoleSets
  /\ memberOf = {} /\ existing = AccessGroups
  /\ assigned = {} /\ ipamGrant = {} /\ rule = {}
  /\ edit = [c \in Clerks |-> NoEdit] /\ edits = 0

Edits == edits < MaxEdits /\ edits' = edits + 1
UnchangedRows == UNCHANGED <<memberOf, existing, assigned, ipamGrant, rule>>
Checked(c, e) == edit[c] = NoEdit /\ Edits /\ edit' = [edit EXCEPT ![c] = e]
EditWritten(c) == edit' = [edit EXCEPT ![c] = NoEdit] /\ UNCHANGED edits

(* addMember, removeMember and assignSite: one upsert, delete, transaction.*)
AddMember(g) ==
  /\ Edits /\ g \in existing /\ memberOf' = memberOf \cup {g}
  /\ UNCHANGED <<existing, assigned, ipamGrant, rule, edit>>
RemoveMember(g) ==
  /\ Edits /\ g \in memberOf /\ memberOf' = memberOf \ {g}
  /\ UNCHANGED <<existing, assigned, ipamGrant, rule, edit>>
AssignSite(g, s, permissions) ==
  /\ Edits /\ g \in existing
  /\ assigned' = assigned \cup {<<g, s>>}
  /\ ipamGrant' = {t \in ipamGrant : t[1] # g \/ t[2] # s} \cup {<<g, s, p>> : p \in permissions}
  /\ UNCHANGED <<memberOf, existing, rule, edit>>

(* createPermission, updatePermission, removeSite and remove look first    *)
(* and write in a later statement.                                         *)
CheckRule(c, old, new) ==
  /\ <<new.group, SiteOfScope(new.scope)>> \in assigned
  /\ Checked(c, [do |-> "rule", old |-> old, new |-> new])
  /\ UnchangedRows
CheckSite(c, g, s) ==
  /\ \A r \in rule : r.group = g => SiteOfScope(r.scope) # s
  /\ Checked(c, [do |-> "site", pair |-> <<g, s>>])
  /\ UnchangedRows
CheckGroup(c, g) ==
  /\ g \in existing /\ \A r \in rule : r.group # g
  /\ Checked(c, [do |-> "group", group |-> g])
  /\ UnchangedRows
WriteRule(c) ==
  /\ edit[c] # NoEdit /\ edit[c].do = "rule" /\ EditWritten(c)
  /\ LET e == edit[c]
     IN rule' = IF e.new.group \in existing /\ e.old \subseteq rule /\ e.new \notin rule \ e.old
                THEN (rule \ e.old) \cup {e.new} ELSE rule
  /\ UNCHANGED <<memberOf, existing, assigned, ipamGrant>>
DeleteAssignment(c) ==
  /\ edit[c] # NoEdit /\ edit[c].do = "site" /\ EditWritten(c)
  /\ assigned' = assigned \ {edit[c].pair}
  /\ ipamGrant' = {t \in ipamGrant : <<t[1], t[2]>> # edit[c].pair}
  /\ UNCHANGED <<memberOf, existing, rule>>
DeleteGroup(c) ==
  /\ edit[c] # NoEdit /\ edit[c].do = "group" /\ EditWritten(c)
  /\ LET g == edit[c].group
     IN /\ existing' = existing \ {g} /\ memberOf' = memberOf \ {g}
        /\ assigned' = {t \in assigned : t[1] # g}
        /\ ipamGrant' = {t \in ipamGrant : t[1] # g}
        /\ rule' = {r \in rule : r.group # g}
DeletePermission(r) ==
  /\ Edits /\ r \in rule /\ rule' = rule \ {r}
  /\ UNCHANGED <<memberOf, existing, assigned, ipamGrant, edit>>

ScopesNext ==
  /\ UNCHANGED userRoles
  /\ \/ \E g \in AccessGroups : \/ AddMember(g)
                                \/ RemoveMember(g)
                                \/ \E s \in Sites, p \in SUBSET ScopedAction : AssignSite(g, s, p)
     \/ \E c \in Clerks : \/ \E new \in Rule, old \in {{}} \cup {{r} : r \in rule} :
                               CheckRule(c, old, new)
                          \/ \E g \in AccessGroups, s \in Sites : CheckSite(c, g, s)
                          \/ \E g \in AccessGroups : CheckGroup(c, g)
                          \/ WriteRule(c)
                          \/ DeleteAssignment(c)
                          \/ DeleteGroup(c)
     \/ \E r \in rule : DeletePermission(r)

ScopesSpec == ScopesInit /\ [][ScopesNext]_scopeVars
-----------------------------------------------------------------------------
(* Every variable has its type.                                            *)
ScopesTypeOK ==
  /\ userRoles \in RoleSets
  /\ memberOf \subseteq existing /\ existing \subseteq AccessGroups
  /\ assigned \subseteq existing \X Sites
  /\ ipamGrant \subseteq existing \X Sites \X ScopedAction
  /\ rule \subseteq Rule
  /\ edits \in 0..MaxEdits

(* What is listed can be opened and what can be opened is listed, rooms    *)
(* and buildings alike; whoever may change an object may read it, a host   *)
(* of several subnets too, and finds it listed; and an action that the web *)
(* application offers is one the API then accepts.                         *)
DecisionsAgree ==
  /\ \A r \in Rooms : r \in VisibleRooms <=> RoomAsserts("READ", r, "PHYSICAL")
  /\ \A b \in Buildings : b \in VisibleBuildings(SiteOf[b]) <=>
                          BuildingAsserts("READ", b, "PHYSICAL")
  /\ VisibleUnplacedSites \subseteq {s \in Sites : SiteAsserts("READ", s, "SWITCH")}
  /\ \A x \in Sites \cup Rooms, k \in Kind :
       DeviceAsserts("UPDATE", x, k) => DeviceAsserts("READ", x, k)
  /\ \A hostSites \in SUBSET Sites :
       /\ HostAsserts("UPDATE", hostSites) => HostAsserts("READ", hostSites)
       /\ HostAsserts("READ", hostSites) => HostListed(hostSites)
  /\ \A s \in Sites : \A a \in OfferedInIpam(s) : ContextAsserts(a, s)
  /\ \A r \in Rooms : \A a \in OfferedAt(r) : RoomAsserts(a, r, "SWITCH")
  /\ \A b \in Buildings : \A a \in OfferedAt(b) : BuildingAsserts(a, b, "SWITCH")
  /\ \A s \in Sites : \A a \in OfferedAt(s) : SiteAsserts(a, s, "SWITCH")
=============================================================================
