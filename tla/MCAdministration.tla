-------------------------- MODULE MCAdministration ---------------------------
(***************************************************************************)
(* Instances of the components that administrators and planners work with. *)
(* They share no variable, so that a behaviour moves one of them: the one  *)
(* it chooses at its start.                                                *)
(***************************************************************************)
EXTENDS RackDrops, RoleAdministration, CredentialVault, AccessScopes,
        IpamSubnets, SignIn, TLC

CONSTANTS
  a, b,                        \* racks
  p1, p2, g1,                  \* people; a group of the directory, with p1 in it
  readKey, trapKey, enrolled,  \* two credentials; an enrollment that becomes the second
  j1, j2, y1, w1,              \* two accounts, the name and the row of the first
  s1, b1, r1                   \* a site, a building on it, a room in that

FourAndTwo == [r \in Racks |-> IF r = a THEN 4 ELSE 2]
MembersOfG1 == [g \in Groups |-> {p1}]
TrapKeyOfEnrolled == [e \in {enrolled} |-> trapKey]
SiteOfB1 == [building \in {b1} |-> s1]
BuildingOfR1 == [room \in {r1} |-> b1]
OneRoleEach ==
  {{}, {"ADMIN"}, {"NETWORK_OPERATOR"}, {"SYSTEMS_OPERATOR"}, {"AUDITOR"}}
TokenOfOneRole == {{"ADMIN"}, {"AUDITOR"}}

\* Requests are interchangeable, Bearers among them, and so are secrets.
Symmetry == Permutations(Callers) \cup Permutations(Secrets)

VARIABLE part

Part == {"drops", "roles", "vault", "scopes", "subnets", "plan", "signin"}
adminVars == <<layout, roleVars, vaultVars, scopeVars, subnetVars, planVars, signVars, part>>

AdminInit ==
  /\ part \in Part
  /\ part # "drops" => layout = [d \in Devices |-> [rack |-> a, start |-> 1, size |-> 1]]
  /\ part # "roles" => direct = [p \in People |-> {"ADMIN"}]
  /\ part # "scopes" => userRoles = {}
  /\ part # "plan" => cidr = NetworkOf(0, 0)
  /\ Init /\ RoleInit /\ VaultInit /\ ScopesInit /\ SubnetsInit /\ PlanInit /\ SignInInit
  /\ userRow[w1] = [external |-> j1, name |-> y1] /\ accounts[j2].roles = {"ADMIN"}
  /\ part # "signin" => accounts[j1].roles = {"ADMIN"}

OnlyDrops == UNCHANGED <<roleVars, vaultVars, scopeVars, subnetVars, planVars, signVars, part>>
OnlyRoles == UNCHANGED <<layout, vaultVars, scopeVars, subnetVars, planVars, signVars, part>>
OnlyVault == UNCHANGED <<layout, roleVars, scopeVars, subnetVars, planVars, signVars, part>>
OnlyScopes == UNCHANGED <<layout, roleVars, vaultVars, subnetVars, planVars, signVars, part>>
OnlySubnets == UNCHANGED <<layout, roleVars, vaultVars, scopeVars, planVars, signVars, part>>
OnlyPlan == UNCHANGED <<layout, roleVars, vaultVars, scopeVars, subnetVars, signVars, part>>
OnlySignIn == UNCHANGED <<layout, roleVars, vaultVars, scopeVars, subnetVars, planVars, part>>

AdminNext ==
  \/ part = "drops" /\ Next /\ OnlyDrops
  \/ part = "roles" /\ RoleNext /\ OnlyRoles
  \/ part = "vault" /\ VaultNext /\ OnlyVault
  \/ part = "scopes" /\ ScopesNext /\ OnlyScopes
  \/ part = "subnets" /\ SubnetsNext /\ OnlySubnets
  \/ part = "plan" /\ PlanNext /\ OnlyPlan
  \/ part = "signin" /\ SignInNext /\ OnlySignIn

AdminSpec == AdminInit /\ [][AdminNext]_adminVars

(* The address plan alone, for what the code breaks.                       *)
PlanAlone == AdminInit /\ part = "plan" /\ [][AdminNext]_adminVars

(* Every variable of the component that moves has its type; those of the   *)
(* others have what they start with.                                       *)
AdminTypeOK ==
  /\ part \in Part
  /\ part = "drops" => TypeOK
  /\ part = "roles" => RoleTypeOK
  /\ part = "vault" => VaultTypeOK
  /\ part = "scopes" => ScopesTypeOK
  /\ part = "subnets" => SubnetsTypeOK
  /\ part = "plan" => PlanTypeOK
  /\ part = "signin" => SignInTypeOK

(* A drop is planned as the loop of the code plans it, and dropping again  *)
(* where a device already is moves nothing.                                *)
DropsAreStable == part = "drops" => PlanIsTheLoop /\ DroppingAgain
=============================================================================
