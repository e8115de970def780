------------------------------- MODULE SignIn -------------------------------
(***************************************************************************)
(* Every request of the API signs its bearer in (apps/api/src/auth): the   *)
(* guard verifies the token and syncUser writes what the token says to the *)
(* rows User and UserRole, for requests that run at the same time and for  *)
(* tokens that are older than what Keycloak says by now.                   *)
(***************************************************************************)
EXTENDS FiniteSets, Integers

CONSTANTS
  Subjects, Names,  \* of accounts in Keycloak
  TokenRoles,       \* the sets of realm roles an account may have
  UserRows,         \* ids of rows (a bound)
  Bearers,          \* requests at a time (a bound)
  MaxTokens,        \* tokens issued (a bound)
  NoUser, NoToken

Account == [name : Names, roles : TokenRoles]
Token == [sub : Subjects, name : Names, roles : TokenRoles]
UserRecord == [external : Subjects, name : Names]

ASSUME NoUserAssumption == NoUser \notin UserRecord

VARIABLES
  accounts,   \* Keycloak: what a token of each subject would say
  tokens,     \* tokens that verify
  userRow,    \* User: external id and name, both unique
  userRole,   \* UserRole: the roles of each row, as committed
  bearers,    \* each request: the statement to come, its token, its row
  crossed     \* rows whose roles two transactions have replaced at a time

signVars == <<accounts, tokens, userRow, userRole, bearers, crossed>>

Away == [at |-> "away", token |-> NoToken, row |-> NoUser, cut |-> {}]

TokenOf(s) == [sub |-> s, name |-> accounts[s].name, roles |-> accounts[s].roles]

(* One of the accounts has signed in already.                              *)
SignInInit ==
  /\ accounts \in [Subjects -> Account]
  /\ \A s, t \in Subjects : s # t => accounts[s].name # accounts[t].name
  /\ \E s \in Subjects, u \in UserRows :
       /\ tokens = {TokenOf(s)}
       /\ userRow = [v \in UserRows |-> IF v = u THEN [external |-> s, name |-> accounts[s].name] ELSE NoUser]
       /\ userRole = [v \in UserRows |-> IF v = u THEN accounts[s].roles ELSE {}]
  /\ bearers = [c \in Bearers |-> Away]
  /\ crossed = {}

Users == {u \in UserRows : userRow[u] # NoUser}
ByExternal(sub) == {u \in Users : userRow[u].external = sub}
ByName(name) == {u \in Users : userRow[u].name = name}

(* Keycloak: accounts are renamed, given roles, and names given to others. *)
EditAccount(s, account) ==
  /\ accounts[s] # account /\ Cardinality(tokens) < MaxTokens
  /\ \A t \in Subjects \ {s} : accounts[t].name # account.name
  /\ accounts' = [accounts EXCEPT ![s] = account]
  /\ UNCHANGED <<tokens, userRow, userRole, bearers, crossed>>
Issue(s) ==
  /\ TokenOf(s) \notin tokens /\ Cardinality(tokens) < MaxTokens
  /\ tokens' = tokens \cup {TokenOf(s)}
  /\ UNCHANGED <<accounts, userRow, userRole, bearers, crossed>>

Sync == UNCHANGED <<accounts, tokens>>
Goes(c, at) == bearers' = [bearers EXCEPT ![c].at = at]
Finds(c, at, u) == bearers' = [bearers EXCEPT ![c].at = at, ![c].row = u]

(* The guard; a token that does not verify reaches nothing.                *)
Verify(c, token) ==
  /\ bearers[c] = Away
  /\ bearers' = [bearers EXCEPT ![c] = [Away EXCEPT !.at = "external", !.token = token]]
  /\ UNCHANGED <<userRow, userRole, crossed>> /\ Sync
FindByExternal(c) ==
  /\ bearers[c].at = "external"
  /\ LET found == ByExternal(bearers[c].token.sub)
     IN IF found = {} THEN Goes(c, "name") ELSE \E u \in found : Finds(c, "rename", u)
  /\ UNCHANGED <<userRow, userRole, crossed>> /\ Sync
FindByName(c) ==
  /\ bearers[c].at = "name"
  /\ LET found == ByName(bearers[c].token.name)
     IN IF found = {} THEN Goes(c, "create") ELSE \E u \in found : Finds(c, "adopt", u)
  /\ UNCHANGED <<userRow, userRole, crossed>> /\ Sync

(* One statement, refused by a unique constraint.                          *)
Keeps(c, u, row) ==
  /\ IF \A v \in Users \ {u} : userRow[v].external # row.external /\ userRow[v].name # row.name
     THEN /\ userRow' = [userRow EXCEPT ![u] = row]
          /\ Finds(c, "cut", u)
     ELSE UNCHANGED userRow /\ bearers' = [bearers EXCEPT ![c] = Away]
  /\ UNCHANGED <<userRole, crossed>> /\ Sync
Rename(c) ==
  /\ bearers[c].at = "rename"
  /\ LET u == bearers[c].row IN Keeps(c, u, [userRow[u] EXCEPT !.name = bearers[c].token.name])
Adopt(c) ==
  /\ bearers[c].at = "adopt"
  /\ LET u == bearers[c].row IN Keeps(c, u, [userRow[u] EXCEPT !.external = bearers[c].token.sub])
Upsert(c) ==
  /\ bearers[c].at = "create"
  /\ LET token == bearers[c].token
         found == ByExternal(token.sub)
     IN \E u \in IF found # {} THEN found ELSE UserRows \ Users :
          Keeps(c, u, [external |-> token.sub, name |-> token.name])

(* The transaction that replaces the roles: what it has deleted is there   *)
(* for the others until it commits, and who deletes or inserts that waits. *)
Cutting(u) == {c \in Bearers : bearers[c].at = "fill" /\ bearers[c].row = u}
Held(c, u) == UNION {bearers[d].cut : d \in Cutting(u) \ {c}}
CutRoles(c) ==
  /\ bearers[c].at = "cut"
  /\ LET u == bearers[c].row
         gone == userRole[u] \ bearers[c].token.roles
     IN /\ bearers' = [bearers EXCEPT ![c].at = IF gone \cap Held(c, u) = {} THEN "fill" ELSE "wait",
                                      ![c].cut = gone]
        /\ crossed' = IF Cutting(u) = {} THEN crossed ELSE crossed \cup {u}
  /\ UNCHANGED <<userRow, userRole>> /\ Sync
CutAfterWait(c) ==  \* of the rows it has seen, those still there
  /\ bearers[c].at = "wait"
  /\ bearers[c].cut \cap Held(c, bearers[c].row) = {}
  /\ bearers' = [bearers EXCEPT ![c].at = "fill", ![c].cut = @ \cap userRole[bearers[c].row]]
  /\ UNCHANGED <<userRow, userRole, crossed>> /\ Sync

(* A bug: the roles that the token has no more stay.                       *)
FilledUp(stored, cut, roles) == stored \cup roles
Filled(stored, cut, roles) == (stored \ cut) \cup roles
FillRoles(c) ==
  /\ bearers[c].at = "fill"
  /\ LET u == bearers[c].row
     IN /\ bearers[c].token.roles \cap Held(c, u) = {}
        /\ userRole' = [userRole EXCEPT ![u] = Filled(@, bearers[c].cut, bearers[c].token.roles)]
  /\ bearers' = [bearers EXCEPT ![c] = Away]
  /\ UNCHANGED <<userRow, crossed>> /\ Sync
GiveUp(c) ==  \* one that waits is aborted: two may wait for each other
  /\ \/ bearers[c].at = "fill" /\ bearers[c].token.roles \cap Held(c, bearers[c].row) # {}
     \/ bearers[c].at = "wait" /\ bearers[c].cut \cap Held(c, bearers[c].row) # {}
  /\ bearers' = [bearers EXCEPT ![c] = Away]
  /\ UNCHANGED <<userRow, userRole, crossed>> /\ Sync

SignInNext ==
  \/ \E s \in Subjects, account \in Account : EditAccount(s, account)
  \/ \E s \in Subjects : Issue(s)
  \/ \E c \in Bearers, token \in tokens : Verify(c, token)
  \/ \E c \in Bearers :
       \/ FindByExternal(c) \/ FindByName(c) \/ Rename(c) \/ Adopt(c) \/ Upsert(c)
       \/ CutRoles(c) \/ CutAfterWait(c) \/ FillRoles(c) \/ GiveUp(c)

SignInSpec == SignInInit /\ [][SignInNext]_signVars
-----------------------------------------------------------------------------
SignInTypeOK ==
  /\ accounts \in [Subjects -> Account] /\ tokens \subseteq Token
  /\ userRow \in [UserRows -> {NoUser} \cup UserRecord]
  /\ userRole \in [UserRows -> SUBSET UNION TokenRoles]
  /\ bearers \in [Bearers -> [at : {"away", "external", "name", "rename", "adopt", "create",
                                    "cut", "wait", "fill"},
                              token : {NoToken} \cup Token, row : {NoUser} \cup UserRows,
                              cut : SUBSET UNION TokenRoles]]
  /\ crossed \subseteq UserRows

(* The roles stored for a user are those of one token, never a mixture of  *)
(* what an account had at different times, unless two requests replaced    *)
(* them at the same time; and no two rows are of one account or one name.  *)
RolesOfOneToken ==
  /\ \A u \in UserRows \ crossed : userRole[u] = {} \/ \E t \in tokens : userRole[u] = t.roles
  /\ \A u, v \in Users : u # v => userRow[u].external # userRow[v].external /\ userRow[u].name # userRow[v].name
=============================================================================
