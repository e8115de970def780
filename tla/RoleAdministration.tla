------------------------- MODULE RoleAdministration -------------------------
(***************************************************************************)
(* Requests for roles (apps/api/src/settings/role-request.service.ts) and  *)
(* the administration of roles in Keycloak (keycloak-admin.service.ts).    *)
(* A role request is a row of the database; the roles themselves live in   *)
(* Keycloak, as direct roles of a person and as roles of the directory     *)
(* groups a person belongs to.  Nothing locks Keycloak: each handler is a  *)
(* list of calls, and the handlers of several administrators interleave    *)
(* between any two of them.                                                *)
(***************************************************************************)
EXTENDS Integers, Sequences

CONSTANTS
  People,       \* the accounts Keycloak holds, all of them enabled
  Groups,       \* directory groups
  MembersOf,    \* Groups -> the people of each one
  Desks,        \* API requests that may be handled at once
  RoleRequests, \* RoleRequest rows that may be created
  MaxTasks,     \* handlers started (a bound)
  MaxRefusals,  \* calls refused, and handlers lost with their process (a bound)
  MaxSaves,     \* saves of the directory federation (a bound)
  NoRequest     \* no row

Requestable == {"AUDITOR"}
AppRoles == Requestable \cup {"ADMIN"}
Decided == {"APPROVED", "REJECTED"}
Undecided == {"PENDING", "PROCESSING"}

ASSUME RoleAssumption ==
  /\ MembersOf \in [Groups -> SUBSET People]
  /\ MaxTasks \in Nat /\ MaxRefusals \in Nat /\ MaxSaves \in Nat

RequestRow == [status : Decided \cup Undecided, who : People, roles : SUBSET Requestable]

ASSUME NoRequestAssumption == NoRequest \notin RequestRow

VARIABLES
  direct,     \* roles mapped to each account itself
  groupRoles, \* roles mapped to each group
  mapping,    \* app.groupRoleMappings, saved with the mapper
  request,    \* the RoleRequest rows
  told,       \* the notifications about each, oldest first
  task,       \* the handler at each desk
  raced,      \* desks since whose start another one changed roles (history)
  spent       \* how many handlers, refusals and saves there have been

roleVars == <<direct, groupRoles, mapping, request, told, task, raced, spent>>
keycloak == <<direct, groupRoles, mapping>>
rows == <<request, told>>

NoHandler == [step |-> "none"]
Inherited(p) == UNION {groupRoles[g] : g \in {h \in Groups : p \in MembersOf[h]}}
Effective(p) == direct[p] \cup Inherited(p)
HasRequest(p) == \E r \in {q \in RoleRequests : request[q] # NoRequest} :
  request[r].who = p /\ request[r].status \in Undecided
IsAdmin(p) == "ADMIN" \in Effective(p)

RoleInit ==
  /\ direct \in [People -> {{"ADMIN"}, {"AUDITOR"}}]
  /\ groupRoles = [g \in Groups |-> {}]
  /\ mapping = groupRoles
  /\ \E p \in People : IsAdmin(p)
  /\ request = [r \in RoleRequests |-> NoRequest]
  /\ told = [r \in RoleRequests |-> <<>>]
  /\ task = [d \in Desks |-> NoHandler]
  /\ raced = {}
  /\ spent = [tasks |-> 0, refusals |-> 0, saves |-> 0]

(* A handler starts at a free desk, goes on to its next call, or ends.     *)
Opens(d, t) ==
  /\ task[d] = NoHandler /\ spent.tasks < MaxTasks
  /\ task' = [task EXCEPT ![d] = t]
  /\ spent' = [spent EXCEPT !.tasks = @ + 1]
At(d, step) == task[d].step = step /\ UNCHANGED spent
BecomesTask(d, t) == task' = [task EXCEPT ![d] = t]
TurnsTo(d, step) == BecomesTask(d, [task[d] EXCEPT !.step = step])
Closes(d) == BecomesTask(d, NoHandler)
Grants(p, roles) == direct' = [direct EXCEPT ![p] = @ \cup roles]
Revokes(p, roles) == direct' = [direct EXCEPT ![p] = @ \ roles]

(* submit: a role already held refuses the request; by the time the row is *)
(* created, the partial unique index has the last word.                    *)
AskForRoles(d, p, roles) ==
  /\ roles \cap Effective(p) = {}
  /\ Opens(d, [step |-> "asking", who |-> p, roles |-> roles])
  /\ UNCHANGED <<keycloak, rows>>
CreateRequest(d, r) ==
  /\ At(d, "asking") /\ Closes(d)
  /\ request[r] = NoRequest
  /\ request' = IF HasRequest(task[d].who) THEN request ELSE
       [request EXCEPT ![r] =
          [status |-> "PENDING", who |-> task[d].who, roles |-> task[d].roles]]
  /\ UNCHANGED <<keycloak, told>>

(* decide: the claim is one conditional update; the row is read after it,  *)
(* and an approval takes up a claim that somebody else has made.           *)
Claim(d, r, decision) ==
  /\ request[r] # NoRequest
  /\ Opens(d, [step |-> "claimed", row |-> r, decision |-> decision,
               won |-> request[r].status = "PENDING", missing |-> {}])
  /\ request' = IF request[r].status = "PENDING"
                THEN [request EXCEPT ![r].status = "PROCESSING"] ELSE request
  /\ UNCHANGED <<keycloak, told>>
Reread(d) ==
  /\ At(d, "claimed")
  /\ LET t == task[d]
         reconciling == t.decision = "APPROVED" /\ request[t.row].status = "PROCESSING"
     IN IF ~t.won /\ ~reconciling THEN Closes(d)
        ELSE TurnsTo(d, IF t.decision = "REJECTED" THEN "finalizing" ELSE "granting")
  /\ UNCHANGED <<keycloak, rows>>

(* grantRoles: what is missing is added; the effective roles are read once *)
(* more, and a role that is not among them ends the approval.              *)
ReadMissing(d) ==
  /\ At(d, "granting")
  /\ LET q == request[task[d].row]
     IN BecomesTask(d, [task[d] EXCEPT !.step = "posting",
                                       !.missing = q.roles \ Effective(q.who)])
  /\ UNCHANGED <<keycloak, rows>>
PostMissing(d) ==
  /\ At(d, "posting") /\ TurnsTo(d, "verifying")
  /\ Grants(request[task[d].row].who, task[d].missing)
  /\ UNCHANGED <<groupRoles, mapping, rows>>
VerifyGrant(d) ==
  /\ At(d, "verifying")
  /\ LET q == request[task[d].row]
     IN IF q.roles \subseteq Effective(q.who) THEN TurnsTo(d, "finalizing") ELSE Closes(d)
  /\ UNCHANGED <<keycloak, rows>>

(* A plausible slip: the transaction updates the row by its id alone.      *)
FinalizeAnyStatus(d) ==
  /\ At(d, "finalizing") /\ Closes(d)
  /\ LET r == task[d].row
     IN /\ request' = [request EXCEPT ![r].status = task[d].decision]
        /\ told' = [told EXCEPT ![r] = Append(@, task[d].decision)]
  /\ UNCHANGED keycloak

(* finalize: one transaction, the status and the notification together.    *)
Finalize(d) ==
  /\ At(d, "finalizing") /\ Closes(d)
  /\ LET r == task[d].row
     IN IF request[r].status = "PROCESSING"
        THEN /\ request' = [request EXCEPT ![r].status = task[d].decision]
             /\ told' = [told EXCEPT ![r] = Append(@, task[d].decision)]
        ELSE UNCHANGED rows
  /\ UNCHANGED keycloak

(* updateRoles: the mappings are read once, and everything after works on  *)
(* that reading; the last administrator is looked for only when the change *)
(* takes ADMIN away.                                                       *)
UpdateRoles(d, p, desired) ==
  /\ desired \cup (Inherited(p) \ direct[p]) # {}
  /\ Opens(d, [step |-> IF IsAdmin(p) /\ "ADMIN" \notin desired \cup (Inherited(p) \ direct[p])
                        THEN "counting" ELSE "adding",
               who |-> p, before |-> direct[p], desired |-> desired, back |-> FALSE,
               add |-> desired \ direct[p], drop |-> direct[p] \ desired])
  /\ UNCHANGED <<keycloak, rows>>
(* A plausible slip: the account itself is counted among the others.       *)
AssertAnyAdmin(d) ==
  /\ At(d, "counting")
  /\ IF \E p \in People : IsAdmin(p) THEN TurnsTo(d, "adding") ELSE Closes(d)
  /\ UNCHANGED <<keycloak, rows>>
AssertAnotherAdmin(d) ==
  /\ At(d, "counting")
  /\ IF \E p \in People \ {task[d].who} : IsAdmin(p) THEN TurnsTo(d, "adding") ELSE Closes(d)
  /\ UNCHANGED <<keycloak, rows>>
AddRoles(d) ==
  /\ At(d, "adding") /\ TurnsTo(d, "dropping")
  /\ Grants(task[d].who, task[d].add)
  /\ UNCHANGED <<groupRoles, mapping, rows>>
DropRoles(d) ==
  /\ At(d, "dropping")
  /\ IF task[d].back THEN Closes(d) ELSE TurnsTo(d, "confirming")
  /\ Revokes(task[d].who, task[d].drop)
  /\ UNCHANGED <<groupRoles, mapping, rows>>
ConfirmRoles(d) ==
  /\ At(d, "confirming")
  /\ IF direct[task[d].who] = task[d].desired THEN Closes(d) ELSE TurnsTo(d, "restoring")
  /\ UNCHANGED <<keycloak, rows>>
RestoreDirectRoles(d) ==
  /\ At(d, "restoring")
  /\ LET t == task[d]
     IN BecomesTask(d, [t EXCEPT !.step = "adding", !.back = TRUE,
                                 !.add = t.before \ direct[t.who],
                                 !.drop = direct[t.who] \ t.before])
  /\ UNCHANGED <<keycloak, rows>>

(* updateDirectoryFederation: the mappings are saved first; then the       *)
(* groups are synchronised and the roles of each one brought in line.      *)
SaveFederation(d, wanted) ==
  /\ spent.saves < MaxSaves /\ spent.tasks < MaxTasks
  /\ task[d] = NoHandler
  /\ BecomesTask(d, [step |-> "saving", previous |-> mapping, wanted |-> wanted])
  /\ spent' = [spent EXCEPT !.saves = @ + 1, !.tasks = @ + 1]
  /\ UNCHANGED <<keycloak, rows>>
PutMapping(d) ==
  /\ At(d, "saving")
  /\ mapping' = task[d].wanted
  /\ LET t == task[d]
     IN BecomesTask(d, [step |-> "reconciling", previous |-> t.previous, wanted |-> t.wanted,
                        left |-> {g \in Groups : t.previous[g] \cup t.wanted[g] # {}}])
  /\ UNCHANGED <<direct, groupRoles, rows>>
ReconcileGroup(d) ==
  /\ At(d, "reconciling")
  /\ LET t == task[d]
     IN \/ \E g \in t.left :
             /\ groupRoles' = [groupRoles EXCEPT
                  ![g] = (@ \ (t.previous[g] \ t.wanted[g])) \cup t.wanted[g]]
             /\ BecomesTask(d, [t EXCEPT !.left = @ \ {g}])
        \/ t.left = {} /\ Closes(d) /\ UNCHANGED groupRoles
  /\ UNCHANGED <<direct, mapping, rows>>

(* A call is refused, or the process dies.  A refusal while roles are      *)
(* being changed restores them; anything else just ends the handler.       *)
Fails(d) ==
  /\ task[d] # NoHandler /\ spent.refusals < MaxRefusals
  /\ spent' = [spent EXCEPT !.refusals = @ + 1]
  /\ \/ Closes(d) /\ UNCHANGED groupRoles
     \/ /\ task[d].step \in {"adding", "dropping", "confirming"} /\ ~task[d].back
        /\ TurnsTo(d, "restoring") /\ UNCHANGED groupRoles
     \/ /\ task[d].step = "reconciling" /\ Closes(d)
        /\ \E g \in task[d].left : groupRoles' = [groupRoles EXCEPT
             ![g] = @ \ (task[d].previous[g] \ task[d].wanted[g])]
  /\ UNCHANGED <<direct, mapping, rows>>

RoleStep(d) ==
  \/ \E p \in People, roles \in SUBSET Requestable \ {{}} : AskForRoles(d, p, roles)
  \/ \E r \in RoleRequests : CreateRequest(d, r)
  \/ \E r \in RoleRequests, decision \in Decided : Claim(d, r, decision)
  \/ Reread(d)
  \/ ReadMissing(d)
  \/ PostMissing(d)
  \/ VerifyGrant(d)
  \/ Finalize(d)
  \/ \E p \in People, desired \in SUBSET AppRoles : UpdateRoles(d, p, desired)
  \/ AssertAnotherAdmin(d)
  \/ AddRoles(d)
  \/ DropRoles(d)
  \/ ConfirmRoles(d)
  \/ RestoreDirectRoles(d)
  \/ \E wanted \in [Groups -> SUBSET AppRoles] : SaveFederation(d, wanted)
  \/ PutMapping(d)
  \/ ReconcileGroup(d)
  \/ Fails(d)

RoleNext == \E d \in Desks :
  /\ RoleStep(d)
  /\ raced' = {e \in IF keycloak' = keycloak THEN raced ELSE raced \cup (Desks \ {d}) :
                task'[e] # NoHandler}

RoleSpec == RoleInit /\ [][RoleNext]_roleVars
-----------------------------------------------------------------------------
RoleTask ==
  [step : {"none"}]
  \cup [step : {"asking"}, who : People, roles : SUBSET Requestable]
  \cup [step : {"claimed", "granting", "posting", "verifying", "finalizing"},
        row : RoleRequests, decision : Decided, won : BOOLEAN, missing : SUBSET Requestable]
  \cup [step : {"counting", "adding", "dropping", "confirming", "restoring"}, who : People,
        before : SUBSET AppRoles, desired : SUBSET AppRoles, back : BOOLEAN,
        add : SUBSET AppRoles, drop : SUBSET AppRoles]
  \cup [step : {"saving"}, previous : [Groups -> SUBSET AppRoles],
        wanted : [Groups -> SUBSET AppRoles]]
  \cup [step : {"reconciling"}, previous : [Groups -> SUBSET AppRoles],
        wanted : [Groups -> SUBSET AppRoles], left : SUBSET Groups]

(* Every variable has its type, and a desk that decides works on a row.    *)
RoleTypeOK ==
  /\ direct \in [People -> SUBSET AppRoles]
  /\ groupRoles \in [Groups -> SUBSET AppRoles]
  /\ mapping \in [Groups -> SUBSET AppRoles]
  /\ request \in [RoleRequests -> RequestRow \cup {NoRequest}]
  /\ told \in [RoleRequests -> Seq(Decided)]
  /\ task \in [Desks -> RoleTask]
  /\ raced \in SUBSET Desks
  /\ spent \in [tasks : 0..MaxTasks, refusals : 0..MaxRefusals, saves : 0..MaxSaves]

(* A person hears of a request exactly once, when it is decided, and hears *)
(* the decision the row keeps: however many reviewers approve it again     *)
(* after a failure, or reject it while another approves.                   *)
ToldOnce ==
  \A r \in RoleRequests :
    told[r] = IF request[r] # NoRequest /\ request[r].status \in Decided
              THEN <<request[r].status>> ELSE <<>>

(* "role updates cannot remove the last active administrator"              *)
(* (keycloak-admin.service.spec.ts:56): the step after which no account    *)
(* administers brings a group in line with its mapping, takes back the     *)
(* ADMIN its own handler has just given, or is the update of a handler     *)
(* since whose start another one changed roles.  An update nobody raced    *)
(* leaves an administrator, restored after a refusal or not.               *)
LastAdminFallsInARace ==
  [][(\E p \in People : IsAdmin(p)) /\ ~(\E p \in People : IsAdmin(p)') =>
       \E d \in Desks :
         /\ task[d] # task'[d]
         /\ \/ task[d].step = "reconciling" \/ d \in raced
            \/ task[d].step = "dropping" /\ task[d].back /\ "ADMIN" \notin task[d].before]_roleVars

=============================================================================
