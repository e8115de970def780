---------------------------- MODULE OperationsViews -------------------------
(***************************************************************************)
(* What a user is shown of the operational alerts, and what is marked as   *)
(* read: apps/api/src/operations/operations.service.ts (list, summary,     *)
(* readAll, upsert), alert-configuration.service.ts (rules and maintenance *)
(* windows) and the bell of apps/api/src/dashboard/dashboard.service.ts.   *)
(*                                                                         *)
(* One source and one user. Operators acknowledge and resolve alerts in    *)
(* OperationalAlerts; here an alert is raised and goes.                    *)
(***************************************************************************)
EXTENDS Naturals, FiniteSets

CONSTANTS
  ViewAlerts,    \* dedupKeys
  SeverityOf,    \* their severities: a function
  SiteOfAlert,   \* their sites, or Global: a function
  Entities,      \* the alerts about a row of the inventory
  RuleChoices,   \* the rules an administrator may write: [site, min]
  BellSize,      \* alerts the bell takes: 8 in the code
  Notices,       \* what else is in the bell: role requests, notifications
  Global,
  NoMarking      \* no readAll is under way

Severities == {"CRITICAL", "HIGH", "WARNING", "INFO"}
SeverityRank == [CRITICAL |-> 0, HIGH |-> 1, WARNING |-> 2, INFO |-> 3]

ASSUME AlertAssumption ==
  /\ IsFiniteSet(ViewAlerts) /\ IsFiniteSet(Notices) /\ ViewAlerts \cap Notices = {}
  /\ SeverityOf \in [ViewAlerts -> Severities] /\ BellSize \in Nat

VARIABLES
  raised,        \* the alerts that are not RESOLVED
  marks,         \* OperationalAlertUserState rows with readAt
  raising,       \* the alerts whose upsert has still to clear the marks
  alertRules,    \* AlertRule rows, enabled
  quiet,         \* the sites, or Global, with a maintenance window now
  userSites,     \* the sites the user may read
  reach,         \* the alerts whose row the user may read
  asAdmin,
  marking,       \* the items readAll has selected
  anew,          \* alerts raised since readAll last selected them (ghost)
  missed         \* alerts raised while a readAll that has selected them ends (ghost)

viewVars == <<raised, marks, raising, alertRules, quiet, userSites, reach, asAdmin, marking, anew,
              missed>>

ViewSites == {SiteOfAlert[a] : a \in ViewAlerts} \ {Global}

\* canSeeAlert: an alert about nothing in the inventory is everybody's when it is
\* global, and the site's otherwise.
CanSee(a) ==
  \/ asAdmin
  \/ SiteOfAlert[a] = Global /\ a \notin Entities
  \/ SiteOfAlert[a] \in userSites /\ (a \in Entities => a \in reach)

\* applyAlertPolicies: a rule of the site comes before a global one, and of two
\* alike the one that lets more through.
AppliesTo(rule, a) == rule.site \in {Global, SiteOfAlert[a]}
Decides(rule, a) ==
  /\ AppliesTo(rule, a)
  /\ \A other \in alertRules :
       AppliesTo(other, a) =>
         \/ rule.site = SiteOfAlert[a] /\ other.site # SiteOfAlert[a]
         \/ /\ (rule.site = SiteOfAlert[a]) = (other.site = SiteOfAlert[a])
            /\ SeverityRank[rule.min] >= SeverityRank[other.min]
PassesPolicies(a) ==
  \/ SeverityOf[a] = "CRITICAL"
  \/ /\ quiet \cap {Global, SiteOfAlert[a]} = {}
     /\ \A rule \in alertRules :
          Decides(rule, a) => SeverityRank[SeverityOf[a]] <= SeverityRank[rule.min]

Candidates == {a \in raised : CanSee(a)}
ListedAlerts == {a \in Candidates : PassesPolicies(a)}
Unread == ListedAlerts \ marks

\* The bell: the first alerts of the list, the gravest first; HIGH is shown as
\* CRITICAL, and the notices are INFO. The whole is sorted again and cut.
FirstOf(S, n, rank) ==
  {F \in SUBSET S : /\ Cardinality(F) = (IF Cardinality(S) < n THEN Cardinality(S) ELSE n)
                    /\ \A a \in F, b \in S \ F : rank[a] <= rank[b]}
ListRank == [a \in DOMAIN SeverityOf |-> SeverityRank[SeverityOf[a]]]
BellRank ==
  [a \in Notices \cup DOMAIN SeverityOf |->
     IF a \in Notices THEN 3 ELSE IF SeverityOf[a] = "HIGH" THEN 0 ELSE ListRank[a]]
Bells ==
  UNION {FirstOf(first \cup Notices, BellSize, BellRank) : first \in FirstOf(ListedAlerts, BellSize, ListRank)}

ViewInit ==
  /\ raised = {} /\ marks = {} /\ raising = {} /\ alertRules = {} /\ quiet = {}
  /\ userSites = ViewSites /\ reach = {} /\ asAdmin \in BOOLEAN
  /\ marking = NoMarking /\ anew = {} /\ missed = {}

-----------------------------------------------------------------------------
(* upsert: the row first, and then every user's mark. *)

Raise(a) ==
  /\ a \notin raising
  /\ raised' = raised \cup {a} /\ raising' = raising \cup {a} /\ anew' = anew \cup {a}
  /\ missed' = IF marking # NoMarking /\ a \in marking THEN missed \cup {a} ELSE missed
  /\ UNCHANGED <<marks, alertRules, quiet, userSites, reach, asAdmin, marking>>
ClearMarks(a) ==
  /\ a \in raising
  /\ marks' = marks \ {a} /\ raising' = raising \ {a}
  /\ UNCHANGED <<raised, alertRules, quiet, userSites, reach, asAdmin, marking, anew, missed>>
Goes(a) ==
  /\ a \in raised /\ raised' = raised \ {a}
  /\ UNCHANGED <<marks, raising, alertRules, quiet, userSites, reach, asAdmin, marking, anew, missed>>

-----------------------------------------------------------------------------
(* readAll selects what the user may see, whatever the policies hide, and    *)
(* then marks it.                                                            *)

SelectUnread ==
  /\ marking = NoMarking /\ Candidates # {}
  /\ marking' = Candidates /\ anew' = anew \ Candidates /\ missed' = missed \ Candidates
  /\ UNCHANGED <<raised, marks, raising, alertRules, quiet, userSites, reach, asAdmin>>
MarkRead ==
  /\ marking # NoMarking
  /\ marks' = marks \cup marking /\ marking' = NoMarking
  /\ UNCHANGED <<raised, raising, alertRules, quiet, userSites, reach, asAdmin, anew, missed>>

-----------------------------------------------------------------------------
(* saveRule and removeRule; windows begin and end; access comes and goes. *)

TurnRule(rule) ==
  /\ alertRules' = IF rule \in alertRules THEN alertRules \ {rule} ELSE alertRules \cup {rule}
  /\ UNCHANGED <<raised, marks, raising, quiet, userSites, reach, asAdmin, marking, anew, missed>>
TurnQuiet(s) ==
  /\ quiet' = IF s \in quiet THEN quiet \ {s} ELSE quiet \cup {s}
  /\ UNCHANGED <<raised, marks, raising, alertRules, userSites, reach, asAdmin, marking, anew, missed>>
TurnAccess(a) ==
  /\ a \in Entities /\ ~asAdmin
  /\ reach' = IF a \in reach THEN reach \ {a} ELSE reach \cup {a}
  /\ UNCHANGED <<raised, marks, raising, alertRules, quiet, userSites, asAdmin, marking, anew, missed>>
TurnSite(s) ==
  /\ ~asAdmin
  /\ userSites' = IF s \in userSites THEN userSites \ {s} ELSE userSites \cup {s}
  /\ UNCHANGED <<raised, marks, raising, alertRules, quiet, reach, asAdmin, marking, anew, missed>>

ViewNext ==
  \/ \E a \in ViewAlerts : Raise(a) \/ ClearMarks(a) \/ Goes(a) \/ TurnAccess(a)
  \/ SelectUnread \/ MarkRead
  \/ \E rule \in RuleChoices : TurnRule(rule)
  \/ \E s \in ViewSites \cup {Global} : TurnQuiet(s)
  \/ \E s \in ViewSites : TurnSite(s)

-----------------------------------------------------------------------------
(* Properties *)

ViewTypeOK ==
  /\ raised \cup marks \cup raising \cup reach \cup anew \cup missed \subseteq ViewAlerts
  /\ alertRules \subseteq RuleChoices /\ quiet \subseteq ViewSites \cup {Global}
  /\ userSites \subseteq ViewSites /\ asAdmin \in BOOLEAN
  /\ marking = NoMarking \/ marking \subseteq ViewAlerts

\* An alert that was raised again is unread again: once its upsert has ended, the
\* only mark that stays is that of a readAll which had selected it before.
RaisedIsUnread == \A a \in anew \ raising : a \in marks => a \in missed

\* A bell with room for fewer alerts than there are leaves out none that is graver
\* than one it shows, whatever the rules and windows hide; and shows every critical
\* alert that there is room for.
BellShowsGravest ==
  \A bell \in Bells :
    /\ \A a \in bell, b \in ListedAlerts \ bell : (IF a \in Notices THEN 3 ELSE ListRank[a]) <= ListRank[b]
    /\ \A b \in Candidates \ bell : SeverityOf[b] = "CRITICAL" =>
         /\ Cardinality(bell) = BellSize /\ bell \cap Notices = {}
         /\ \A a \in bell : SeverityOf[a] = "CRITICAL"

-----------------------------------------------------------------------------
(***************************************************************************)
(* The summary of inventory quality that a user is shown of a site         *)
(* (apps/api/src/inventory-quality/inventory-quality.service.ts, summary   *)
(* and list): the findings and the devices are read by statements of their *)
(* own, each is asked of the access policy in turn, and then the devices   *)
(* behind the findings are looked up; the inventory goes on meanwhile.     *)
(***************************************************************************)
CONSTANTS
  SeenDevices,     \* devices that may be on the site
  SeenFindings,    \* findings of the site
  DevicesBehind,   \* the devices a finding is about: those of its model, of its
                   \* interface or drift, or of its address; a function to sets
  ModelFindings,   \* findings on a model
  AddressFindings, \* findings on an address, which the IPAM lets the user read
  NoSummary

ASSUME SeenAssumption == IsFiniteSet(SeenDevices)

VARIABLES
  onSite,       \* the devices of the site
  unresolved,   \* findings that are not RESOLVED
  readable,     \* devices the user may read
  addressesRead,\* the user may read the addresses of the site
  gathering,    \* what the summary under way has read, or NoSummary
  quality,      \* the last summary, or NoSummary
  stirred       \* something changed while it was made (ghost)

qualityViewVars == <<onSite, unresolved, readable, addressesRead, gathering, quality, stirred>>

Behind(f) == IF f \in ModelFindings THEN DevicesBehind[f] \cap onSite ELSE DevicesBehind[f]

\* canSeeFinding: of a model, one device the user may read is enough.
CanSeeFinding(f) ==
  IF f \in AddressFindings THEN addressesRead
                           ELSE Behind(f) \cap readable # {}

QualityViewInit ==
  /\ onSite = SeenDevices /\ unresolved = {} /\ readable = SeenDevices /\ addressesRead = TRUE
  /\ gathering = NoSummary /\ quality = NoSummary /\ stirred = FALSE

-----------------------------------------------------------------------------
(* The summary *)

AskSummary ==
  /\ gathering = NoSummary
  /\ gathering' = [at |-> "read", found |-> NoSummary, devices |-> NoSummary, left |-> {},
                   visible |-> {}]
  /\ quality' = NoSummary /\ stirred' = FALSE
  /\ UNCHANGED <<onSite, unresolved, readable, addressesRead>>

Gathers(g) ==
  /\ gathering' = g
  /\ UNCHANGED <<onSite, unresolved, readable, addressesRead, quality, stirred>>
Gathering(at) == gathering # NoSummary /\ gathering.at = at

\* The two queries of one Promise.all.
ReadFindings ==
  /\ Gathering("read") /\ gathering.found = NoSummary
  /\ Gathers([gathering EXCEPT !.found = unresolved])
ReadDevices ==
  /\ Gathering("read") /\ gathering.devices = NoSummary
  /\ Gathers([gathering EXCEPT !.devices = onSite])
BothRead ==
  /\ Gathering("read") /\ gathering.found # NoSummary /\ gathering.devices # NoSummary
  /\ Gathers([gathering EXCEPT !.at = "filter", !.left = gathering.found])

\* filterVisibleFindings asks of one finding after the other.
AskOfFinding(f) ==
  /\ Gathering("filter") /\ f \in gathering.left
  /\ Gathers([gathering EXCEPT !.left = @ \ {f},
                               !.visible = IF CanSeeFinding(f) THEN @ \cup {f} ELSE @])
AskOfDevices ==
  /\ Gathering("filter") /\ gathering.left = {}
  /\ Gathers([gathering EXCEPT !.at = "owners", !.devices = @ \cap readable])

\* The devices behind the findings, of those the user may read.
Affected(visible, devices) == UNION {Behind(f) \cap devices : f \in visible}
Summarise ==
  /\ Gathering("owners")
  /\ LET all == Cardinality(gathering.devices)
         invalid == Cardinality(Affected(gathering.visible, gathering.devices))
         valid == IF invalid > all THEN 0 ELSE all - invalid
     IN quality' = [total |-> all, invalid |-> invalid, valid |-> valid,
                    score |-> IF all = 0 THEN 100 ELSE (200 * valid + all) \div (2 * all)]
  /\ gathering' = NoSummary
  /\ UNCHANGED <<onSite, unresolved, readable, addressesRead, stirred>>

-----------------------------------------------------------------------------
(* The inventory, the reconciler and the administrators meanwhile. *)

Stirs == stirred' = TRUE /\ UNCHANGED <<gathering, quality>>
MoveDevice(d) ==
  /\ onSite' = IF d \in onSite THEN onSite \ {d} ELSE onSite \cup {d}
  /\ Stirs /\ UNCHANGED <<unresolved, readable, addressesRead>>
TurnFinding(f) ==
  /\ unresolved' = IF f \in unresolved THEN unresolved \ {f} ELSE unresolved \cup {f}
  /\ Stirs /\ UNCHANGED <<onSite, readable, addressesRead>>
TurnReadable(d) ==
  /\ readable' = IF d \in readable THEN readable \ {d} ELSE readable \cup {d}
  /\ Stirs /\ UNCHANGED <<onSite, unresolved, addressesRead>>
TurnAddresses ==
  /\ addressesRead' = ~addressesRead
  /\ Stirs /\ UNCHANGED <<onSite, unresolved, readable>>

QualityViewNext ==
  \/ AskSummary \/ ReadFindings \/ ReadDevices \/ BothRead \/ AskOfDevices \/ Summarise
  \/ TurnAddresses
  \/ \E f \in SeenFindings : AskOfFinding(f) \/ TurnFinding(f)
  \/ \E d \in SeenDevices : MoveDevice(d) \/ TurnReadable(d)

-----------------------------------------------------------------------------
(* Properties *)

\* The cards of a summary add up and its score is a percentage, whatever changed
\* between the statements; and when nothing did, a device counts as valid exactly
\* when the user may read it and no finding the user may read is about it.
SummaryAddsUp ==
  quality # NoSummary =>
    /\ quality.invalid + quality.valid = quality.total /\ quality.score \in 0 .. 100
    /\ ~stirred => quality.valid = Cardinality(
         {d \in onSite \cap readable :
            \A f \in unresolved : CanSeeFinding(f) => d \notin DevicesBehind[f]})
=============================================================================
