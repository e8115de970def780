--------------------------- MODULE QualityFindings ---------------------------
(***************************************************************************)
(* Inventory quality: the rules that find what is missing in the           *)
(* inventory, the findings they keep, and what makes them run:             *)
(* apps/api/src/inventory-quality/inventory-quality.service.ts, the        *)
(* "maintenance" queue of apps/api/src/audit/audit.service.ts and          *)
(* settings/maintenance.service.ts, and its worker (discovery.worker.ts).  *)
(*                                                                         *)
(* A fact is one thing a rule can find: a device without a model, an       *)
(* address that two subnets of one VRF hold. The queries of one detection  *)
(* are taken at one moment. The alerts a pass raises for severe findings   *)
(* are reconcileSource, of OperationalAlerts.                              *)
(***************************************************************************)
EXTENDS Integers, FiniteSets

CONSTANTS
  Facts,          \* what the rules can find
  Sites,
  SitesOf,        \* the sites whose rows make up a fact; none: a device without a site
  MaxMutations,   \* mutations of the inventory (a bound)
  MaxReviews,     \* decisions of operators (a bound)
  MaxAsked,       \* reconciliations asked for by an administrator (a bound)
  MaxBreaks,      \* passes that a failed statement or a restart ends (a bound)
  Told,           \* whether Redis takes the job of a mutation: TRUE, or either
  NoFinding,      \* no row
  Everywhere      \* the scope of a pass that names no site

ASSUME QualityAssumption ==
  /\ SitesOf \in [Facts -> SUBSET Sites]
  /\ Told \subseteq BOOLEAN
  /\ Everywhere \notin Sites

Runners == {"worker", "admin"}
Finding == [status : {"OPEN", "ACKNOWLEDGED", "SNOOZED", "RESOLVED"},
            until : {"none", "future", "past"}, site : Sites \cup {Everywhere}]

ASSUME NoFindingAssumption == NoFinding \notin Finding

VARIABLES
  true,      \* the facts that hold in the inventory
  finding,   \* InventoryFinding rows
  run,       \* what the pass of each runner has read
  trigger,   \* the job inventory-quality-reconcile-global
  spent

qualityVars == <<true, finding, run, trigger, spent>>

NoRun == [at |-> "idle", scope |-> Everywhere, detected |-> {}, left |-> {}, key |-> NoFinding,
          reopen |-> FALSE, ids |-> {}, daily |-> FALSE]

Pay(what, max) ==
  /\ spent[what] < max
  /\ spent' = [spent EXCEPT ![what] = @ + 1]

Listed(f) == finding[f] # NoFinding
Unresolved(f) == Listed(f) /\ finding[f].status # "RESOLVED"

\* What detect finds: a pass over one site sees the rows of that site only, and
\* an address held twice is a fact it sees when the site holds it twice.
Detected(scope) ==
  {f \in true : scope = Everywhere \/ SitesOf[f] = {scope}}

-----------------------------------------------------------------------------
(* What starts a pass. *)

\* A mutation commits; its audit entry then adds the job, which BullMQ ignores
\* while it knows one of that id: waiting, running, or failed.
Mutate(f, told) ==
  /\ Pay("mutations", MaxMutations)
  /\ true' = IF f \in true THEN true \ {f} ELSE true \cup {f}
  /\ trigger' = IF told /\ trigger = "none" THEN "waiting" ELSE trigger
  /\ UNCHANGED <<finding, run>>

Begins(r, scope, daily) ==
  run' = [run EXCEPT ![r] = [NoRun EXCEPT !.at = "detect", !.scope = scope, !.daily = daily]]

\* The worker has one pass at a time: the job of a mutation, or the daily one.
TakeTrigger ==
  /\ trigger = "waiting" /\ run["worker"].at = "idle"
  /\ trigger' = "active"
  /\ Begins("worker", Everywhere, FALSE)
  /\ UNCHANGED <<true, finding, spent>>

Daily ==
  /\ run["worker"].at = "idle"
  /\ Begins("worker", Everywhere, TRUE)
  /\ UNCHANGED <<true, finding, trigger, spent>>

\* reconcile, by an administrator, everywhere or for a site.
Ask(scope) ==
  /\ run["admin"].at = "idle" /\ Pay("asked", MaxAsked)
  /\ Begins("admin", scope, FALSE)
  /\ UNCHANGED <<true, finding, trigger>>

-----------------------------------------------------------------------------
(* reconcileSite, one action per statement. *)

Detect(r) ==
  /\ run[r].at = "detect"
  /\ run' = [run EXCEPT ![r].at = "candidates", ![r].detected = Detected(run[r].scope),
                        ![r].left = Detected(run[r].scope)]
  /\ UNCHANGED <<true, finding, trigger, spent>>

\* A bug: a snooze that has ended is left alone, as alerts do until their own pass.
ReadFindingKept(r, f) ==
  /\ run[r].at = "candidates" /\ f \in run[r].left
  /\ run' = [run EXCEPT ![r].at = "write", ![r].key = f, ![r].reopen = FALSE]
  /\ UNCHANGED <<true, finding, trigger, spent>>

ReadFinding(r, f) ==
  /\ run[r].at = "candidates" /\ f \in run[r].left
  /\ run' = [run EXCEPT ![r].at = "write", ![r].key = f,
                        ![r].reopen = Listed(f) /\ \/ finding[f].status = "RESOLVED"
                                                   \/ /\ finding[f].status = "SNOOZED"
                                                      /\ finding[f].until = "past"]
  /\ UNCHANGED <<true, finding, trigger, spent>>

\* The row is created, or brought up to date; its site is that of the first row
\* the rule met.
WriteFinding(r) ==
  LET f == run[r].key
  IN /\ run[r].at = "write"
     /\ \E s \in IF SitesOf[f] = {} THEN {Everywhere} ELSE SitesOf[f] :
          finding' = [finding EXCEPT ![f] =
            IF ~Listed(f) \/ run[r].reopen THEN [status |-> "OPEN", until |-> "none", site |-> s]
                                           ELSE [@ EXCEPT !.site = s]]
     /\ run' = [run EXCEPT ![r].at = "candidates", ![r].left = @ \ {f}]
     /\ UNCHANGED <<true, trigger, spent>>

\* The findings of the scope that were not detected.
ReadUndetected(r) ==
  /\ run[r].at = "candidates" /\ run[r].left = {}
  /\ run' = [run EXCEPT ![r].at = "resolve",
                        ![r].ids = {f \in Facts \ run[r].detected :
                                      Unresolved(f) /\ run[r].scope \in {Everywhere, finding[f].site}}]
  /\ UNCHANGED <<true, finding, trigger, spent>>

\* The job of a mutation ends with its pass, and may then be added again.
ResolveUndetected(r) ==
  /\ run[r].at = "resolve"
  /\ finding' = [f \in Facts |-> IF f \in run[r].ids
                                   THEN [finding[f] EXCEPT !.status = "RESOLVED", !.until = "none"]
                                   ELSE finding[f]]
  /\ run' = [run EXCEPT ![r] = NoRun]
  /\ trigger' = IF r = "worker" /\ ~run[r].daily THEN "none" ELSE trigger
  /\ UNCHANGED <<true, spent>>

\* A statement fails: removeOnFail keeps the job, and with it its id. After a
\* restart BullMQ gives the job to the worker again.
BreakRun(r) ==
  /\ run[r].at # "idle" /\ Pay("breaks", MaxBreaks)
  /\ run' = [run EXCEPT ![r] = NoRun]
  /\ trigger' \in IF r = "worker" /\ ~run[r].daily THEN {"failed", "waiting"} ELSE {trigger}
  /\ UNCHANGED <<true, finding>>

RunStep(r) ==
  \/ Detect(r) \/ (\E f \in Facts : ReadFinding(r, f)) \/ WriteFinding(r)
  \/ ReadUndetected(r) \/ ResolveUndetected(r)

-----------------------------------------------------------------------------
(* Operators, and time. As with alerts, no decision looks at the status. *)

Review(f, reviewed) ==
  /\ Listed(f) /\ Pay("reviews", MaxReviews)
  /\ finding' = [finding EXCEPT ![f] = reviewed]
  /\ UNCHANGED <<true, run, trigger>>

AcknowledgeFinding(f) == Review(f, [finding[f] EXCEPT !.status = "ACKNOWLEDGED", !.until = "none"])
SnoozeFinding(f) == Review(f, [finding[f] EXCEPT !.status = "SNOOZED", !.until = "future"])

FindingSnoozeEnds(f) ==
  /\ Listed(f) /\ finding[f].until = "future"
  /\ finding' = [finding EXCEPT ![f].until = "past"]
  /\ UNCHANGED <<true, run, trigger, spent>>

QualityInit ==
  /\ true = {}
  /\ finding = [f \in Facts |-> NoFinding]
  /\ run = [r \in Runners |-> NoRun]
  /\ trigger = "none"
  /\ spent = [mutations |-> 0, reviews |-> 0, asked |-> 0, breaks |-> 0]

QualityNext ==
  \/ \E f \in Facts, told \in Told : Mutate(f, told)
  \/ TakeTrigger \/ Daily
  \/ \E scope \in Sites \cup {Everywhere} : Ask(scope)
  \/ \E r \in Runners : RunStep(r) \/ BreakRun(r)
  \/ \E f \in Facts : AcknowledgeFinding(f) \/ SnoozeFinding(f) \/ FindingSnoozeEnds(f)

QualitySpec == QualityInit /\ [][QualityNext]_qualityVars
-----------------------------------------------------------------------------
(* Properties *)

\* Findings, passes and the job keep their shapes; a pass works in its scope.
QualityTypeOK ==
  /\ true \subseteq Facts
  /\ finding \in [Facts -> Finding \cup {NoFinding}]
  /\ trigger \in {"none", "waiting", "active", "failed"}
  /\ \A r \in Runners :
       /\ run[r].left \subseteq run[r].detected
       /\ run[r].at = "write" => run[r].key \in run[r].left
       /\ \A f \in run[r].ids : Listed(f)
  /\ trigger = "active" => run["worker"].at # "idle" /\ ~run["worker"].daily

\* Once a fact holds, or has gone, for good, so does its finding: lost and
\* refused triggers, decisions, passes over one site and restarts are made up
\* for by the daily pass.
FindingsFollowFacts ==
  \A f \in Facts :
    /\ <>[](f \in true) => <>[]Unresolved(f)
    /\ <>[](f \notin true) => <>[]~Unresolved(f)
=============================================================================
