-------------------------- MODULE OperationalAlerts --------------------------
(***************************************************************************)
(* Operational alerts and the reconciler that opens and resolves them      *)
(* every ten seconds: apps/api/src/operations/operations.service.ts and    *)
(* operations-reconciler.service.ts.                                       *)
(*                                                                         *)
(* A pass is a sequence of awaited statements; operators, and the passes   *)
(* of the other instances, step in between. AlertKeys are the dedupKeys of *)
(* one source: the sources are reconciled one after the other, alike.      *)
(***************************************************************************)
EXTENDS Integers, FiniteSets

CONSTANTS
  AlertKeys,      \* dedupKeys of one source
  Instances,      \* API processes, each with its reconciler
  Cap,            \* candidates a pass takes: 100 in the code
  MaxTurns,       \* times a cause may come or go (a bound)
  MaxDecisions,   \* decisions of operators (a bound)
  MaxAborts,      \* passes that a failed statement ends (a bound)
  NoAlert         \* no row

ASSUME AlertAssumption == IsFiniteSet(AlertKeys) /\ NoAlert \notin AlertKeys /\ Cap \in Nat

AlertStatus == {"OPEN", "ACKNOWLEDGED", "SNOOZED", "RESOLVED"}

\* until: snoozedUntil, before or after now; closed: resolvedAt is set.
Alert == [status : AlertStatus, until : {"none", "future", "past"}, closed : BOOLEAN]

ASSUME NoRowAssumption == NoAlert \notin Alert

VARIABLES
  cause,    \* the failed job, late drift, trap or outage behind each key is there
  alert,    \* OperationalAlert rows
  pass,     \* what each instance's pass has read
  budget    \* how often causes, operators and failures have acted

alertVars == <<cause, alert, pass, budget>>

NoPass == [at |-> "idle", ids |-> {}, found |-> {}, left |-> {}, key |-> NoAlert,
           reopen |-> FALSE, complete |-> FALSE, live |-> {}]

Live == {k \in AlertKeys : cause[k]}
Known(k) == alert[k] # NoAlert
Active(k) == Known(k) /\ alert[k].status # "RESOLVED"
Opened == [status |-> "OPEN", until |-> "none", closed |-> FALSE]

Spend(what, max) ==
  /\ budget[what] < max
  /\ budget' = [budget EXCEPT ![what] = @ + 1]

-----------------------------------------------------------------------------
(* The pass of an instance. *)

At(i, where) == pass[i].at = where
Goes(i, p) == pass' = [pass EXCEPT ![i] = p]

\* reopenExpiredSnoozes: the ids first.
ReadExpired(i) ==
  /\ At(i, "idle")
  /\ Goes(i, [NoPass EXCEPT !.at = "reopen",
                            !.ids = {k \in AlertKeys : Known(k) /\ alert[k].status = "SNOOZED"
                                                         /\ alert[k].until = "past"}])
  /\ UNCHANGED <<cause, alert, budget>>

\* Then an update by id, whatever the rows have become; resolvedAt stays.
ReopenExpired(i) ==
  /\ At(i, "reopen")
  /\ alert' = [k \in AlertKeys |-> IF k \in pass[i].ids
                                     THEN [alert[k] EXCEPT !.status = "OPEN", !.until = "none"]
                                     ELSE alert[k]]
  /\ Goes(i, [NoPass EXCEPT !.at = "collect"])
  /\ UNCHANGED <<cause, budget>>

\* A bug: the pass does not look at how much it has left out.
CollectTrusting(i) ==
  /\ At(i, "collect")
  /\ \E found \in SUBSET Live :
       /\ Cardinality(found) = (IF Cardinality(Live) <= Cap THEN Cardinality(Live) ELSE Cap)
       /\ Goes(i, [NoPass EXCEPT !.at = "candidates", !.found = found, !.left = found,
                                 !.complete = TRUE, !.live = Live])
  /\ UNCHANGED <<cause, alert, budget>>

\* The queries take one row more than the cap, to know whether they left any out.
\* live is kept to state what the pass could have known.
Collect(i) ==
  /\ At(i, "collect")
  /\ \E found \in SUBSET Live :
       /\ Cardinality(found) = (IF Cardinality(Live) <= Cap THEN Cardinality(Live) ELSE Cap)
       /\ Goes(i, [NoPass EXCEPT !.at = "candidates", !.found = found, !.left = found,
                                 !.complete = Cardinality(Live) <= Cap, !.live = Live])
  /\ UNCHANGED <<cause, alert, budget>>

\* reconcileSource: an active alert only has its texts and time brought up to date.
LookUp(i, k) ==
  /\ At(i, "candidates") /\ k \in pass[i].left
  /\ Goes(i, IF Active(k) THEN [pass[i] EXCEPT !.left = @ \ {k}]
                          ELSE [pass[i] EXCEPT !.at = "upsert", !.key = k])
  /\ UNCHANGED <<cause, alert, budget>>

\* upsert reads the status once more, and reopens if that is RESOLVED.
UpsertRead(i) ==
  /\ At(i, "upsert")
  /\ Goes(i, [pass[i] EXCEPT !.at = "write",
                             !.reopen = Known(pass[i].key) /\ ~Active(pass[i].key)])
  /\ UNCHANGED <<cause, alert, budget>>

\* A bug: an alert that exists is brought up to date and never reopened.
UpsertWriteOnce(i) ==
  LET k == pass[i].key
  IN /\ At(i, "write")
     /\ alert' = [alert EXCEPT ![k] = IF Known(k) THEN @ ELSE Opened]
     /\ Goes(i, [pass[i] EXCEPT !.at = "candidates", !.left = @ \ {k}])
     /\ UNCHANGED <<cause, budget>>

UpsertWrite(i) ==
  LET k == pass[i].key
  IN /\ At(i, "write")
     /\ alert' = [alert EXCEPT ![k] = IF ~Known(k) \/ pass[i].reopen THEN Opened ELSE @]
     /\ Goes(i, [pass[i] EXCEPT !.at = "candidates", !.left = @ \ {k}])
     /\ UNCHANGED <<cause, budget>>

\* Active alerts without a candidate; none when the pass left candidates out.
ReadStale(i) ==
  /\ At(i, "candidates") /\ pass[i].left = {}
  /\ Goes(i, [pass[i] EXCEPT !.at = "resolve",
                             !.ids = {k \in AlertKeys \ pass[i].found :
                                        pass[i].complete /\ Active(k)}])
  /\ UNCHANGED <<cause, alert, budget>>

ResolveStale(i) ==
  /\ At(i, "resolve")
  /\ alert' = [k \in AlertKeys |-> IF k \in pass[i].ids
                                     THEN [alert[k] EXCEPT !.status = "RESOLVED", !.closed = TRUE]
                                     ELSE alert[k]]
  /\ Goes(i, NoPass)
  /\ UNCHANGED <<cause, budget>>

\* A statement fails, or the process restarts: the next pass begins anew.
AbortPass(i) ==
  /\ ~At(i, "idle") /\ Spend("aborts", MaxAborts)
  /\ Goes(i, NoPass)
  /\ UNCHANGED <<cause, alert>>

PassStep(i) ==
  \/ ReadExpired(i) \/ ReopenExpired(i) \/ Collect(i)
  \/ \E k \in AlertKeys : LookUp(i, k)
  \/ UpsertRead(i) \/ UpsertWrite(i) \/ ReadStale(i) \/ ResolveStale(i)

-----------------------------------------------------------------------------
(* Operators, time, and the causes. None of the decisions looks at the status. *)

Decide(k, decided) ==
  /\ Known(k) /\ Spend("decisions", MaxDecisions)
  /\ alert' = [alert EXCEPT ![k] = decided]
  /\ UNCHANGED <<cause, pass>>

Acknowledge(k) == Decide(k, [alert[k] EXCEPT !.status = "ACKNOWLEDGED", !.until = "none"])
Snooze(k) == Decide(k, [alert[k] EXCEPT !.status = "SNOOZED", !.until = "future"])
ResolveAlert(k) ==
  Decide(k, [alert[k] EXCEPT !.status = "RESOLVED", !.until = "none", !.closed = TRUE])

SnoozeEnds(k) ==
  /\ Known(k) /\ alert[k].until = "future"
  /\ alert' = [alert EXCEPT ![k].until = "past"]
  /\ UNCHANGED <<cause, pass, budget>>

CauseTurns(k) ==
  /\ Spend("turns", MaxTurns)
  /\ cause' = [cause EXCEPT ![k] = ~@]
  /\ UNCHANGED <<alert, pass>>

AlertInit ==
  /\ cause = [k \in AlertKeys |-> FALSE]
  /\ alert = [k \in AlertKeys |-> NoAlert]
  /\ pass = [i \in Instances |-> NoPass]
  /\ budget = [turns |-> 0, decisions |-> 0, aborts |-> 0]

AlertNext ==
  \/ \E i \in Instances : PassStep(i) \/ AbortPass(i)
  \/ \E k \in AlertKeys : Acknowledge(k) \/ Snooze(k) \/ ResolveAlert(k) \/ SnoozeEnds(k) \/ CauseTurns(k)

AlertSpec == AlertInit /\ [][AlertNext]_alertVars
-----------------------------------------------------------------------------
(* Properties *)

\* Alerts and passes keep their shapes; a pass that writes has its key.
AlertTypeOK ==
  /\ cause \in [AlertKeys -> BOOLEAN]
  /\ alert \in [AlertKeys -> Alert \cup {NoAlert}]
  /\ \A i \in Instances :
       /\ pass[i].ids \subseteq {k \in AlertKeys : Known(k)}
       /\ pass[i].left \subseteq pass[i].found /\ pass[i].found \subseteq pass[i].live
       /\ pass[i].at \in {"upsert", "write"} => pass[i].key \in pass[i].left

\* However passes and operators interleave, what a pass resolves had no cause
\* when the pass looked: no alert is lost because there were too many.
ResolvedOnlyWhenGone ==
  [][\A k \in AlertKeys : Active(k) /\ ~Active(k)' /\ budget' = budget
       => \E i \in Instances : pass[i].at = "resolve" /\ k \notin pass[i].live]_alertVars

\* Once a cause is there, or gone, for good, and the causes fit a pass, its alert
\* is active, or resolved, for good: whatever decisions and stale updates left.
AlertsFollowCauses ==
  \A k \in AlertKeys :
    /\ <>[](cause[k] /\ Cardinality(Live) <= Cap) => <>[]Active(k)
    /\ <>[](~cause[k] /\ Cardinality(Live) <= Cap) => <>[]~Active(k)
=============================================================================
