------------------------- MODULE Background_proofs --------------------------
(***************************************************************************)
(* What the components that work on their own keep, for any number of      *)
(* alerts, facts, notifications, scans, interfaces, processes and faults:  *)
(* proofs about the modules that MCBackground composes.                    *)
(***************************************************************************)
EXTENDS MCBackground, FiniteSetTheorems, TLAPS

USE AlertAssumption, NoRowAssumption, QualityAssumption, NoFindingAssumption, StreamAssumption,
    NoEventAssumption, NoScanAssumption, ListenAssumption, SocketsAssumption

-----------------------------------------------------------------------------
(* Alerts: a pass that has seen every cause resolves none that it saw.     *)

PassRecord == [at : {"idle", "reopen", "collect", "candidates", "upsert", "write", "resolve"},
               ids : SUBSET AlertKeys, found : SUBSET AlertKeys, left : SUBSET AlertKeys,
               key : AlertKeys \cup {NoAlert}, reopen : BOOLEAN, complete : BOOLEAN,
               live : SUBSET AlertKeys]

AlertShapes ==
  /\ cause \in [AlertKeys -> BOOLEAN]
  /\ alert \in [AlertKeys -> Alert \cup {NoAlert}]
  /\ pass \in [Instances -> PassRecord]
  /\ budget \in [{"turns", "decisions", "aborts"} -> Nat]

PassOK(i) ==
  /\ \A k \in pass[i].ids : alert[k] # NoAlert
  /\ pass[i].left \subseteq pass[i].found /\ pass[i].found \subseteq pass[i].live
  /\ pass[i].at \in {"upsert", "write"} => pass[i].key \in pass[i].left
  /\ pass[i].complete => pass[i].found = pass[i].live
  /\ pass[i].at = "resolve" => pass[i].ids \cap pass[i].live = {}

AlertInv == AlertShapes /\ \A i \in Instances : PassOK(i)

LEMMA AllFound ==
  ASSUME NEW found \in SUBSET Live, Cardinality(Live) <= Cap,
         Cardinality(found) = IF Cardinality(Live) <= Cap THEN Cardinality(Live) ELSE Cap
  PROVE  found = Live
<1>1. IsFiniteSet(Live)
  <2>1. Live \subseteq AlertKeys BY DEF Live
  <2>2. QED BY <2>1, FS_Subset
<1>2. Cardinality(found) = Cardinality(Live)
  OBVIOUS
<1>3. QED BY <1>1, <1>2, FS_Subset

LEMMA AlertInitInv == AlertInit => AlertInv
  BY DEF AlertInit, AlertInv, AlertShapes, PassOK, NoPass, PassRecord

LEMMA NoPassType == NoPass \in PassRecord
  BY DEF NoPass, PassRecord

(* What a step does to the rows: none is deleted, each keeps its shape.    *)
LEMMA GoesTyped ==
  ASSUME pass \in [Instances -> PassRecord], NEW i \in Instances, NEW p \in PassRecord, Goes(i, p)
  PROVE  pass' \in [Instances -> PassRecord]
  BY DEF Goes

LEMMA AlertTyped ==
  ASSUME NEW r \in Alert
  PROVE  /\ [r EXCEPT !.status = "OPEN", !.until = "none"] \in Alert
         /\ [r EXCEPT !.status = "RESOLVED", !.closed = TRUE] \in Alert
         /\ [r EXCEPT !.status = "ACKNOWLEDGED", !.until = "none"] \in Alert
         /\ [r EXCEPT !.status = "SNOOZED", !.until = "future"] \in Alert
         /\ [r EXCEPT !.status = "RESOLVED", !.until = "none", !.closed = TRUE] \in Alert
         /\ [r EXCEPT !.until = "past"] \in Alert
  BY DEF Alert, AlertStatus

LEMMA OpenedTyped == Opened \in Alert /\ Opened.status # "RESOLVED"
  BY DEF Alert, AlertStatus, Opened

(* What a step does to the rows: none is deleted, each keeps its shape.    *)
LEMMA RowsStand ==
  ASSUME AlertInv, AlertNext, NEW k \in AlertKeys
  PROVE  /\ alert'[k] \in Alert \cup {NoAlert}
         /\ alert[k] # NoAlert => alert'[k] # NoAlert
<1> USE DEF AlertInv, AlertShapes
<1>1. ASSUME alert'[k] = alert[k] \/ alert'[k] \in Alert
      PROVE  /\ alert'[k] \in Alert \cup {NoAlert}
             /\ alert[k] # NoAlert => alert'[k] # NoAlert
  BY <1>1
<1>2. ASSUME NEW i \in Instances, ReopenExpired(i)
      PROVE  alert'[k] = alert[k] \/ alert'[k] \in Alert
  <2>1. CASE k \in pass[i].ids
    <3>1. alert[k] \in Alert
      BY <2>1 DEF PassOK
    <3>2. alert'[k] = [alert[k] EXCEPT !.status = "OPEN", !.until = "none"]
      BY <1>2, <2>1 DEF ReopenExpired
    <3>3. QED BY <3>1, <3>2, AlertTyped
  <2>2. CASE k \notin pass[i].ids
    BY <1>2, <2>2 DEF ReopenExpired
  <2>3. QED BY <2>1, <2>2
<1>3. ASSUME NEW i \in Instances, ResolveStale(i)
      PROVE  alert'[k] = alert[k] \/ alert'[k] \in Alert
  <2>1. CASE k \in pass[i].ids
    <3>1. alert[k] \in Alert
      BY <2>1 DEF PassOK
    <3>2. alert'[k] = [alert[k] EXCEPT !.status = "RESOLVED", !.closed = TRUE]
      BY <1>3, <2>1 DEF ResolveStale
    <3>3. QED BY <3>1, <3>2, AlertTyped
  <2>2. CASE k \notin pass[i].ids
    BY <1>3, <2>2 DEF ResolveStale
  <2>3. QED BY <2>1, <2>2
<1>4. ASSUME NEW i \in Instances, UpsertWrite(i)
      PROVE  alert'[k] = alert[k] \/ alert'[k] \in Alert
  BY <1>4, OpenedTyped DEF UpsertWrite
<1>5. ASSUME NEW l \in AlertKeys, NEW r \in Alert, Decide(l, r)
      PROVE  alert'[k] = alert[k] \/ alert'[k] \in Alert
  BY <1>5 DEF Decide
<1>6. ASSUME NEW l \in AlertKeys, Known(l)
      PROVE  alert[l] \in Alert
  BY <1>6 DEF Known
<1>7. ASSUME NEW l \in AlertKeys, Acknowledge(l)
      PROVE  alert'[k] = alert[k] \/ alert'[k] \in Alert
  <2>1. alert[l] \in Alert
    BY <1>6, <1>7 DEF Acknowledge, Decide
  <2>2. QED BY <1>5, <1>7, <2>1, AlertTyped DEF Acknowledge
<1>8. ASSUME NEW l \in AlertKeys, Snooze(l)
      PROVE  alert'[k] = alert[k] \/ alert'[k] \in Alert
  <2>1. alert[l] \in Alert
    BY <1>6, <1>8 DEF Snooze, Decide
  <2>2. QED BY <1>5, <1>8, <2>1, AlertTyped DEF Snooze
<1>9. ASSUME NEW l \in AlertKeys, ResolveAlert(l)
      PROVE  alert'[k] = alert[k] \/ alert'[k] \in Alert
  <2>1. alert[l] \in Alert
    BY <1>6, <1>9 DEF ResolveAlert, Decide
  <2>2. QED BY <1>5, <1>9, <2>1, AlertTyped DEF ResolveAlert
<1>10. ASSUME NEW l \in AlertKeys, SnoozeEnds(l)
       PROVE  alert'[k] = alert[k] \/ alert'[k] \in Alert
  <2>1. alert[l] \in Alert
    BY <1>6, <1>10 DEF SnoozeEnds
  <2>2. alert'[k] = alert[k] \/ alert'[k] = [alert[l] EXCEPT !.until = "past"]
    BY <1>10 DEF SnoozeEnds
  <2>3. QED BY <2>1, <2>2, AlertTyped
<1>11. ASSUME NEW i \in Instances,
              \/ ReadExpired(i) \/ Collect(i) \/ (\E l \in AlertKeys : LookUp(i, l))
              \/ UpsertRead(i) \/ ReadStale(i) \/ AbortPass(i)
       PROVE  UNCHANGED alert
  BY <1>11 DEF ReadExpired, Collect, LookUp, UpsertRead, ReadStale, AbortPass
<1>12. ASSUME NEW l \in AlertKeys, CauseTurns(l)
       PROVE  UNCHANGED alert
  BY <1>12 DEF CauseTurns
<1>13. alert' = alert => alert'[k] = alert[k]
  OBVIOUS
<1>14. QED
  BY <1>1, <1>2, <1>3, <1>4, <1>7, <1>8, <1>9, <1>10, <1>11, <1>12, <1>13 DEF AlertNext, PassStep

LEMMA AlertShapesStep ==
  ASSUME AlertInv, AlertNext
  PROVE  AlertShapes'
<1> USE NoPassType DEF AlertInv, AlertShapes
<1>1. alert' \in [AlertKeys -> Alert \cup {NoAlert}]
  <2> DEFINE Keyed == alert' = [k \in AlertKeys |-> alert'[k]]
  <2>1. ASSUME NEW i \in Instances, ReopenExpired(i) \/ ResolveStale(i)
        PROVE  Keyed
    BY <2>1 DEF ReopenExpired, ResolveStale
  <2>2. ASSUME NEW i \in Instances, UpsertWrite(i)
        PROVE  Keyed
    BY <2>2 DEF UpsertWrite
  <2>3. ASSUME NEW k \in AlertKeys, NEW r, Decide(k, r)
        PROVE  Keyed
    BY <2>3 DEF Decide
  <2>4. ASSUME NEW k \in AlertKeys, SnoozeEnds(k)
        PROVE  Keyed
    BY <2>4 DEF SnoozeEnds
  <2>5. alert' = alert => Keyed
    OBVIOUS
  <2>6. Keyed
    <3> HIDE DEF Keyed
    <3>1. ASSUME NEW i \in Instances, PassStep(i) \/ AbortPass(i)
          PROVE  Keyed
      BY <2>1, <2>2, <2>5, <3>1 DEF PassStep, ReadExpired, Collect, LookUp, UpsertRead, ReadStale, AbortPass
    <3>2. ASSUME NEW k \in AlertKeys, Acknowledge(k) \/ Snooze(k) \/ ResolveAlert(k)
          PROVE  Keyed
      BY <2>3, <3>2 DEF Acknowledge, Snooze, ResolveAlert
    <3>3. ASSUME NEW k \in AlertKeys, CauseTurns(k)
          PROVE  Keyed
      BY <2>5, <3>3 DEF CauseTurns
    <3>4. QED BY <2>4, <3>1, <3>2, <3>3 DEF AlertNext
  <2>7. QED BY <2>6, RowsStand
<1>2. pass' \in [Instances -> PassRecord]
  <2>1. ASSUME NEW i \in Instances, PassStep(i) \/ AbortPass(i)
        PROVE  \E p \in PassRecord : Goes(i, p)
    <3>1. CASE ReadExpired(i)
      BY <3>1 DEF ReadExpired, NoPass, PassRecord
    <3>2. CASE ReopenExpired(i)
      BY <3>2 DEF ReopenExpired, NoPass, PassRecord
    <3>3. CASE Collect(i)
      <4>1. PICK found \in SUBSET Live :
               Goes(i, [NoPass EXCEPT !.at = "candidates", !.found = found, !.left = found,
                                      !.complete = Cardinality(Live) <= Cap, !.live = Live])
        BY <3>3 DEF Collect
      <4>2. Live \subseteq AlertKeys
        BY DEF Live
      <4>3. \A b \in BOOLEAN :
              [NoPass EXCEPT !.at = "candidates", !.found = found, !.left = found,
                             !.complete = b, !.live = Live] \in PassRecord
        BY <4>2 DEF NoPass, PassRecord
      <4>4. (Cardinality(Live) <= Cap) \in BOOLEAN
        OBVIOUS
      <4>5. QED BY <4>1, <4>3, <4>4
    <3>4. ASSUME NEW k \in AlertKeys, LookUp(i, k)
          PROVE  \E p \in PassRecord : Goes(i, p)
      <4>1. [pass[i] EXCEPT !.left = @ \ {k}] \in PassRecord
        BY DEF PassRecord
      <4>2. [pass[i] EXCEPT !.at = "upsert", !.key = k] \in PassRecord
        BY DEF PassRecord
      <4>3. QED BY <3>4, <4>1, <4>2 DEF LookUp
    <3>5. CASE UpsertRead(i)
      <4>1. \A b \in BOOLEAN : [pass[i] EXCEPT !.at = "write", !.reopen = b] \in PassRecord
        BY DEF PassRecord
      <4>2. QED BY <3>5, <4>1 DEF UpsertRead
    <3>6. CASE UpsertWrite(i)
      BY <3>6 DEF UpsertWrite, PassRecord
    <3>7. CASE ReadStale(i)
      BY <3>7 DEF ReadStale, PassRecord
    <3>8. CASE ResolveStale(i) \/ AbortPass(i)
      BY <3>8 DEF ResolveStale, AbortPass
    <3>9. QED BY <2>1, <3>1, <3>2, <3>3, <3>4, <3>5, <3>6, <3>7, <3>8 DEF PassStep
  <2>2. ASSUME NEW k \in AlertKeys,
               Acknowledge(k) \/ Snooze(k) \/ ResolveAlert(k) \/ SnoozeEnds(k) \/ CauseTurns(k)
        PROVE  UNCHANGED pass
    BY <2>2 DEF Acknowledge, Snooze, ResolveAlert, SnoozeEnds, CauseTurns, Decide
  <2>3. QED BY <2>1, <2>2, GoesTyped DEF AlertNext
<1>3. cause' \in [AlertKeys -> BOOLEAN]
  BY DEF AlertNext, PassStep, ReadExpired, ReopenExpired, Collect, LookUp, UpsertRead, UpsertWrite,
         ReadStale, ResolveStale, AbortPass, Acknowledge, Snooze, ResolveAlert, Decide, SnoozeEnds,
         CauseTurns
<1>4. budget' \in [{"turns", "decisions", "aborts"} -> Nat]
  <2>1. ASSUME NEW what \in {"turns", "decisions", "aborts"}, NEW max, Spend(what, max)
        PROVE  budget' \in [{"turns", "decisions", "aborts"} -> Nat]
    BY <2>1 DEF Spend
  <2>2. ASSUME NEW i \in Instances, PassStep(i)
        PROVE  UNCHANGED budget
    BY <2>2 DEF PassStep, ReadExpired, ReopenExpired, Collect, LookUp, UpsertRead, UpsertWrite,
                ReadStale, ResolveStale
  <2>3. QED
    BY <2>1, <2>2 DEF AlertNext, AbortPass, Acknowledge, Snooze, ResolveAlert, Decide, SnoozeEnds,
                      CauseTurns
<1>5. QED BY <1>1, <1>2, <1>3, <1>4

LEMMA PassOKStep ==
  ASSUME AlertInv, AlertNext, NEW j \in Instances
  PROVE  PassOK(j)'
<1> USE NoPassType DEF AlertInv, AlertShapes, Goes, At
<1>1. \A k \in AlertKeys : alert[k] # NoAlert => alert'[k] # NoAlert
  BY RowsStand
<1>2. ASSUME pass'[j] = pass[j] \/ pass'[j] = [NoPass EXCEPT !.at = "collect"] \/ pass'[j] = NoPass
      PROVE  PassOK(j)'
  BY <1>1, <1>2 DEF PassOK, PassRecord, NoPass
<1>3. ASSUME NEW i \in Instances, ReadExpired(i)
      PROVE  PassOK(j)'
  <2>1. CASE i = j
    BY <1>3, <2>1 DEF ReadExpired, NoPass, PassOK, Known
  <2>2. QED BY <1>2, <1>3, <2>1 DEF ReadExpired
<1>4. ASSUME NEW i \in Instances, Collect(i)
      PROVE  PassOK(j)'
  <2>1. CASE i = j
    <3>1. PICK found \in SUBSET Live :
             /\ Cardinality(found) = (IF Cardinality(Live) <= Cap THEN Cardinality(Live) ELSE Cap)
             /\ Goes(i, [NoPass EXCEPT !.at = "candidates", !.found = found, !.left = found,
                                       !.complete = Cardinality(Live) <= Cap, !.live = Live])
      BY <1>4 DEF Collect
    <3>2. Cardinality(Live) <= Cap => found = Live
      BY <3>1, AllFound
    <3>3. QED BY <2>1, <3>1, <3>2 DEF PassOK, NoPass
  <2>2. QED BY <1>2, <1>4, <2>1 DEF Collect
<1>5. ASSUME NEW i \in Instances, NEW k \in AlertKeys, LookUp(i, k)
      PROVE  PassOK(j)'
  BY <1>2, <1>5 DEF LookUp, PassOK, PassRecord
<1>6. ASSUME NEW i \in Instances, UpsertRead(i)
      PROVE  PassOK(j)'
  <2>1. CASE i = j
    <3>1. \E b \in BOOLEAN : pass'[j] = [pass[j] EXCEPT !.at = "write", !.reopen = b]
      BY <1>6, <2>1 DEF UpsertRead
    <3>2. UNCHANGED alert /\ pass[j].at = "upsert"
      BY <1>6, <2>1 DEF UpsertRead
    <3>3. QED BY <3>1, <3>2 DEF PassOK, PassRecord
  <2>2. QED BY <1>2, <1>6, <2>1 DEF UpsertRead
<1>7. ASSUME NEW i \in Instances, UpsertWrite(i)
      PROVE  PassOK(j)'
  <2>1. CASE i = j
    <3>1. pass'[j] = [pass[j] EXCEPT !.at = "candidates", !.left = @ \ {pass[j].key}]
      BY <1>7, <2>1 DEF UpsertWrite
    <3>2. QED BY <3>1, <1>1 DEF PassOK, PassRecord
  <2>2. QED BY <1>2, <1>7, <2>1 DEF UpsertWrite
<1>8. ASSUME NEW i \in Instances, ReadStale(i)
      PROVE  PassOK(j)'
  <2>1. CASE i = j
    BY <1>8, <2>1 DEF ReadStale, PassOK, PassRecord, Active, Known
  <2>2. QED BY <1>2, <1>8, <2>1 DEF ReadStale
<1>9. ASSUME NEW i \in Instances, ReopenExpired(i) \/ ResolveStale(i) \/ AbortPass(i)
      PROVE  PassOK(j)'
  BY <1>2, <1>9 DEF ReopenExpired, ResolveStale, AbortPass
<1>10. ASSUME UNCHANGED pass
       PROVE  PassOK(j)'
  BY <1>2, <1>10
<1>11. ASSUME NEW k \in AlertKeys,
              Acknowledge(k) \/ Snooze(k) \/ ResolveAlert(k) \/ SnoozeEnds(k) \/ CauseTurns(k)
       PROVE  UNCHANGED pass
  BY <1>11 DEF Acknowledge, Snooze, ResolveAlert, SnoozeEnds, CauseTurns, Decide
<1>12. QED
  BY <1>3, <1>4, <1>5, <1>6, <1>7, <1>8, <1>9, <1>10, <1>11 DEF AlertNext, PassStep

LEMMA AlertInvStep == AlertInv /\ [AlertNext]_alertVars => AlertInv'
<1>1. AlertInv /\ AlertNext => AlertInv'
  BY AlertShapesStep, PassOKStep DEF AlertInv
<1>2. AlertInv /\ UNCHANGED alertVars => AlertInv'
  BY DEF AlertInv, AlertShapes, PassOK, alertVars
<1>3. QED BY <1>1, <1>2

LEMMA AlertInvTypes == AlertInv => AlertTypeOK
  BY DEF AlertInv, AlertShapes, PassOK, AlertTypeOK, Known, PassRecord

LEMMA ResolvingStep ==
  ASSUME AlertInv, [AlertNext]_alertVars, NEW k \in AlertKeys, Active(k), ~Active(k)', budget' = budget
  PROVE  \E i \in Instances : pass[i].at = "resolve" /\ k \notin pass[i].live
<1> USE DEF AlertInv, AlertShapes
<1>1. /\ alert'[k] # alert[k]
      /\ alert'[k] \in Alert => alert'[k].status = "RESOLVED"
  BY DEF Active, Known
<1>2. ASSUME NEW i \in Instances, ResolveStale(i)
      PROVE  pass[i].at = "resolve" /\ k \notin pass[i].live
  <2>1. k \in pass[i].ids
    <3>1. k \notin pass[i].ids => alert'[k] = alert[k]
      BY <1>2 DEF ResolveStale
    <3>2. QED BY <1>1, <3>1
  <2>2. QED BY <1>2, <2>1 DEF ResolveStale, At, PassOK
<1>3. ASSUME NEW i \in Instances, ReopenExpired(i)
      PROVE  FALSE
  <2>1. alert'[k] = alert[k] \/ alert'[k] = [alert[k] EXCEPT !.status = "OPEN", !.until = "none"]
    BY <1>3 DEF ReopenExpired
  <2>2. QED BY <1>1, <2>1 DEF Active, Known, Alert, AlertStatus
<1>4. ASSUME NEW i \in Instances, UpsertWrite(i)
      PROVE  FALSE
  <2>1. alert'[k] = alert[k] \/ alert'[k] = Opened
    BY <1>4 DEF UpsertWrite, PassOK
  <2>2. QED BY <1>1, <2>1, OpenedTyped
<1>5. ASSUME NEW l \in AlertKeys, SnoozeEnds(l)
      PROVE  FALSE
  <2>1. alert'[k] = alert[k] \/ alert'[k] = [alert[k] EXCEPT !.until = "past"]
    BY <1>5 DEF SnoozeEnds
  <2>2. QED BY <1>1, <2>1 DEF Active, Known, Alert, AlertStatus
<1>6. ASSUME NEW l \in AlertKeys, Acknowledge(l) \/ Snooze(l) \/ ResolveAlert(l)
      PROVE  FALSE
  BY <1>6 DEF Acknowledge, Snooze, ResolveAlert, Decide, Spend
<1>7. ASSUME UNCHANGED alert
      PROVE  FALSE
  BY <1>1, <1>7
<1>8. ASSUME NEW i \in Instances,
             \/ ReadExpired(i) \/ Collect(i) \/ (\E l \in AlertKeys : LookUp(i, l))
             \/ UpsertRead(i) \/ ReadStale(i) \/ AbortPass(i)
      PROVE  UNCHANGED alert
  BY <1>8 DEF ReadExpired, Collect, LookUp, UpsertRead, ReadStale, AbortPass
<1>9. ASSUME NEW l \in AlertKeys, CauseTurns(l)
      PROVE  UNCHANGED alert
  BY <1>9 DEF CauseTurns
<1>10. ASSUME UNCHANGED alertVars
       PROVE  UNCHANGED alert
  BY <1>10 DEF alertVars
<1>11. QED
  BY <1>2, <1>3, <1>4, <1>5, <1>6, <1>7, <1>8, <1>9, <1>10 DEF AlertNext, PassStep

\* A pass of operations-reconciler.service.ts resolves no alert whose cause was
\* there when it looked: having left causes out, it resolves nothing.
THEOREM ResolvedWhenGone == AlertSpec => ResolvedOnlyWhenGone
<1>1. AlertSpec => []AlertInv
  BY AlertInitInv, AlertInvStep, PTL DEF AlertSpec
<1>2. AlertInv /\ [AlertNext]_alertVars
        => [\A k \in AlertKeys : Active(k) /\ ~Active(k)' /\ budget' = budget
              => \E i \in Instances : pass[i].at = "resolve" /\ k \notin pass[i].live]_alertVars
  BY ResolvingStep
<1>3. QED
  BY <1>1, <1>2, PTL DEF AlertSpec, ResolvedOnlyWhenGone

-----------------------------------------------------------------------------
(* Findings of inventory quality.                                          *)

RunState == [at : {"idle", "detect", "candidates", "write", "resolve"},
             scope : Sites \cup {Everywhere}, detected : SUBSET Facts, left : SUBSET Facts,
             key : Facts \cup {NoFinding}, reopen : BOOLEAN, ids : SUBSET Facts, daily : BOOLEAN]

QualityShapes ==
  /\ true \subseteq Facts
  /\ finding \in [Facts -> Finding \cup {NoFinding}]
  /\ run \in [Runners -> RunState]
  /\ trigger \in {"none", "waiting", "active", "failed"}

(* What a pass has read is still there to be written.                      *)
RunOK(r) ==
  /\ run[r].left \subseteq run[r].detected
  /\ run[r].at = "write" => run[r].key \in run[r].left
  /\ \A f \in run[r].ids : finding[f] # NoFinding

TriggerOK == trigger = "active" => run["worker"].at # "idle" /\ ~run["worker"].daily

QualityInv == QualityShapes /\ (\A r \in Runners : RunOK(r)) /\ TriggerOK

LEMMA NoRunTyped ==
  /\ NoRun \in RunState /\ NoRun.ids = {} /\ NoRun.left = {} /\ NoRun.at = "idle"
  /\ \A scope \in Sites \cup {Everywhere}, daily \in BOOLEAN :
       LET p == [NoRun EXCEPT !.at = "detect", !.scope = scope, !.daily = daily]
       IN /\ p \in RunState /\ p.ids = {} /\ p.left = {} /\ p.at = "detect" /\ p.daily = daily
  BY DEF NoRun, RunState

LEMMA QualityInitInv == QualityInit => QualityInv
  BY NoRunTyped DEF QualityInit, QualityInv, QualityShapes, RunOK, TriggerOK

LEMMA QualityInvTypes == QualityInv => QualityTypeOK
  BY DEF QualityInv, QualityShapes, RunOK, TriggerOK, QualityTypeOK, Listed

(* A step of one runner: it has a state of its own, the rows stay.         *)
LEMMA RunnerStep ==
  ASSUME QualityInv, NEW r \in Runners, NEW p \in RunState, run' = [run EXCEPT ![r] = p],
         finding' \in [Facts -> Finding \cup {NoFinding}],
         \A f \in Facts : finding[f] # NoFinding => finding'[f] # NoFinding,
         p.left \subseteq p.detected, p.at = "write" => p.key \in p.left,
         \A f \in p.ids : finding[f] # NoFinding,
         true' \subseteq Facts, trigger' \in {"none", "waiting", "active", "failed"},
         trigger' = "active" =>
           IF r = "worker" THEN p.at # "idle" /\ ~p.daily ELSE trigger = "active"
  PROVE  QualityInv'
<1> USE DEF QualityInv, QualityShapes
<1>1. QualityShapes'
  OBVIOUS
<1>2. ASSUME NEW q \in Runners
      PROVE  RunOK(q)'
  <2>1. CASE q = r
    BY <2>1 DEF RunOK, RunState
  <2>2. CASE q # r
    BY <2>2 DEF RunOK, RunState
  <2>3. QED BY <2>1, <2>2
<1>3. TriggerOK'
  <2>1. CASE r = "worker"
    BY <2>1 DEF TriggerOK
  <2>2. CASE r # "worker"
    BY <2>2 DEF TriggerOK, Runners
  <2>3. QED BY <2>1, <2>2
<1>4. QED BY <1>1, <1>2, <1>3

LEMMA BeginsStep ==
  ASSUME QualityInv, NEW r \in Runners, NEW scope \in Sites \cup {Everywhere}, NEW daily \in BOOLEAN,
         Begins(r, scope, daily), UNCHANGED <<true, finding>>,
         trigger' \in {"none", "waiting", "active", "failed"},
         trigger' = "active" => IF r = "worker" THEN ~daily ELSE trigger = "active"
  PROVE  QualityInv'
<1> DEFINE p == [NoRun EXCEPT !.at = "detect", !.scope = scope, !.daily = daily]
<1>1. p \in RunState /\ p.ids = {} /\ p.left = {} /\ p.at = "detect" /\ p.daily = daily
  BY NoRunTyped
<1>2. run' = [run EXCEPT ![r] = p]
  BY DEF Begins
<1> HIDE DEF p
<1>3. QED BY <1>1, <1>2, RunnerStep DEF QualityInv, QualityShapes

LEMMA StartStep ==
  ASSUME QualityInv,
         \/ \E f \in Facts, told \in Told : Mutate(f, told)
         \/ TakeTrigger \/ Daily \/ \E scope \in Sites \cup {Everywhere} : Ask(scope)
  PROVE  QualityInv'
<1>1. ASSUME NEW f \in Facts, NEW told \in Told, Mutate(f, told)
      PROVE  QualityInv'
  BY <1>1 DEF Mutate, QualityInv, QualityShapes, RunOK, TriggerOK
<1>2. CASE TakeTrigger
  BY <1>2, BeginsStep DEF TakeTrigger, Runners
<1>3. CASE Daily
  <2>1. trigger # "active"
    BY <1>3 DEF Daily, QualityInv, TriggerOK
  <2>2. QED BY <1>3, <2>1, BeginsStep DEF Daily, Runners, QualityInv, QualityShapes
<1>4. ASSUME NEW scope \in Sites \cup {Everywhere}, Ask(scope)
      PROVE  QualityInv'
  BY <1>4, BeginsStep DEF Ask, Runners, QualityInv, QualityShapes
<1>5. QED BY <1>1, <1>2, <1>3, <1>4

(* reconcileSite, one statement at a time.                                 *)
LEMMA StatementStep ==
  ASSUME QualityInv, NEW r \in Runners, RunStep(r)
  PROVE  QualityInv'
<1> DEFINE p == run[r]
<1>0. p \in RunState /\ RunOK(r)
  BY DEF QualityInv, QualityShapes
<1>1. CASE Detect(r)
  <2> DEFINE D == Detected(p.scope)
             q == [p EXCEPT !.at = "candidates", !.detected = D, !.left = D]
  <2>1. D \in SUBSET Facts
    BY DEF Detected, QualityInv, QualityShapes
  <2> HIDE DEF D
  <2>2. q \in RunState /\ q.left = D /\ q.detected = D /\ q.at = "candidates" /\ q.ids = p.ids /\ q.daily = p.daily
    BY <1>0, <2>1 DEF RunState
  <2>3. run' = [run EXCEPT ![r] = q] /\ UNCHANGED <<true, finding, trigger>> /\ p.at = "detect"
    BY <1>1 DEF Detect, D, QualityInv, QualityShapes
  <2> HIDE DEF q
  <2>4. QED BY <1>0, <2>2, <2>3, RunnerStep DEF QualityInv, QualityShapes, RunOK, TriggerOK
<1>2. ASSUME NEW f \in Facts, ReadFinding(r, f)
      PROVE  QualityInv'
  <2>1. PICK b \in BOOLEAN :
          run' = [run EXCEPT ![r] = [p EXCEPT !.at = "write", !.key = f, !.reopen = b]]
    BY <1>2 DEF ReadFinding, QualityInv, QualityShapes
  <2> DEFINE q == [p EXCEPT !.at = "write", !.key = f, !.reopen = b]
  <2>2. /\ q \in RunState /\ q.left = p.left /\ q.detected = p.detected /\ q.key = f /\ q.at = "write"
        /\ q.ids = p.ids /\ q.daily = p.daily
    BY <1>0 DEF RunState
  <2>3. run' = [run EXCEPT ![r] = q]
    BY <2>1
  <2>4. f \in p.left /\ p.at = "candidates" /\ UNCHANGED <<true, finding, trigger>>
    BY <1>2 DEF ReadFinding
  <2> HIDE DEF q
  <2>5. QED BY <1>0, <2>2, <2>3, <2>4, RunnerStep DEF QualityInv, QualityShapes, RunOK, TriggerOK
<1>3. CASE WriteFinding(r)
  <2> DEFINE f == p.key
             q == [p EXCEPT !.at = "candidates", !.left = @ \ {f}]
  <2>1. f \in Facts /\ p.at = "write"
    BY <1>0, <1>3 DEF WriteFinding, RunOK, RunState
  <2>2. PICK s \in IF SitesOf[f] = {} THEN {Everywhere} ELSE SitesOf[f] :
          finding' = [finding EXCEPT ![f] =
            IF ~Listed(f) \/ p.reopen THEN [status |-> "OPEN", until |-> "none", site |-> s]
                                      ELSE [finding[f] EXCEPT !.site = s]]
    BY <1>3 DEF WriteFinding
  <2>3. s \in Sites \cup {Everywhere}
    BY <2>1, <2>2
  <2>4. /\ [status |-> "OPEN", until |-> "none", site |-> s] \in Finding
        /\ finding[f] # NoFinding => [finding[f] EXCEPT !.site = s] \in Finding
    BY <2>1, <2>3 DEF Finding, QualityInv, QualityShapes
  <2>5. /\ finding' \in [Facts -> Finding \cup {NoFinding}]
        /\ \A g \in Facts : finding[g] # NoFinding => finding'[g] # NoFinding
    <3>1. PICK row \in Finding : finding' = [finding EXCEPT ![f] = row]
      BY <2>2, <2>4 DEF Listed
    <3>2. QED BY <2>1, <3>1 DEF QualityInv, QualityShapes
  <2>6. /\ q \in RunState /\ q.left \subseteq p.left /\ q.detected = p.detected /\ q.at = "candidates"
        /\ q.ids = p.ids /\ q.daily = p.daily
    BY <1>0 DEF RunState
  <2>7. run' = [run EXCEPT ![r] = q] /\ UNCHANGED <<true, trigger>>
    BY <1>3 DEF WriteFinding, QualityInv, QualityShapes
  <2> HIDE DEF q
  <2>8. q.left \subseteq q.detected /\ \A g \in q.ids : finding[g] # NoFinding
    BY <1>0, <2>6 DEF RunOK
  <2>9. /\ true' \subseteq Facts /\ trigger' \in {"none", "waiting", "active", "failed"}
        /\ trigger' = "active" => IF r = "worker" THEN q.at # "idle" /\ ~q.daily ELSE trigger = "active"
    BY <2>6, <2>7 DEF QualityInv, QualityShapes, TriggerOK
  <2>10. QED BY <2>5, <2>6, <2>7, <2>8, <2>9, RunnerStep
<1>4. CASE ReadUndetected(r)
  <2> DEFINE gone == {f \in Facts \ p.detected :
                        Unresolved(f) /\ p.scope \in {Everywhere, finding[f].site}}
             q == [p EXCEPT !.at = "resolve", !.ids = gone]
  <2>1. gone \in SUBSET Facts /\ \A f \in gone : finding[f] # NoFinding
    BY DEF Unresolved, Listed
  <2>2. run' = [run EXCEPT ![r] = q] /\ p.at = "candidates" /\ UNCHANGED <<true, finding, trigger>>
    BY <1>4 DEF ReadUndetected, QualityInv, QualityShapes
  <2> HIDE DEF gone
  <2>3. /\ q \in RunState /\ q.left = p.left /\ q.detected = p.detected /\ q.at = "resolve"
        /\ q.ids = gone /\ q.daily = p.daily
    BY <1>0, <2>1 DEF RunState
  <2> HIDE DEF q
  <2>4. QED BY <1>0, <2>1, <2>2, <2>3, RunnerStep DEF QualityInv, QualityShapes, RunOK, TriggerOK
<1>5. CASE ResolveUndetected(r)
  <2>1. ASSUME NEW f \in Facts
        PROVE  /\ finding'[f] \in Finding \cup {NoFinding}
               /\ finding[f] # NoFinding => finding'[f] # NoFinding
    <3>1. CASE f \in p.ids
      <4>1. finding[f] \in Finding
        BY <1>0, <3>1 DEF RunOK, QualityInv, QualityShapes
      <4>2. finding'[f] = [finding[f] EXCEPT !.status = "RESOLVED", !.until = "none"]
        BY <1>5, <3>1 DEF ResolveUndetected
      <4>3. finding'[f] \in Finding
        BY <4>1, <4>2 DEF Finding
      <4>4. QED BY <4>3
    <3>2. CASE f \notin p.ids
      BY <1>5, <3>2 DEF ResolveUndetected, QualityInv, QualityShapes
    <3>3. QED BY <3>1, <3>2
  <2>2. finding' \in [Facts -> Finding \cup {NoFinding}]
    <3>1. finding' = [f \in Facts |-> finding'[f]]
      BY <1>5 DEF ResolveUndetected
    <3>2. QED BY <2>1, <3>1
  <2>3. /\ run' = [run EXCEPT ![r] = NoRun] /\ UNCHANGED true
        /\ trigger' = IF r = "worker" /\ ~p.daily THEN "none" ELSE trigger
    BY <1>5 DEF ResolveUndetected
  <2>4. trigger' \in {"none", "waiting", "active", "failed"}
    BY <2>3 DEF QualityInv, QualityShapes
  <2>5. trigger' = "active" => r # "worker" /\ trigger = "active"
    BY <2>3 DEF QualityInv, TriggerOK
  <2>6. QED BY <2>1, <2>2, <2>3, <2>4, <2>5, NoRunTyped, RunnerStep DEF QualityInv, QualityShapes
<1>6. QED BY <1>1, <1>2, <1>3, <1>4, <1>5 DEF RunStep

LEMMA BreakStep ==
  ASSUME QualityInv, NEW r \in Runners, BreakRun(r)
  PROVE  QualityInv'
<1>1. /\ run' = [run EXCEPT ![r] = NoRun] /\ UNCHANGED <<true, finding>>
      /\ trigger' \in IF r = "worker" /\ ~run[r].daily THEN {"failed", "waiting"} ELSE {trigger}
  BY DEF BreakRun
<1>2. trigger' \in {"none", "waiting", "active", "failed"}
  BY <1>1 DEF QualityInv, QualityShapes
<1>3. trigger' = "active" => r # "worker" /\ trigger = "active"
  BY <1>1 DEF QualityInv, TriggerOK
<1>4. QED BY <1>1, <1>2, <1>3, NoRunTyped, RunnerStep DEF QualityInv, QualityShapes

(* Operators, and time, change a finding that is there.                    *)
LEMMA ReviewedStep ==
  ASSUME QualityInv, NEW f \in Facts,
         AcknowledgeFinding(f) \/ SnoozeFinding(f) \/ FindingSnoozeEnds(f)
  PROVE  QualityInv'
<1>1. finding[f] \in Finding
  BY DEF AcknowledgeFinding, SnoozeFinding, FindingSnoozeEnds, Review, Listed, QualityInv, QualityShapes
<1>2. /\ [finding[f] EXCEPT !.status = "ACKNOWLEDGED", !.until = "none"] \in Finding
      /\ [finding[f] EXCEPT !.status = "SNOOZED", !.until = "future"] \in Finding
      /\ [finding[f] EXCEPT !.until = "past"] \in Finding
  BY <1>1 DEF Finding
<1>3. PICK row \in Finding : finding' = [finding EXCEPT ![f] = row]
  BY <1>2 DEF AcknowledgeFinding, SnoozeFinding, FindingSnoozeEnds, Review
<1>4. UNCHANGED <<true, run, trigger>>
  BY DEF AcknowledgeFinding, SnoozeFinding, FindingSnoozeEnds, Review
<1>5. QED BY <1>3, <1>4 DEF QualityInv, QualityShapes, RunOK, TriggerOK, RunState

LEMMA QualityInvStep == QualityInv /\ [QualityNext]_qualityVars => QualityInv'
<1>1. ASSUME QualityInv, UNCHANGED qualityVars
      PROVE  QualityInv'
  BY <1>1 DEF QualityInv, QualityShapes, RunOK, TriggerOK, qualityVars
<1>2. QED
  BY <1>1, StartStep, StatementStep, BreakStep, ReviewedStep DEF QualityNext

-----------------------------------------------------------------------------
(* The stream of alerts and the panel.                                     *)

PanelState == [on : BOOLEAN, polling : BOOLEAN, shows : Nat]

StreamInv ==
  /\ StreamTypeOK
  /\ panel \in PanelState
  /\ coming \in BOOLEAN

LEMMA StreamInitInv == StreamInit => StreamInv
<1> SUFFICES ASSUME StreamInit PROVE StreamInv
  OBVIOUS
<1>1. ~coming /\ coming \in BOOLEAN
  BY DEF StreamInit
<1>2. QED
  BY <1>1 DEF StreamInit, StreamInv, StreamTypeOK, PanelState

(* What the panel shows stays, or is an answer; loads grow by the present. *)
LEMMA StreamInvStep == StreamInv /\ [StreamNext]_streamVars => StreamInv'
<1> SUFFICES ASSUME StreamInv, [StreamNext]_streamVars
             PROVE  StreamInv'
  OBVIOUS
<1> USE DEF StreamInv, StreamTypeOK
<1>1. /\ \A on, polling \in BOOLEAN :
           /\ [panel EXCEPT !.on = on, !.polling = polling] \in PanelState
           /\ [panel EXCEPT !.on = on, !.polling = polling].shows = panel.shows
           /\ [panel EXCEPT !.on = on, !.polling = polling].on = on
      /\ \A v \in Nat :
           /\ [panel EXCEPT !.shows = v] \in PanelState
           /\ [panel EXCEPT !.shows = v].shows = v /\ [panel EXCEPT !.shows = v].on = panel.on
  BY DEF PanelState
<1>2. ASSUME NEW on \in BOOLEAN, NEW polling \in BOOLEAN, Fallback(on, polling)
      PROVE  /\ panel' \in PanelState /\ panel'.shows = panel.shows /\ panel'.on = on
             /\ loads' \subseteq 0 .. version
  <2>1. panel' = [panel EXCEPT !.on = on, !.polling = polling]
    BY <1>2 DEF Fallback
  <2>2. loads' = loads \/ loads' = loads \cup {version}
    BY <1>2 DEF Fallback, Loads
  <2>3. version \in 0 .. version
    OBVIOUS
  <2>4. loads' \subseteq 0 .. version
    BY <2>2, <2>3
  <2>5. QED BY <1>1, <2>1, <2>4
<1>3. ASSUME NEW w \in Writers, Change(w)
      PROVE  StreamInv'
  BY <1>3 DEF Change
<1>4. ASSUME NEW w \in Writers, Publish(w)
      PROVE  StreamInv'
  <2>1. PICK heard \in BOOLEAN : Deliver(heard)
    BY <1>4 DEF Publish
  <2>2. coming' \in BOOLEAN /\ (coming' => panel.on)
    BY <2>1 DEF Deliver, PanelState
  <2>3. QED BY <1>4, <2>2 DEF Publish
<1>5. ASSUME NEW l \in Links, Cut(l) \/ Reconnect(l)
      PROVE  StreamInv'
  <2>1. UNCHANGED <<version, owed, coming, panel, loads>>
    BY <1>5 DEF Cut, Reconnect
  <2>2. QED BY <2>1
<1>6. CASE Heartbeat
  <2>1. PICK polling \in BOOLEAN : Fallback(TRUE, polling)
    BY <1>6 DEF Heartbeat
  <2>2. /\ panel' \in PanelState /\ panel'.shows = panel.shows /\ panel'.on = TRUE
        /\ loads' \subseteq 0 .. version
    BY <1>2, <2>1
  <2>3. UNCHANGED <<version, owed, coming>>
    BY <1>6 DEF Heartbeat
  <2>4. QED BY <2>2, <2>3
<1>7. CASE Connect
  <2>1. /\ panel' \in PanelState /\ panel'.shows = panel.shows /\ panel'.on = TRUE
        /\ loads' \subseteq 0 .. version
    BY <1>2, <1>7 DEF Connect
  <2>2. UNCHANGED <<version, owed>> /\ coming' \in BOOLEAN
    BY <1>7 DEF Connect
  <2>3. QED BY <2>1, <2>2
<1>8. CASE Disconnect
  <2>1. /\ panel' \in PanelState /\ panel'.shows = panel.shows
        /\ loads' \subseteq 0 .. version
    BY <1>2, <1>8 DEF Disconnect
  <2>2. UNCHANGED <<version, owed>> /\ coming' \in BOOLEAN /\ ~coming'
    BY <1>8 DEF Disconnect
  <2>3. QED BY <2>1, <2>2
<1>9. CASE HearEvent
  <2>1. UNCHANGED <<version, owed, panel>> /\ coming' \in BOOLEAN /\ ~coming'
    BY <1>9 DEF HearEvent
  <2>2. loads' \subseteq 0 .. version
    BY <1>9 DEF HearEvent, Loads
  <2>3. QED BY <2>1, <2>2
<1>10. CASE Poll
  BY <1>10 DEF Poll, Loads
<1>11. ASSUME NEW v \in 0 .. MaxVersions, Arrive(v)
       PROVE  StreamInv'
  <2>1. v \in Nat /\ v \in 0 .. version /\ loads' \subseteq 0 .. version
    BY <1>11 DEF Arrive
  <2>2. panel' = [panel EXCEPT !.shows = v] /\ UNCHANGED <<version, owed, coming>>
    BY <1>11 DEF Arrive
  <2>3. QED BY <1>1, <2>1, <2>2
<1>12. CASE UNCHANGED streamVars
  BY <1>12 DEF streamVars
<1>13. QED
  BY <1>3, <1>4, <1>5, <1>6, <1>7, <1>8, <1>9, <1>10, <1>11, <1>12 DEF StreamNext

-----------------------------------------------------------------------------
(* Traps: one device for an address, events that are there.                *)

EnrollmentRow == [status : {"none", "WAITING", "DISCOVERED"}, expired : BOOLEAN]
HandlerState == [at : {"idle", "match", "note"}, credential : {"unread", "yes", "no"},
                 enrollment : {"unread", "yes", "no"}]
ClaimState == [at : {"idle", "accept", "onboard", "queue"}, ids : SUBSET Notices]
JobState == {"none", "waiting", "active", "failed", "done"}

TrapShapes ==
  /\ enrollment \in EnrollmentRow
  /\ devices \in {0, 1} /\ credential \in BOOLEAN
  /\ event \in [Notices -> EventRow \cup {NoEvent}]
  /\ handler \in [Notices -> HandlerState]
  /\ trapJob \in [Notices -> JobState]
  /\ claim \in [Clients -> ClaimState]

(* What works on an event has the event.                                   *)
TrapRefers ==
  /\ \A n \in Notices :
       /\ trapJob[n] # "none" => event[n] # NoEvent
       /\ handler[n].at = "note" => event[n] # NoEvent
       /\ event[n] # NoEvent /\ event[n].enrolled =>
            Enrolled /\ event[n].status = "DISCOVERED"
  /\ \A c \in Clients : \A n \in claim[c].ids : event[n] # NoEvent

TrapInv == TrapShapes /\ TrapRefers

LEMMA UnreadTyped == Unread \in HandlerState /\ Unread.at = "idle"
  BY DEF HandlerState, Unread

LEMMA TrapInitInv == TrapInit => TrapInv
<1> SUFFICES ASSUME TrapInit PROVE TrapInv
  OBVIOUS
<1>1. TrapShapes
  BY UnreadTyped DEF TrapInit, TrapShapes, EnrollmentRow, ClaimState, JobState
<1>2. /\ \A n \in Notices : event[n] = NoEvent /\ trapJob[n] = "none" /\ handler[n] = Unread
      /\ \A c \in Clients : claim[c].ids = {}
  BY DEF TrapInit
<1>3. QED BY <1>1, <1>2, UnreadTyped DEF TrapInv, TrapRefers

(* An event that is replaced by one of its kind: rows that are there stay. *)
LEMMA ReleasedTyped ==
  ASSUME NEW r \in EventRow, NEW q, q = [r EXCEPT !.enrolled = FALSE]
  PROVE  q \in EventRow /\ q # NoEvent /\ ~q.enrolled
<1>1. q \in EventRow
  BY DEF EventRow
<1>2. q.enrolled = FALSE
  BY DEF EventRow
<1>3. QED BY <1>1, <1>2

LEMMA ProcessedTyped ==
  ASSUME NEW r \in EventRow, NEW q, q = [r EXCEPT !.status = "PROCESSED"]
  PROVE  q \in EventRow /\ q # NoEvent /\ q.enrolled = r.enrolled
  BY DEF EventRow

LEMMA UnmatchedTyped ==
  /\ [status |-> "UNMATCHED", enrolled |-> FALSE] \in EventRow
  /\ [status |-> "PENDING", enrolled |-> FALSE] \in EventRow
  BY DEF EventRow

LEMMA StepTyped ==
  ASSUME handler \in [Notices -> HandlerState], NEW n \in Notices, NEW h \in HandlerState, Step(n, h)
  PROVE  /\ handler' \in [Notices -> HandlerState] /\ handler'[n] = h
         /\ \A m \in Notices \ {n} : handler'[m] = handler[m]
  BY DEF Step

LEMMA HandlerTyped ==
  ASSUME NEW h \in HandlerState
  PROVE  /\ \A at \in {"idle", "match", "note"} :
              [h EXCEPT !.at = at] \in HandlerState /\ [h EXCEPT !.at = at].at = at
         /\ \A a \in {"unread", "yes", "no"} :
              /\ [h EXCEPT !.credential = a] \in HandlerState /\ [h EXCEPT !.credential = a].at = h.at
              /\ [h EXCEPT !.enrollment = a] \in HandlerState /\ [h EXCEPT !.enrollment = a].at = h.at
  BY DEF HandlerState

LEMMA QueueTyped ==
  ASSUME trapJob \in [Notices -> JobState], NEW n \in Notices, NEW lost \in BOOLEAN, Queue(n, lost)
  PROVE  /\ trapJob' \in [Notices -> JobState]
         /\ \A m \in Notices \ {n} : trapJob'[m] = trapJob[m]
  BY DEF Queue, JobState

(* What a step owes the events: none goes, and what works on one has it.   *)
LEMMA EventsKept ==
  ASSUME TrapInv, TrapShapes',
         \A n \in Notices : event[n] # NoEvent => event'[n] # NoEvent,
         \A n \in Notices : trapJob'[n] # "none" => trapJob[n] # "none" \/ event[n] # NoEvent,
         \A n \in Notices : handler'[n].at = "note" => handler[n].at = "note" \/ event'[n] # NoEvent,
         \A n \in Notices : event'[n] # NoEvent /\ event'[n].enrolled =>
                              enrollment'.status # "none" /\ event'[n].status = "DISCOVERED",
         \A c \in Clients : \A n \in claim'[c].ids : n \in claim[c].ids \/ event[n] # NoEvent
  PROVE  TrapInv'
<1>1. \A c \in Clients : \A n \in claim'[c].ids : event'[n] # NoEvent
  BY DEF TrapInv, TrapRefers, TrapShapes, ClaimState
<1>2. \A n \in Notices : event'[n] # NoEvent /\ event'[n].enrolled =>
                              Enrolled' /\ event'[n].status = "DISCOVERED"
  BY DEF Enrolled
<1>3. \A n \in Notices : /\ trapJob'[n] # "none" => event'[n] # NoEvent
                         /\ handler'[n].at = "note" => event'[n] # NoEvent
  BY DEF TrapInv, TrapRefers
<1>4. QED BY <1>1, <1>2, <1>3 DEF TrapInv, TrapRefers

(* The receiver and its refreshes.                                         *)
LEMMA ReceiverStep ==
  ASSUME TrapInv, ReadSecrets \/ ApplySecrets \/ CloseReceiver
  PROVE  TrapInv'
<1> USE DEF TrapInv, TrapShapes, TrapRefers, Enrolled
<1>1. CASE ReadSecrets
  <2>1. enrollment' \in EnrollmentRow /\ (~enrollment.expired => enrollment' = enrollment)
    BY <1>1 DEF ReadSecrets, EnrollmentRow
  <2>2. CASE enrollment.expired
    <3>1. event' = [n \in Notices |-> IF event[n] = NoEvent THEN NoEvent
                                      ELSE [event[n] EXCEPT !.enrolled = FALSE]]
      BY <1>1, <2>2 DEF ReadSecrets
    <3>2. ASSUME NEW n \in Notices
          PROVE  /\ event'[n] \in EventRow \cup {NoEvent} /\ (event'[n] = NoEvent <=> event[n] = NoEvent)
                 /\ event'[n] # NoEvent => ~event'[n].enrolled
      <4>1. CASE event[n] = NoEvent
        BY <3>1, <4>1
      <4>2. CASE event[n] # NoEvent
        BY <3>1, <4>2, ReleasedTyped
      <4>3. QED BY <4>1, <4>2
    <3>3. event' \in [Notices -> EventRow \cup {NoEvent}]
      BY <3>1, <3>2
    <3>4. UNCHANGED <<devices, credential, handler, trapJob, claim>>
      BY <1>1 DEF ReadSecrets
    <3>5. TrapShapes'
      BY <2>1, <3>3, <3>4
    <3>6. QED BY <3>2, <3>4, <3>5, EventsKept
  <2>3. CASE ~enrollment.expired
    BY <1>1, <2>3 DEF ReadSecrets
  <2>4. QED BY <2>2, <2>3
<1>2. CASE ApplySecrets
  BY <1>2 DEF ApplySecrets
<1>3. CASE CloseReceiver
  <2>1. handler' = handler \/ handler' = [n \in Notices |-> Unread]
    BY <1>3 DEF CloseReceiver
  <2>2. UNCHANGED <<enrollment, devices, credential, event, trapJob, claim>>
    BY <1>3 DEF CloseReceiver
  <2>3. QED BY <2>1, <2>2, UnreadTyped
<1>4. QED BY <1>1, <1>2, <1>3

(* A handler that reads, and writes nothing.                               *)
LEMMA HandlerOnly ==
  ASSUME TrapInv, NEW n \in Notices, NEW h \in HandlerState, Step(n, h),
         h.at = "note" => event[n] # NoEvent,
         UNCHANGED <<enrollment, devices, credential, event, trapJob, claim>>
  PROVE  TrapInv'
  BY StepTyped DEF TrapInv, TrapShapes, TrapRefers, Enrolled

LEMMA HandlerStep ==
  ASSUME TrapInv, NEW n \in Notices,
         \/ Arrives(n) \/ ReadCredentials(n) \/ ReadEnrollments(n) \/ CreateEvent(n)
         \/ \E lost \in BOOLEAN : NoteEvent(n, lost)
  PROVE  TrapInv'
<1> DEFINE h == handler[n]
<1>0. h \in HandlerState
  BY DEF TrapInv, TrapShapes
<1>1. CASE Arrives(n)
  BY <1>0, <1>1, HandlerOnly, HandlerTyped DEF Arrives
<1>2. CASE ReadCredentials(n)
  <2>1. PICK a \in {"yes", "no"} : Step(n, [h EXCEPT !.credential = a])
    BY <1>2 DEF ReadCredentials
  <2>2. QED BY <1>0, <1>2, <2>1, HandlerOnly, HandlerTyped DEF ReadCredentials
<1>3. CASE ReadEnrollments(n)
  <2>1. PICK a \in {"yes", "no"} : Step(n, [h EXCEPT !.enrollment = a])
    BY <1>3 DEF ReadEnrollments
  <2>2. QED BY <1>0, <1>3, <2>1, HandlerOnly, HandlerTyped DEF ReadEnrollments
<1>4. CASE CreateEvent(n)
  <2>1. CASE event[n] # NoEvent \/ (Matched(n) = "DISCOVERED" /\ ~Enrolled)
    BY <1>4, <2>1, HandlerOnly, UnreadTyped DEF CreateEvent
  <2>2. CASE event[n] = NoEvent /\ (Matched(n) = "DISCOVERED" => Enrolled)
    <3> DEFINE row == [status |-> Matched(n), enrolled |-> Matched(n) = "DISCOVERED"]
    <3>1. Matched(n) \in {"PENDING", "DISCOVERED", "UNMATCHED"}
      BY DEF Matched
    <3>2. (Matched(n) = "DISCOVERED") \in BOOLEAN
      OBVIOUS
    <3>3. row \in EventRow
      BY <3>1, <3>2 DEF EventRow
    <3>4. event' = [event EXCEPT ![n] = row]
      BY <1>4, <2>2 DEF CreateEvent
    <3>5. row.enrolled => row.status = "DISCOVERED" /\ Enrolled
      BY <2>2
    <3> HIDE DEF row
    <3>6. event' \in [Notices -> EventRow \cup {NoEvent}] /\ event'[n] = row
            /\ \A m \in Notices \ {n} : event'[m] = event[m]
      BY <3>3, <3>4 DEF TrapInv, TrapShapes
    <3>7. PICK g \in HandlerState : Step(n, g)
      BY <1>0, <1>4, <2>2, HandlerTyped, UnreadTyped DEF CreateEvent
    <3>8. handler' \in [Notices -> HandlerState] /\ \A m \in Notices \ {n} : handler'[m] = handler[m]
      BY <3>7, StepTyped DEF TrapInv, TrapShapes
    <3>9. UNCHANGED <<enrollment, devices, credential, trapJob, claim>>
      BY <1>4 DEF CreateEvent
    <3>10. TrapShapes'
      BY <3>6, <3>8, <3>9 DEF TrapInv, TrapShapes
    <3>11. row # NoEvent
      BY <3>3
    <3>12. \A m \in Notices : event'[m] # NoEvent /\ event'[m].enrolled =>
                               enrollment'.status # "none" /\ event'[m].status = "DISCOVERED"
      BY <3>5, <3>6, <3>9 DEF TrapInv, TrapRefers, Enrolled
    <3>13. QED BY <3>6, <3>8, <3>9, <3>10, <3>11, <3>12, EventsKept
  <2>3. QED BY <2>1, <2>2
<1>5. ASSUME NEW lost \in BOOLEAN, NoteEvent(n, lost)
      PROVE  TrapInv'
  <2>1. Step(n, Unread) /\ UNCHANGED <<devices, credential, event, claim>> /\ event[n] # NoEvent
    BY <1>5 DEF NoteEvent, TrapInv, TrapRefers
  <2>2. handler' \in [Notices -> HandlerState] /\ \A m \in Notices : handler'[m].at = "note" => handler[m].at = "note"
    BY <2>1, StepTyped, UnreadTyped DEF TrapInv, TrapShapes
  <2>3. UNCHANGED trapJob \/ Queue(n, lost)
    BY <1>5 DEF NoteEvent
  <2>4. trapJob' \in [Notices -> JobState] /\ \A m \in Notices \ {n} : trapJob'[m] = trapJob[m]
    BY <2>3, QueueTyped DEF TrapInv, TrapShapes
  <2>5. enrollment' \in EnrollmentRow /\ (Enrolled => Enrolled')
    <3>1. enrollment' = enrollment \/ enrollment' = [enrollment EXCEPT !.status = "DISCOVERED"]
      BY <1>5 DEF NoteEvent
    <3>2. QED BY <3>1 DEF TrapInv, TrapShapes, EnrollmentRow, Enrolled
  <2>6. QED BY <2>1, <2>2, <2>4, <2>5 DEF TrapInv, TrapShapes, TrapRefers
<1>6. QED BY <1>1, <1>2, <1>3, <1>4, <1>5

(* The worker, and the recovery of what is still PENDING.                  *)
LEMMA TrapJobStep ==
  ASSUME TrapInv, NEW n \in Notices,
         TakeTrap(n) \/ ProcessTrap(n) \/ BreakTrap(n) \/ Recover(n)
  PROVE  TrapInv'
<1> USE DEF TrapInv, TrapShapes, TrapRefers, Enrolled
<1>1. CASE TakeTrap(n)
  BY <1>1 DEF TakeTrap, JobState
<1>2. CASE ProcessTrap(n)
  <2>1. event[n] \in EventRow
    BY <1>2 DEF ProcessTrap
  <2>2. CASE event[n].status = "PENDING"
    <3>1. event' = [event EXCEPT ![n].status = "PROCESSED"]
      BY <1>2, <2>2 DEF ProcessTrap
    <3>2. event'[n] = [event[n] EXCEPT !.status = "PROCESSED"]
            /\ (\A m \in Notices \ {n} : event'[m] = event[m])
            /\ event' \in [Notices -> EventRow \cup {NoEvent}]
      BY <2>1, <3>1, ProcessedTyped
    <3>3. event'[n] \in EventRow /\ event'[n].enrolled = event[n].enrolled
      BY <2>1, <3>2, ProcessedTyped
    <3>4. trapJob' = [trapJob EXCEPT ![n] = "done"] /\ UNCHANGED <<enrollment, devices, credential, handler, claim>>
      BY <1>2 DEF ProcessTrap
    <3>5. TrapShapes'
      BY <3>2, <3>4 DEF JobState
    <3>6. ~event'[n].enrolled
      <4>1. ~event[n].enrolled
        BY <1>2, <2>1, <2>2
      <4>2. QED BY <3>3, <4>1
    <3>7. QED BY <2>1, <3>2, <3>3, <3>4, <3>5, <3>6, EventsKept
  <2>3. CASE event[n].status # "PENDING"
    BY <1>2, <2>1, <2>3 DEF ProcessTrap, JobState
  <2>4. QED BY <2>2, <2>3
<1>3. CASE BreakTrap(n)
  BY <1>3 DEF BreakTrap, JobState
<1>4. CASE Recover(n)
  <2>1. Queue(n, FALSE) /\ event[n] # NoEvent /\ UNCHANGED <<enrollment, devices, credential, event, handler, claim>>
    BY <1>4 DEF Recover, Pending
  <2>2. trapJob' \in [Notices -> JobState] /\ \A m \in Notices \ {n} : trapJob'[m] = trapJob[m]
    BY <2>1, QueueTyped
  <2>3. QED BY <2>1, <2>2
<1>5. QED BY <1>1, <1>2, <1>3, <1>4

(* Requests about the enrollment and the credential.                       *)
LEMMA EnrollmentStep ==
  ASSUME TrapInv,
         Enroll \/ RenewEnrollment \/ Expires \/ DeleteEnrollment \/ RevokeTrapCredential
  PROVE  TrapInv'
<1> USE DEF TrapInv, TrapShapes, TrapRefers, Enrolled
<1>1. CASE Enroll
  BY <1>1 DEF Enroll, EnrollmentRow
<1>2. CASE RenewEnrollment
  BY <1>2 DEF RenewEnrollment, EnrollmentRow
<1>3. CASE Expires
  BY <1>3 DEF Expires, Current, EnrollmentRow
<1>4. CASE DeleteEnrollment
  <2>1. enrollment' \in EnrollmentRow /\ UNCHANGED <<devices, credential, handler, trapJob, claim>>
    BY <1>4 DEF DeleteEnrollment, EnrollmentRow
  <2>2. event' = [n \in Notices |-> IF event[n] # NoEvent /\ event[n].enrolled
                                   THEN [status |-> "UNMATCHED", enrolled |-> FALSE] ELSE event[n]]
    BY <1>4 DEF DeleteEnrollment
  <2>3. /\ event' \in [Notices -> EventRow \cup {NoEvent}]
        /\ \A n \in Notices : event'[n] = NoEvent <=> event[n] = NoEvent
        /\ \A n \in Notices : event'[n] # NoEvent => ~event'[n].enrolled
    BY <2>2, UnmatchedTyped
  <2>4. TrapShapes'
    BY <2>1, <2>3
  <2>5. QED BY <2>1, <2>3, <2>4, EventsKept
<1>5. CASE RevokeTrapCredential
  BY <1>5 DEF RevokeTrapCredential
<1>6. QED BY <1>1, <1>2, <1>3, <1>4, <1>5

(* Operators: what a claim is about to queue has its event.                *)
LEMMA ClaimStep ==
  ASSUME TrapInv, NEW c \in Clients,
         \/ BeginAccept(c) \/ BeginOnboard(c) \/ Accept(c) \/ Onboard(c) \/ EndAccept(c)
         \/ \E n \in Notices, lost \in BOOLEAN : QueueAccepted(c, n, lost)
  PROVE  TrapInv'
<1> USE DEF TrapInv, TrapShapes, TrapRefers, Enrolled
<1>0. /\ \A at \in {"idle", "accept", "onboard", "queue"} :
           [claim[c] EXCEPT !.at = at] \in ClaimState /\ [claim[c] EXCEPT !.at = at].ids = claim[c].ids
      /\ \A s \in SUBSET Notices :
           [at |-> "queue", ids |-> s] \in ClaimState /\ [at |-> "idle", ids |-> s] \in ClaimState
      /\ \A n : [claim[c] EXCEPT !.ids = @ \ {n}] \in ClaimState
                  /\ [claim[c] EXCEPT !.ids = @ \ {n}].ids \subseteq claim[c].ids
  BY DEF ClaimState
<1>1. CASE BeginAccept(c) \/ BeginOnboard(c)
  <2>1. PICK at \in {"idle", "accept", "onboard", "queue"} :
          claim' = [claim EXCEPT ![c] = [claim[c] EXCEPT !.at = at]]
    BY <1>1 DEF BeginAccept, BeginOnboard
  <2>2. UNCHANGED <<enrollment, devices, credential, event, handler, trapJob>>
    BY <1>1 DEF BeginAccept, BeginOnboard
  <2>3. QED BY <1>0, <2>1, <2>2
<1>2. CASE Accept(c)
  <2> DEFINE mine == {n \in Notices : event[n] # NoEvent /\ event[n].enrolled}
  <2>1. CASE Current /\ enrollment.status = "DISCOVERED" /\ devices = 0
    <3>1. PICK new \in SUBSET {n \in mine : handler[n].at = "note"} : \E late \in SUBSET new :
            /\ event' = [n \in Notices |->
                 IF n \in mine \ late THEN [status |-> "PENDING", enrolled |-> FALSE]
                 ELSE IF n \in late THEN [event[n] EXCEPT !.enrolled = FALSE] ELSE event[n]]
            /\ claim' = [claim EXCEPT ![c] = [at |-> "queue", ids |-> mine \ new]]
      BY <1>2, <2>1 DEF Accept
    <3>2. PICK late \in SUBSET new :
            event' = [n \in Notices |->
                 IF n \in mine \ late THEN [status |-> "PENDING", enrolled |-> FALSE]
                 ELSE IF n \in late THEN [event[n] EXCEPT !.enrolled = FALSE] ELSE event[n]]
      BY <3>1
    <3>3. ASSUME NEW n \in Notices
          PROVE  /\ event'[n] \in EventRow \cup {NoEvent} /\ (event[n] # NoEvent => event'[n] # NoEvent)
                 /\ event'[n] # NoEvent => ~event'[n].enrolled
      <4>1. CASE n \in mine \ late
        BY <3>2, <4>1, UnmatchedTyped
      <4>2. CASE n \in late
        <5>1. event'[n] = [event[n] EXCEPT !.enrolled = FALSE] /\ event[n] \in EventRow
          BY <3>1, <3>2, <4>2
        <5>2. QED BY <5>1, ReleasedTyped
      <4>3. CASE n \notin mine /\ n \notin late
        BY <3>2, <4>3
      <4>4. QED BY <4>1, <4>2, <4>3
    <3>4. event' \in [Notices -> EventRow \cup {NoEvent}]
      BY <3>2, <3>3
    <3>5. /\ claim' \in [Clients -> ClaimState] /\ claim'[c].ids \subseteq mine
          /\ \A d \in Clients \ {c} : claim'[d] = claim[d]
      <4>1. mine \ new \in SUBSET Notices
        OBVIOUS
      <4>2. PICK s \in SUBSET Notices : s = mine \ new
        BY <4>1
      <4>3. claim' = [claim EXCEPT ![c] = [at |-> "queue", ids |-> s]]
        BY <3>1, <4>2
      <4>4. s \subseteq mine
        BY <4>2
      <4> HIDE DEF mine
      <4>5. QED BY <1>0, <4>3, <4>4
    <3>6. UNCHANGED <<handler, trapJob>> /\ devices' = 1
      BY <1>2, <2>1 DEF Accept
    <3>7. credential' \in BOOLEAN
      BY <1>2, <2>1 DEF Accept
    <3>8. enrollment' = [status |-> "none", expired |-> FALSE]
      BY <1>2, <2>1 DEF Accept
    <3>9. TrapShapes'
      BY <3>4, <3>5, <3>6, <3>7, <3>8 DEF EnrollmentRow
    <3>10. \A d \in Clients : \A n \in claim'[d].ids : n \in claim[d].ids \/ event[n] # NoEvent
      BY <3>5
    <3>11. QED BY <3>3, <3>6, <3>9, <3>10, EventsKept
  <2>2. CASE ~(Current /\ enrollment.status = "DISCOVERED" /\ devices = 0)
    <3>1. claim' = [claim EXCEPT ![c] = [claim[c] EXCEPT !.at = "idle"]]
            /\ UNCHANGED <<enrollment, devices, credential, event, handler, trapJob>>
      BY <1>2, <2>2 DEF Accept
    <3>2. QED BY <1>0, <3>1
  <2>3. QED BY <2>1, <2>2
<1>3. CASE Onboard(c)
  <2>1. claim' = [claim EXCEPT ![c] = [claim[c] EXCEPT !.at = "idle"]]
          /\ UNCHANGED <<enrollment, event, handler, trapJob>>
          /\ devices' \in {0, 1} /\ credential' \in BOOLEAN
    BY <1>3 DEF Onboard
  <2>2. QED BY <1>0, <2>1
<1>4. CASE EndAccept(c)
  BY <1>0, <1>4 DEF EndAccept
<1>5. ASSUME NEW n \in Notices, NEW lost \in BOOLEAN, QueueAccepted(c, n, lost)
      PROVE  TrapInv'
  <2>1. /\ Queue(n, lost) /\ event[n] # NoEvent
        /\ claim' = [claim EXCEPT ![c] = [claim[c] EXCEPT !.ids = @ \ {n}]]
        /\ UNCHANGED <<enrollment, devices, credential, event, handler>>
    BY <1>5 DEF QueueAccepted
  <2>2. trapJob' \in [Notices -> JobState] /\ \A m \in Notices \ {n} : trapJob'[m] = trapJob[m]
    BY <2>1, QueueTyped
  <2>3. /\ claim' \in [Clients -> ClaimState] /\ claim'[c].ids \subseteq claim[c].ids
        /\ \A d \in Clients \ {c} : claim'[d] = claim[d]
    BY <1>0, <2>1
  <2>4. QED BY <2>1, <2>2, <2>3 DEF ClaimState
<1>6. QED BY <1>1, <1>2, <1>3, <1>4, <1>5

LEMMA TrapInvStep == TrapInv /\ [TrapNext]_trapVars => TrapInv'
<1>1. ASSUME TrapInv, UNCHANGED trapVars
      PROVE  TrapInv'
  BY <1>1 DEF TrapInv, TrapShapes, TrapRefers, Enrolled, trapVars
<1>2. QED
  BY <1>1, ReceiverStep, HandlerStep, TrapJobStep, EnrollmentStep, ClaimStep DEF TrapNext

LEMMA TrapInvTypes == TrapInv => TrapTypeOK
  BY DEF TrapInv, TrapShapes, TrapRefers, TrapTypeOK, EnrollmentRow, JobState

\* acceptEnrollment and onboardDevice, whichever operators they are for and
\* however they interleave, give the address one device.
THEOREM AddressHasOneDevice == TrapSpec => []OneDevicePerAddress
<1>1. TrapInv => OneDevicePerAddress
  BY DEF TrapInv, TrapShapes, OneDevicePerAddress
<1>2. QED
  BY <1>1, TrapInitInv, TrapInvStep, PTL DEF TrapSpec

-----------------------------------------------------------------------------
(* Discovery: one scan of the subnet, decisions that stand.                *)

ResultStatus == {"none", "PENDING"} \cup Decision
TickState == [at : {"none", "waiting", "taken", "scanning", "saved", "completed", "failing"},
              row : Scans \cup {NoScan}]
QueueState ==
  {"none", "adding", "waiting", "taken", "scanning", "saved", "completed", "failing", "done"}

DiscoveryInv ==
  /\ scan \in [Scans -> ScanStatus \cup {NoScan}]
  /\ result \in [Scans -> [Addresses -> ResultStatus]]
  /\ scanJob \in [AskedScans -> QueueState] /\ tick \in TickState
  /\ \A s, o \in Scans : scan[s] \in Underway /\ scan[o] \in Underway => s = o
  /\ \A s \in AskedScans : scanJob[s] # "none" => scan[s] # NoScan
  /\ tick.row # NoScan => scan[tick.row] # NoScan

LEMMA DiscoveryInitInv == DiscoveryInit => DiscoveryInv
  BY DEF DiscoveryInit, DiscoveryInv, ResultStatus, TickState, QueueState, Underway, ScanStatus

(* What was abandoned, row by row, and what makes it inductive: a tick that *)
(* is not taken names no row, and a scan is told completed after its row.   *)
Settled(s) == s \in abandoned <=> scan[s] \in Underway /\ ~HasJob(s)
AbandonInv ==
  /\ died \in SUBSET AskedScans /\ abandoned \in SUBSET Scans
  /\ tick.at \in {"none", "waiting"} => tick.row = NoScan
  /\ \A s \in Scans : Held(s, "completed") => scan[s] = "COMPLETED"
  /\ \A s \in Scans : Settled(s)

LEMMA DiscoveryInvTypes == DiscoveryInv /\ AbandonInv => DiscoveryTypeOK
  BY DEF DiscoveryInv, AbandonInv, DiscoveryTypeOK, ResultStatus, Free, TickState

(* What works on a scan has its row.                                       *)
LEMMA HeldRow ==
  ASSUME DiscoveryInv, NEW s \in Scans, NEW at \in QueueState \ {"none"}, Held(s, at)
  PROVE  scan[s] # NoScan
<1>1. CASE s \in AskedScans
  BY <1>1 DEF Held, DiscoveryInv
<1>2. CASE s \notin AskedScans
  <2>1. tick.row = s
    BY <1>2 DEF Held
  <2>2. QED BY <2>1 DEF DiscoveryInv
<1>3. QED BY <1>1, <1>2

LEMMA HoldsTyped ==
  ASSUME DiscoveryInv, NEW s \in Scans, scan[s] # NoScan,
         NEW at \in {"taken", "scanning", "saved", "completed", "failing", "done"}, Holds(s, at)
  PROVE  /\ scanJob' \in [AskedScans -> QueueState] /\ tick' \in TickState
         /\ \A q \in AskedScans : scanJob'[q] # "none" => scan[q] # NoScan
         /\ tick'.row # NoScan => scan[tick'.row] # NoScan
<1>1. CASE s \in AskedScans
  <2>1. scanJob' = [scanJob EXCEPT ![s] = at] /\ UNCHANGED tick
    BY <1>1 DEF Holds
  <2>2. QED BY <2>1, <1>1 DEF DiscoveryInv, QueueState
<1>2. CASE s \notin AskedScans
  <2>1. UNCHANGED scanJob
    BY <1>2 DEF Holds
  <2>2. tick' = [at |-> "none", row |-> NoScan] \/ (tick' = [at |-> at, row |-> s] /\ at # "done")
    BY <1>2 DEF Holds
  <2>3. tick' \in TickState /\ (tick'.row # NoScan => scan[tick'.row] # NoScan)
    BY <2>2 DEF TickState
  <2>4. QED BY <2>1, <2>3 DEF DiscoveryInv
<1>3. QED BY <1>1, <1>2

(* A step that writes a row or two jobs, and no result.                    *)
LEMMA RowWritten ==
  ASSUME DiscoveryInv, NEW s \in Scans, NEW to \in ScanStatus, scan' = [scan EXCEPT ![s] = to],
         to \in Underway => \A o \in Scans \ {s} : scan[o] \notin Underway
  PROVE  /\ scan' \in [Scans -> ScanStatus \cup {NoScan}]
         /\ \A q, o \in Scans : scan'[q] \in Underway /\ scan'[o] \in Underway => q = o
         /\ \A q \in Scans : scan[q] # NoScan => scan'[q] # NoScan
         /\ scan'[s] # NoScan
  BY DEF DiscoveryInv

LEMMA RequestStep ==
  ASSUME DiscoveryInv, NEW s \in AskedScans, AskScan(s) \/ AddScan(s) \/ TakeScan(s)
  PROVE  DiscoveryInv'
<1>0. s \in Scans
  BY DEF Scans
<1>1. CASE AskScan(s)
  <2>1. scan' = [scan EXCEPT ![s] = "PENDING"] /\ UNCHANGED <<result, tick>>
          /\ scanJob' = [scanJob EXCEPT ![s] = "adding"]
    BY <1>1 DEF AskScan
  <2>2. /\ scan' \in [Scans -> ScanStatus \cup {NoScan}]
        /\ \A q, o \in Scans : scan'[q] \in Underway /\ scan'[o] \in Underway => q = o
        /\ \A q \in Scans : scan[q] # NoScan => scan'[q] # NoScan
        /\ scan'[s] # NoScan
    BY <1>0, <1>1, <2>1, RowWritten DEF AskScan, Busy, ScanStatus
  <2>3. tick'.row # NoScan => scan'[tick'.row] # NoScan
    BY <2>1, <2>2 DEF DiscoveryInv, TickState
  <2>4. QED BY <2>1, <2>2, <2>3 DEF DiscoveryInv, QueueState, Scans
<1>2. CASE AddScan(s)
  BY <1>0, <1>2 DEF AddScan, DiscoveryInv, QueueState
<1>3. CASE TakeScan(s)
  BY <1>0, <1>3 DEF TakeScan, DiscoveryInv, QueueState
<1>4. QED BY <1>1, <1>2, <1>3

LEMMA SchedulerStep ==
  ASSUME DiscoveryInv,
         \/ \E form \in {"schedule", "column"}, on \in BOOLEAN : SwitchRow(form, on)
         \/ SwitchScheduler \/ Tick \/ TakeTick \/ TickBreaks
  PROVE  DiscoveryInv'
<1>1. ASSUME NEW form, NEW on, SwitchRow(form, on)
      PROVE  DiscoveryInv'
  BY <1>1 DEF SwitchRow, DiscoveryInv
<1>2. CASE SwitchScheduler
  BY <1>2 DEF SwitchScheduler, DiscoveryInv
<1>3. CASE Tick
  BY <1>3 DEF Tick, DiscoveryInv, TickState
<1>4. CASE TakeTick
  <2>1. CASE plan.schedule /\ ~Busy
    <3>1. PICK s \in TimedScans :
            Free(s) /\ scan' = [scan EXCEPT ![s] = "PENDING"] /\ tick' = [at |-> "taken", row |-> s]
      BY <1>4, <2>1 DEF TakeTick
    <3>2. s \in Scans
      BY DEF Scans
    <3>3. /\ scan' \in [Scans -> ScanStatus \cup {NoScan}]
          /\ \A q, o \in Scans : scan'[q] \in Underway /\ scan'[o] \in Underway => q = o
          /\ \A q \in Scans : scan[q] # NoScan => scan'[q] # NoScan
          /\ scan'[s] # NoScan
      BY <2>1, <3>1, <3>2, RowWritten DEF Busy, ScanStatus
    <3>4. tick' \in TickState /\ tick'.row = s
      BY <3>1, <3>2 DEF TickState
    <3>5. UNCHANGED <<result, scanJob>>
      BY <1>4 DEF TakeTick
    <3>6. QED BY <3>3, <3>4, <3>5 DEF DiscoveryInv, Scans
  <2>2. CASE ~(plan.schedule /\ ~Busy)
    <3>1. tick' = [at |-> "none", row |-> NoScan] /\ UNCHANGED <<scan, result, scanJob>>
      BY <1>4, <2>2 DEF TakeTick
    <3>2. QED BY <3>1 DEF DiscoveryInv, TickState
  <2>3. QED BY <2>1, <2>2
<1>5. CASE TickBreaks
  BY <1>5 DEF TickBreaks, DiscoveryInv, TickState
<1>6. QED BY <1>1, <1>2, <1>3, <1>4, <1>5

(* A step of a scan that writes no row.                                    *)
LEMMA HoldsOnly ==
  ASSUME DiscoveryInv, NEW s \in Scans, scan[s] # NoScan,
         NEW at \in {"taken", "scanning", "saved", "completed", "failing", "done"}, Holds(s, at),
         UNCHANGED <<scan, result>>
  PROVE  DiscoveryInv'
  BY HoldsTyped DEF DiscoveryInv

LEMMA HoldsAndWrites ==
  ASSUME DiscoveryInv, NEW s \in Scans, scan[s] # NoScan,
         NEW at \in {"taken", "scanning", "saved", "completed", "failing", "done"}, Holds(s, at),
         NEW to \in ScanStatus, scan' = [scan EXCEPT ![s] = to], UNCHANGED result,
         to \in Underway => \A o \in Scans \ {s} : scan[o] \notin Underway
  PROVE  DiscoveryInv'
<1>1. /\ scan' \in [Scans -> ScanStatus \cup {NoScan}]
      /\ \A q, o \in Scans : scan'[q] \in Underway /\ scan'[o] \in Underway => q = o
      /\ \A q \in Scans : scan[q] # NoScan => scan'[q] # NoScan
  BY RowWritten
<1>2. /\ scanJob' \in [AskedScans -> QueueState] /\ tick' \in TickState
      /\ \A q \in AskedScans : scanJob'[q] # "none" => scan[q] # NoScan
      /\ tick'.row # NoScan => scan[tick'.row] # NoScan
  BY HoldsTyped
<1>3. tick'.row # NoScan => scan'[tick'.row] # NoScan
  BY <1>1, <1>2 DEF TickState
<1>4. QED BY <1>1, <1>2, <1>3 DEF DiscoveryInv, Scans

LEMMA WorkStep ==
  ASSUME DiscoveryInv, NEW s \in Scans, WorkScan(s) \/ ScanBreaks(s) \/ WorkerDies(s)
  PROVE  DiscoveryInv'
<1>1. CASE StartScan(s)
  <2>1. scan[s] # NoScan
    BY <1>1, HeldRow DEF StartScan, QueueState
  <2>2. CASE \E o \in Scans \ {s} : scan[o] \in Underway
    BY <1>1, <2>1, <2>2, HoldsOnly DEF StartScan
  <2>3. CASE \A o \in Scans \ {s} : scan[o] \notin Underway
    BY <1>1, <2>1, <2>3, HoldsAndWrites DEF StartScan, ScanStatus
  <2>4. QED BY <2>2, <2>3
<1>2. CASE SaveResults(s)
  <2>1. scan[s] # NoScan
    BY <1>2, HeldRow DEF SaveResults, QueueState
  <2>2. PICK at \in {"saved", "failing"} : Holds(s, at)
    BY <1>2 DEF SaveResults
  <2>3. result' \in [Scans -> [Addresses -> ResultStatus]]
    BY <1>2 DEF SaveResults, Finds, DiscoveryInv, ResultStatus
  <2>4. UNCHANGED scan
    BY <1>2 DEF SaveResults
  <2>5. QED BY <2>1, <2>2, <2>3, <2>4, HoldsTyped DEF DiscoveryInv
<1>3. CASE CompleteScan(s)
  BY <1>3, HeldRow, HoldsAndWrites DEF CompleteScan, QueueState, ScanStatus, Underway
<1>4. CASE FailScan(s)
  BY <1>4, HeldRow, HoldsAndWrites DEF FailScan, QueueState, ScanStatus, Underway
<1>5. CASE EndScan(s)
  BY <1>5, HeldRow, HoldsOnly DEF EndScan, QueueState
<1>6. CASE ScanBreaks(s)
  <2>1. scan[s] # NoScan
    BY <1>6, HeldRow DEF ScanBreaks, QueueState
  <2>2. PICK at \in {"failing", "done"} : Holds(s, at)
    BY <1>6 DEF ScanBreaks
  <2>3. QED BY <1>6, <2>1, <2>2, HoldsOnly DEF ScanBreaks
<1>7. CASE WorkerDies(s)
  <2>1. scan[s] # NoScan
    BY <1>7, HeldRow DEF WorkerDies, QueueState
  <2>2. UNCHANGED <<scan, result>>
    BY <1>7 DEF WorkerDies
  <2>3. CASE s \in AskedScans
    <3>1. PICK at \in {"done", "waiting"} : scanJob' = [scanJob EXCEPT ![s] = at] /\ UNCHANGED tick
      BY <1>7, <2>3 DEF WorkerDies, Holds
    <3>2. QED BY <2>1, <2>2, <3>1 DEF DiscoveryInv, QueueState
  <2>4. CASE s \notin AskedScans
    <3>1. UNCHANGED scanJob /\ \E at \in {"waiting", "none"} : tick' = [at |-> at, row |-> NoScan]
      BY <1>7, <2>4 DEF WorkerDies, Holds
    <3>2. QED BY <2>2, <3>1 DEF DiscoveryInv, TickState
  <2>5. QED BY <2>3, <2>4
<1>8. QED BY <1>1, <1>2, <1>3, <1>4, <1>5, <1>6, <1>7 DEF WorkScan

(* The only steps that write results are the insertion and the review.     *)
LEMMA ReviewStep ==
  ASSUME DiscoveryInv, NEW s \in Scans, NEW a \in Addresses, NEW decision \in Decision,
         ReviewResult(s, a, decision)
  PROVE  DiscoveryInv'
<1>1. result' \in [Scans -> [Addresses -> ResultStatus]]
  BY DEF ReviewResult, DiscoveryInv, ResultStatus
<1>2. UNCHANGED <<scan, scanJob, tick>>
  BY DEF ReviewResult
<1>3. QED BY <1>1, <1>2 DEF DiscoveryInv

LEMMA DiscoveryInvStep == DiscoveryInv /\ [DiscoveryNext]_discoveryVars => DiscoveryInv'
<1>1. DiscoveryInv /\ UNCHANGED discoveryVars => DiscoveryInv'
  BY DEF DiscoveryInv, discoveryVars
<1>2. QED
  BY <1>1, RequestStep, SchedulerStep, WorkStep, ReviewStep DEF DiscoveryNext

LEMMA DecidedStep ==
  ASSUME DiscoveryInv, [DiscoveryNext]_discoveryVars, NEW s \in Scans, NEW a \in Addresses,
         result[s][a] \in Decision
  PROVE  result'[s][a] = result[s][a]
<1> USE DEF DiscoveryInv
<1>1. ASSUME NEW o \in Scans, SaveResults(o)
      PROVE  result'[s][a] = result[s][a]
  <2>1. CASE UNCHANGED result
    BY <2>1
  <2>2. ASSUME NEW found \in SUBSET Addresses, \A b \in found : result[o][b] = "none", Finds(o, found)
        PROVE  result'[s][a] = result[s][a]
    <3>1. CASE o = s
      <4>1. a \notin found
        BY <2>2, <3>1 DEF Decision
      <4>2. result'[s] = [b \in Addresses |-> IF b \in found THEN "PENDING" ELSE result[s][b]]
        BY <2>2, <3>1 DEF Finds
      <4>3. QED BY <4>1, <4>2
    <3>2. CASE o # s
      BY <2>2, <3>2 DEF Finds
    <3>3. QED BY <3>1, <3>2
  <2>3. QED BY <1>1, <2>1, <2>2 DEF SaveResults
<1>2. ASSUME NEW o \in Scans, NEW b \in Addresses, NEW decision, ReviewResult(o, b, decision)
      PROVE  result'[s][a] = result[s][a]
  <2>1. o # s \/ b # a
    BY <1>2 DEF ReviewResult, Decision
  <2>2. QED BY <1>2, <2>1 DEF ReviewResult
<1>3. UNCHANGED result => result'[s][a] = result[s][a]
  OBVIOUS
<1>4. ASSUME NEW o \in Scans,
             \/ StartScan(o) \/ CompleteScan(o) \/ FailScan(o) \/ EndScan(o)
             \/ ScanBreaks(o) \/ WorkerDies(o)
      PROVE  UNCHANGED result
  BY <1>4 DEF StartScan, CompleteScan, FailScan, EndScan, ScanBreaks, WorkerDies
<1>5. ASSUME NEW o \in AskedScans, AskScan(o) \/ AddScan(o) \/ TakeScan(o)
      PROVE  UNCHANGED result
  BY <1>5 DEF AskScan, AddScan, TakeScan
<1>6. ASSUME \/ \E form \in {"schedule", "column"}, on \in BOOLEAN : SwitchRow(form, on)
             \/ SwitchScheduler \/ Tick \/ TakeTick \/ TickBreaks \/ UNCHANGED discoveryVars
      PROVE  UNCHANGED result
  BY <1>6 DEF SwitchRow, SwitchScheduler, Tick, TakeTick, TickBreaks, discoveryVars
<1>7. QED
  BY <1>1, <1>2, <1>3, <1>4, <1>5, <1>6 DEF DiscoveryNext, WorkScan

(* Rows that failures leave.                                               *)
LEMMA AbandonInitInv == DiscoveryInit => AbandonInv
  BY NoScanAssumption DEF DiscoveryInit, AbandonInv, Settled, HasJob, Held, Underway, ScanStatus

Works == {"taken", "scanning", "saved", "completed", "failing"}

(* A step on the job of one scan moves no other's.                         *)
LEMMA HoldsMoves ==
  ASSUME DiscoveryInv, NEW s \in Scans, NEW b \in Works, Held(s, b),
         NEW at \in Works \cup {"waiting", "done"}, at = "waiting" => s \in AskedScans, Holds(s, at)
  PROVE  /\ HasJob(s) /\ (HasJob(s)' <=> at # "done")
         /\ Held(s, "completed")' => at = "completed"
         /\ \A o \in Scans \ {s} : HasJob(o)' <=> HasJob(o)
         /\ \A o \in Scans \ {s} : Held(o, "completed")' => Held(o, "completed")
<1>0. s # NoScan /\ NoScan \notin Scans
  BY NoScanAssumption
<1>1. CASE s \in AskedScans
  <2>1. scanJob' = [scanJob EXCEPT ![s] = at] /\ UNCHANGED tick /\ scanJob[s] = b
    BY <1>1 DEF Holds, Held
  <2>2. scanJob'[s] = at /\ \A o \in AskedScans \ {s} : scanJob'[o] = scanJob[o]
    BY <1>1, <2>1 DEF DiscoveryInv
  <2>3. QED BY <1>1, <2>1, <2>2 DEF HasJob, Held, Works
<1>2. CASE s \notin AskedScans
  <2>1. tick = [at |-> b, row |-> s] /\ UNCHANGED scanJob
    BY <1>2 DEF Held, Holds
  <2>2. CASE at = "done"
    <3>1. tick' = [at |-> "none", row |-> NoScan]
      BY <1>2, <2>2 DEF Holds
    <3>2. QED BY <1>0, <1>2, <2>1, <2>2, <3>1 DEF HasJob, Held
  <2>3. CASE at # "done"
    <3>1. tick' = [at |-> at, row |-> s]
      BY <1>2, <2>3 DEF Holds
    <3>2. QED BY <1>0, <1>2, <2>1, <2>3, <3>1 DEF HasJob, Held
  <2>4. QED BY <2>2, <2>3
<1>3. QED BY <1>1, <1>2

LEMMA HoldsTick ==
  ASSUME AbandonInv, NEW s \in Scans,
         NEW at \in Works \cup {"waiting", "done"}, at = "waiting" => s \in AskedScans, Holds(s, at)
  PROVE  tick'.at \in {"none", "waiting"} => tick'.row = NoScan
<1>1. CASE s \in AskedScans
  BY <1>1 DEF Holds, AbandonInv
<1>2. CASE s \notin AskedScans
  BY <1>2 DEF Holds, Works
<1>3. QED BY <1>1, <1>2

(* A scan that goes on keeps its job; one that ends has freed its subnet,  *)
(* or is abandoned.                                                        *)
LEMMA ScanGoesOn ==
  ASSUME DiscoveryInv, AbandonInv, NEW s \in Scans, NEW b \in Works, Held(s, b),
         NEW at \in Works \cup {"waiting", "done"}, at = "waiting" => s \in AskedScans, Holds(s, at),
         \A o \in Scans \ {s} : scan'[o] = scan[o],
         at = "completed" => scan'[s] = "COMPLETED",
         \/ /\ UNCHANGED abandoned
            /\ at = "done" => scan'[s] \notin Underway
         \/ at = "done" /\ scan'[s] = scan[s] /\ Abandons(s),
         died' \in SUBSET AskedScans
  PROVE  AbandonInv'
<1>1. /\ HasJob(s) /\ (HasJob(s)' <=> at # "done")
      /\ Held(s, "completed")' => at = "completed"
      /\ \A o \in Scans \ {s} : HasJob(o)' <=> HasJob(o)
      /\ \A o \in Scans \ {s} : Held(o, "completed")' => Held(o, "completed")
  BY HoldsMoves
<1>2. s \notin abandoned
  BY <1>1 DEF AbandonInv, Settled
<1>3. ASSUME NEW o \in Scans, Held(o, "completed")'
      PROVE  scan'[o] = "COMPLETED"
  <2>1. CASE o = s
    <3>1. at = "completed"
      BY <1>1, <1>3, <2>1
    <3>2. QED BY <2>1, <3>1
  <2>2. CASE o # s
    <3>1. Held(o, "completed")
      BY <1>1, <1>3, <2>2
    <3>2. QED BY <2>2, <3>1 DEF AbandonInv
  <2>3. QED BY <2>1, <2>2
<1>4. abandoned' \in SUBSET Scans
  BY DEF Abandons, AbandonInv
<1>5. ASSUME NEW o \in Scans \ {s}
      PROVE  Settled(o)'
  <2>1. o \in abandoned' <=> o \in abandoned
    BY DEF Abandons
  <2>2. scan'[o] = scan[o] /\ (HasJob(o)' <=> HasJob(o))
    BY <1>1
  <2>3. o \in abandoned <=> scan[o] \in Underway /\ ~HasJob(o)
    BY DEF AbandonInv, Settled
  <2>4. QED BY <2>1, <2>2, <2>3 DEF Settled
<1>6. Settled(s)'
  <2>1. CASE UNCHANGED abandoned /\ (at = "done" => scan'[s] \notin Underway)
    BY <1>1, <1>2, <2>1 DEF Settled
  <2>2. CASE at = "done" /\ scan'[s] = scan[s] /\ Abandons(s)
    BY <1>1, <1>2, <2>2 DEF Settled, Abandons, ActiveScans
  <2>3. QED BY <2>1, <2>2
<1>7. tick'.at \in {"none", "waiting"} => tick'.row = NoScan
  BY HoldsTick
<1>8. QED BY <1>3, <1>4, <1>5, <1>6, <1>7 DEF AbandonInv

LEMMA AbandonWork ==
  ASSUME DiscoveryInv, AbandonInv, NEW s \in Scans, WorkScan(s) \/ ScanBreaks(s)
  PROVE  AbandonInv'
<1>0. UNCHANGED died /\ died' \in SUBSET AskedScans
  BY DEF WorkScan, StartScan, SaveResults, CompleteScan, FailScan, EndScan, ScanBreaks, AbandonInv
<1>1. CASE StartScan(s)
  <2>0. Held(s, "taken") /\ UNCHANGED abandoned
    BY <1>1 DEF StartScan
  <2>1. CASE \E o \in Scans \ {s} : scan[o] \in Underway
    <3>1. Holds(s, "done") /\ UNCHANGED scan
      BY <1>1, <2>1 DEF StartScan
    <3>2. scan[s] \notin Underway
      BY <2>1 DEF DiscoveryInv
    <3>3. QED BY <1>0, <2>0, <3>1, <3>2, ScanGoesOn DEF Works
  <2>2. CASE ~\E o \in Scans \ {s} : scan[o] \in Underway
    <3>1. Holds(s, "scanning") /\ scan' = [scan EXCEPT ![s] = "RUNNING"]
      BY <1>1, <2>2 DEF StartScan
    <3>2. \A o \in Scans \ {s} : scan'[o] = scan[o]
      BY <3>1 DEF DiscoveryInv
    <3>3. QED BY <1>0, <2>0, <3>1, <3>2, ScanGoesOn DEF Works
  <2>3. QED BY <2>1, <2>2
<1>2. CASE SaveResults(s)
  <2>1. PICK at \in {"saved", "failing"} : Holds(s, at)
    BY <1>2 DEF SaveResults
  <2>2. Held(s, "scanning") /\ UNCHANGED <<scan, abandoned>>
    BY <1>2 DEF SaveResults
  <2>3. QED BY <1>0, <2>1, <2>2, ScanGoesOn DEF Works
<1>3. CASE CompleteScan(s)
  <2>1. Held(s, "saved") /\ Holds(s, "completed") /\ UNCHANGED abandoned
    BY <1>3 DEF CompleteScan
  <2>2. scan'[s] = "COMPLETED" /\ \A o \in Scans \ {s} : scan'[o] = scan[o]
    BY <1>3 DEF CompleteScan, DiscoveryInv
  <2>3. QED BY <1>0, <2>1, <2>2, ScanGoesOn DEF Works
<1>4. CASE FailScan(s)
  <2>1. Held(s, "failing") /\ Holds(s, "done") /\ UNCHANGED abandoned
    BY <1>4 DEF FailScan
  <2>2. scan'[s] \notin Underway /\ \A o \in Scans \ {s} : scan'[o] = scan[o]
    BY <1>4 DEF FailScan, DiscoveryInv, Underway
  <2>3. QED BY <1>0, <2>1, <2>2, ScanGoesOn DEF Works
<1>5. CASE EndScan(s)
  <2>1. Held(s, "completed") /\ Holds(s, "done") /\ UNCHANGED <<scan, abandoned>>
    BY <1>5 DEF EndScan
  <2>2. scan'[s] \notin Underway
    BY <2>1 DEF AbandonInv, Underway
  <2>3. QED BY <1>0, <2>1, <2>2, ScanGoesOn DEF Works
<1>6. CASE ScanBreaks(s)
  <2>0. UNCHANGED scan
    BY <1>6 DEF ScanBreaks
  <2>1. CASE (Held(s, "scanning") \/ Held(s, "saved")) /\ Holds(s, "failing") /\ UNCHANGED abandoned
    <3>1. PICK b \in Works : Held(s, b)
      BY <2>1 DEF Works
    <3>2. QED BY <1>0, <2>0, <2>1, <3>1, ScanGoesOn DEF Works
  <2>2. CASE /\ \E at \in {"taken", "saved", "failing"} : Held(s, at)
             /\ Holds(s, "done") /\ Abandons(s)
    <3>1. PICK b \in Works : Held(s, b)
      BY <2>2 DEF Works
    <3>2. QED BY <1>0, <2>0, <2>2, <3>1, ScanGoesOn DEF Works
  <2>3. QED BY <1>6, <2>1, <2>2 DEF ScanBreaks
<1>7. QED BY <1>1, <1>2, <1>3, <1>4, <1>5, <1>6 DEF WorkScan

LEMMA AbandonDeath ==
  ASSUME DiscoveryInv, AbandonInv, NEW s \in Scans, WorkerDies(s)
  PROVE  AbandonInv'
<1>0. UNCHANGED scan
  BY DEF WorkerDies
<1>1. PICK b \in Works : Held(s, b)
  BY DEF WorkerDies, Works
<1>2. CASE s \in AskedScans /\ s \notin died
  <2>1. Holds(s, "waiting") /\ UNCHANGED abandoned /\ died' \in SUBSET AskedScans
    BY <1>2 DEF WorkerDies, AbandonInv
  <2>2. QED BY <1>0, <1>1, <1>2, <2>1, ScanGoesOn
<1>3. CASE ~(s \in AskedScans /\ s \notin died)
  <2>1. Abandons(s) /\ UNCHANGED died /\ died' \in SUBSET AskedScans
    BY <1>3 DEF WorkerDies, AbandonInv
  <2>2. CASE Holds(s, "done")
    BY <1>0, <1>1, <2>1, <2>2, ScanGoesOn
  <2>3. CASE s \notin AskedScans /\ tick' = [at |-> "waiting", row |-> NoScan] /\ UNCHANGED scanJob
    <3>1. tick = [at |-> b, row |-> s] /\ NoScan \notin Scans
      BY <1>1, <2>3, NoScanAssumption DEF Held
    <3>2. HasJob(s) /\ ~HasJob(s)' /\ \A o \in Scans \ {s} : HasJob(o)' <=> HasJob(o)
      BY <2>3, <3>1 DEF HasJob
    <3>3. \A o \in Scans : Held(o, "completed")' => Held(o, "completed")
      BY <2>3, <3>1 DEF Held
    <3>4. \A o \in Scans : o \in abandoned' <=> o \in abandoned \/ (o = s /\ scan[s] \in Underway)
      BY <2>1 DEF Abandons, ActiveScans
    <3>5. \A o \in Scans : Settled(o)'
      BY <1>0, <3>2, <3>4 DEF Settled, AbandonInv
    <3>6. abandoned' \in SUBSET Scans
      BY <2>1 DEF Abandons, AbandonInv
    <3>7. QED BY <1>0, <2>1, <2>3, <3>3, <3>5, <3>6 DEF AbandonInv
  <2>4. QED BY <1>3, <2>2, <2>3 DEF WorkerDies
<1>4. QED BY <1>2, <1>3

LEMMA AbandonRequest ==
  ASSUME DiscoveryInv, AbandonInv, NEW s \in AskedScans, AskScan(s) \/ AddScan(s) \/ TakeScan(s)
  PROVE  AbandonInv'
<1>0. s \in Scans /\ NoScan \notin Scans
  BY NoScanAssumption DEF Scans
<1>1. PICK at \in {"none", "adding", "waiting", "taken"} : scanJob' = [scanJob EXCEPT ![s] = at]
  BY DEF AskScan, AddScan, TakeScan
<1>2. UNCHANGED <<tick, died>>
  BY DEF AskScan, AddScan, TakeScan
<1>3. scanJob'[s] = at /\ \A o \in AskedScans \ {s} : scanJob'[o] = scanJob[o]
  BY <1>1 DEF DiscoveryInv
<1>4. (HasJob(s)' <=> at # "none") /\ ~Held(s, "completed")'
  BY <1>3 DEF HasJob, Held
<1>5. ASSUME NEW o \in Scans \ {s}
      PROVE  (HasJob(o)' <=> HasJob(o)) /\ (Held(o, "completed")' <=> Held(o, "completed"))
  BY <1>2, <1>3 DEF HasJob, Held
<1>6. \A o \in Scans \ {s} : scan'[o] = scan[o]
  BY DEF AskScan, AddScan, TakeScan, DiscoveryInv
<1>7. /\ abandoned' \in SUBSET Scans
      /\ \A o \in Scans \ {s} : o \in abandoned' <=> o \in abandoned
  <2>1. UNCHANGED abandoned \/ abandoned' = abandoned \cup ({s} \cap ActiveScans)
    BY DEF AskScan, AddScan, TakeScan, Abandons
  <2>2. QED BY <1>0, <2>1 DEF AbandonInv
<1>8. Settled(s)'
  <2>1. CASE AskScan(s)
    <3>1. scanJob'[s] = "adding" /\ UNCHANGED abandoned /\ scan[s] = NoScan
      BY <2>1 DEF AskScan, DiscoveryInv, Free
    <3>2. scan[s] \notin Underway
      BY <3>1, NoScanAssumption DEF Underway, ScanStatus
    <3>3. s \notin abandoned
      BY <1>0, <3>2 DEF AbandonInv, Settled
    <3>4. QED BY <3>1, <3>3 DEF Settled, HasJob
  <2>2. CASE AddScan(s)
    <3>1. HasJob(s) /\ UNCHANGED scan
      BY <2>2 DEF AddScan, HasJob
    <3>2. s \notin abandoned
      BY <1>0, <3>1 DEF AbandonInv, Settled
    <3>3. CASE scanJob' = [scanJob EXCEPT ![s] = "waiting"] /\ UNCHANGED abandoned
      <4>1. scanJob'[s] = "waiting"
        BY <3>3 DEF DiscoveryInv
      <4>2. QED BY <3>2, <3>3, <4>1 DEF Settled, HasJob
    <3>4. CASE scanJob' = [scanJob EXCEPT ![s] = "none"] /\ Abandons(s)
      <4>1. scanJob'[s] = "none"
        BY <3>4 DEF DiscoveryInv
      <4>2. QED BY <1>0, <3>1, <3>2, <3>4, <4>1 DEF Settled, HasJob, Abandons, ActiveScans
    <3>5. QED BY <2>2, <3>3, <3>4 DEF AddScan
  <2>3. CASE TakeScan(s)
    <3>1. HasJob(s) /\ UNCHANGED abandoned /\ scanJob'[s] = "taken"
      BY <2>3 DEF TakeScan, HasJob, DiscoveryInv
    <3>2. s \notin abandoned
      BY <1>0, <3>1 DEF AbandonInv, Settled
    <3>3. QED BY <3>1, <3>2 DEF Settled, HasJob
  <2>4. QED BY <2>1, <2>2, <2>3
<1>9. ASSUME NEW o \in Scans
      PROVE  Settled(o)' /\ (Held(o, "completed")' => scan'[o] = "COMPLETED")
  <2>1. CASE o = s
    BY <1>4, <1>8, <2>1
  <2>2. CASE o # s
    <3>1. /\ scan'[o] = scan[o] /\ (HasJob(o)' <=> HasJob(o)) /\ (o \in abandoned' <=> o \in abandoned)
          /\ Held(o, "completed")' <=> Held(o, "completed")
      BY <1>5, <1>6, <1>7, <2>2
    <3>2. Settled(o) /\ (Held(o, "completed") => scan[o] = "COMPLETED")
      BY DEF AbandonInv
    <3>3. Settled(o)'
      BY <3>1, <3>2 DEF Settled
    <3>4. QED BY <3>1, <3>2, <3>3
  <2>3. QED BY <2>1, <2>2
<1>10. QED BY <1>2, <1>7, <1>9 DEF AbandonInv

(* What moves neither a row nor a job with one abandons nothing.           *)
LEMMA AbandonIdle ==
  ASSUME DiscoveryInv, AbandonInv, UNCHANGED <<scan, scanJob, died, abandoned>>,
         \/ UNCHANGED tick
         \/ tick.row = NoScan /\ tick'.row = NoScan
  PROVE  AbandonInv'
<1>1. \A s \in Scans : (HasJob(s)' <=> HasJob(s)) /\ (Held(s, "completed")' => Held(s, "completed"))
  BY NoScanAssumption DEF HasJob, Held
<1>2. \A s \in Scans : Settled(s)'
  BY <1>1 DEF AbandonInv, Settled
<1>3. QED BY <1>1, <1>2 DEF AbandonInv

LEMMA AbandonTick == ASSUME DiscoveryInv, AbandonInv, TakeTick PROVE AbandonInv'
<1>0. tick.row = NoScan /\ NoScan \notin Scans /\ UNCHANGED <<scanJob, died, abandoned>>
  BY NoScanAssumption DEF TakeTick, AbandonInv
<1>1. CASE plan.schedule /\ ~Busy
  <2>1. PICK s \in TimedScans :
          Free(s) /\ scan' = [scan EXCEPT ![s] = "PENDING"] /\ tick' = [at |-> "taken", row |-> s]
    BY <1>1 DEF TakeTick
  <2>2. s \in Scans /\ s \notin AskedScans
    BY RowsHaveOneOrigin DEF Scans
  <2>3. HasJob(s)' /\ \A o \in Scans \ {s} : HasJob(o)' <=> HasJob(o)
    BY <1>0, <2>1, <2>2 DEF HasJob
  <2>4. scan'[s] = "PENDING" /\ \A o \in Scans \ {s} : scan'[o] = scan[o]
    BY <2>1, <2>2 DEF DiscoveryInv
  <2>5. s \notin abandoned
    BY <2>1, <2>2, NoScanAssumption DEF AbandonInv, Settled, Free, Underway, ScanStatus
  <2>6. ASSUME NEW o \in Scans
        PROVE  Settled(o)' /\ (Held(o, "completed")' => scan'[o] = "COMPLETED")
    <3>1. CASE o = s
      BY <1>0, <2>1, <2>2, <2>3, <2>5, <3>1 DEF Settled, Held
    <3>2. CASE o # s
      <4>1. Settled(o)'
        BY <1>0, <2>3, <2>4, <3>2 DEF Settled, AbandonInv
      <4>2. Held(o, "completed")' => Held(o, "completed")
        BY <1>0, <2>1, <3>2 DEF Held
      <4>3. QED BY <2>4, <3>2, <4>1, <4>2 DEF AbandonInv
    <3>3. QED BY <3>1, <3>2
  <2>7. QED BY <1>0, <2>1, <2>6 DEF AbandonInv
<1>2. CASE ~(plan.schedule /\ ~Busy)
  BY <1>0, <1>2, AbandonIdle DEF TakeTick
<1>3. QED BY <1>1, <1>2

LEMMA AbandonInvStep == DiscoveryInv /\ AbandonInv /\ [DiscoveryNext]_discoveryVars => AbandonInv'
<1> SUFFICES ASSUME DiscoveryInv, AbandonInv, [DiscoveryNext]_discoveryVars PROVE AbandonInv'
  OBVIOUS
<1>1. ASSUME NEW form, NEW on, SwitchRow(form, on)
      PROVE  AbandonInv'
  BY <1>1, AbandonIdle DEF SwitchRow
<1>2. CASE SwitchScheduler
  BY <1>2, AbandonIdle DEF SwitchScheduler
<1>3. CASE Tick
  <2>1. tick.row = NoScan /\ tick' = [at |-> "waiting", row |-> NoScan]
    BY <1>3 DEF Tick, AbandonInv
  <2>2. QED BY <1>3, <2>1, AbandonIdle DEF Tick
<1>4. CASE TickBreaks
  <2>1. tick.row = NoScan /\ tick' = [at |-> "none", row |-> NoScan]
    BY <1>4 DEF TickBreaks, AbandonInv
  <2>2. QED BY <1>4, <2>1, AbandonIdle DEF TickBreaks
<1>5. ASSUME NEW s, NEW a, NEW decision, ReviewResult(s, a, decision)
      PROVE  AbandonInv'
  BY <1>5, AbandonIdle DEF ReviewResult
<1>6. CASE UNCHANGED discoveryVars
  BY <1>6, AbandonIdle DEF discoveryVars
<1>7. QED
  BY <1>1, <1>2, <1>3, <1>4, <1>5, <1>6, AbandonRequest, AbandonTick, AbandonWork, AbandonDeath
  DEF DiscoveryNext

\* A row that keeps its subnet busy has a job, unless one of the failures named left
\* it: the errors that the try of processJob meets leave none, nor does the index
\* that refuses a row, nor the first death under a scan asked for; and a row that is
\* left stays so. For any number of scans, faults and changes of the schedule.
THEOREM RowsAreAbandonedByFailures == DiscoverySpec => []OnlyFailuresAbandonRows
<1>1. AbandonInv => OnlyFailuresAbandonRows
  BY DEF AbandonInv, Settled, OnlyFailuresAbandonRows, ActiveScans
<1>2. DiscoverySpec => [](DiscoveryInv /\ AbandonInv)
  BY DiscoveryInitInv, DiscoveryInvStep, AbandonInitInv, AbandonInvStep, PTL DEF DiscoverySpec
<1>3. QED BY <1>1, <1>2, PTL

\* What an operator decided about a result is never overwritten by a scan that
\* the queue hands out again: saveResults is refused as a whole.
THEOREM DecisionsAreKept == DiscoverySpec => DecisionsStand
<1>1. DiscoverySpec => []DiscoveryInv
  BY DiscoveryInitInv, DiscoveryInvStep, PTL DEF DiscoverySpec
<1>2. DiscoveryInv /\ [DiscoveryNext]_discoveryVars
        => [\A s \in Scans, a \in Addresses :
              result[s][a] \in Decision => result'[s][a] = result[s][a]]_discoveryVars
  BY DecidedStep
<1>3. QED
  BY <1>1, <1>2, PTL DEF DiscoverySpec, DecisionsStand

-----------------------------------------------------------------------------
(* The agent on the SNMP host.                                             *)

Files == {NoFile} \cup SUBSET (Nics \cup All)
AgentState == [at : {"idle", "report", "choice", "compare", "up"},
               current : SUBSET Nics, existing : SUBSET Nics, want : SUBSET (Nics \cup All)]

LEMMA ListenInitTypes == ListenInit => ListenTypeOK
<1> SUFFICES ASSUME ListenInit PROVE ListenTypeOK
  OBVIOUS
<1>1. misled \in BOOLEAN
  BY DEF ListenInit
<1>2. NoChoice \in Choice
  BY DEF NoChoice, Choice
<1>3. QED
  BY <1>1, <1>2 DEF ListenInit, ListenTypeOK, Idle

LEMMA IdleTyped == Idle \in AgentState
  BY DEF Idle, AgentState

(* The agent: what it does next, and the addresses it works with.          *)
LEMMA AgentTyped ==
  ASSUME ListenTypeOK, AgentStep \/ InspectFails \/ \E bool \in BOOLEAN : ComposeFails(bool) \/ RefreshStops(bool)
  PROVE  /\ agent' \in AgentState /\ {applied', override', container'} \subseteq Files
         /\ misled' \in BOOLEAN /\ failures' \in 0 .. MaxFailures
<1> USE IdleTyped DEF ListenTypeOK, Agent
<1>0. /\ agent \in AgentState /\ {applied, override, container} \subseteq Files /\ misled \in BOOLEAN
      /\ failures \in 0 .. MaxFailures
      /\ \A at \in {"idle", "report", "choice", "compare", "up"} : [agent EXCEPT !.at = at] \in AgentState
      /\ agent.want \in Files
  BY DEF AgentState, Files
<1>1. CASE ReadInterfaces
  <2>1. [Idle EXCEPT !.at = "report", !.current = nics, !.existing = reported \cup aged] \in AgentState
    BY DEF Idle, AgentState
  <2>2. QED BY <1>0, <1>1, <2>1 DEF ReadInterfaces
<1>2. CASE ReportInterfaces
  BY <1>0, <1>2 DEF ReportInterfaces
<1>3. CASE ReadChoice
  <2>1. HostAddresses(chosen, agent.current) \in SUBSET (Nics \cup All)
    BY <1>0 DEF HostAddresses, AgentState
  <2>2. \A w \in SUBSET (Nics \cup All) : [agent EXCEPT !.at = "compare", !.want = w] \in AgentState
    BY <1>0 DEF AgentState
  <2>3. QED BY <1>0, <1>3, <2>1, <2>2 DEF ReadChoice
<1>4. CASE WriteOverride
  BY <1>0, <1>4 DEF WriteOverride
<1>5. CASE InspectFails
  BY <1>0, <1>5 DEF InspectFails, Fails
<1>6. CASE ComposeUp
  <2>1. misled' \in BOOLEAN
    BY <1>6 DEF ComposeUp
  <2>2. QED BY <1>0, <1>6, <2>1 DEF ComposeUp
<1>7. ASSUME NEW acted \in BOOLEAN, ComposeFails(acted)
      PROVE  /\ agent' \in AgentState /\ {applied', override', container'} \subseteq Files
             /\ misled' \in BOOLEAN /\ failures' \in 0 .. MaxFailures
  <2>1. misled' \in BOOLEAN
    BY <1>7 DEF ComposeFails
  <2>2. container' = override \/ container' = container
    BY <1>7 DEF ComposeFails
  <2>3. QED BY <1>0, <1>7, <2>1, <2>2 DEF ComposeFails, Fails
<1>8. ASSUME NEW crash \in BOOLEAN, RefreshStops(crash)
      PROVE  /\ agent' \in AgentState /\ {applied', override', container'} \subseteq Files
             /\ misled' \in BOOLEAN /\ failures' \in 0 .. MaxFailures
  <2>1. misled' \in BOOLEAN
    BY <1>8 DEF RefreshStops
  <2>2. applied' \in Files
    BY <1>0, <1>8 DEF RefreshStops, Files
  <2>3. QED BY <1>0, <1>8, <2>1, <2>2 DEF RefreshStops, Fails
<1>9. QED BY <1>1, <1>2, <1>3, <1>4, <1>5, <1>6, <1>7, <1>8 DEF AgentStep

(* Of the rows and the settings the agent writes the interfaces it saw.    *)
LEMMA AgentRows ==
  ASSUME ListenTypeOK, AgentStep \/ InspectFails \/ \E bool \in BOOLEAN : ComposeFails(bool) \/ RefreshStops(bool)
  PROVE  /\ reported' \subseteq Nics /\ aged' \subseteq Nics /\ reported' \cap aged' = {}
         /\ UNCHANGED <<nics, chosen, choosing, changes>>
<1>1. CASE ReportInterfaces
  <2>1. UNCHANGED <<nics, chosen, choosing, changes>>
    BY <1>1 DEF ReportInterfaces, Agent
  <2>2. QED BY <1>1, <2>1 DEF ReportInterfaces, ListenTypeOK
<1>2. ASSUME \/ ReadInterfaces \/ ReadChoice \/ WriteOverride \/ ComposeUp \/ InspectFails
             \/ \E bool \in BOOLEAN : ComposeFails(bool) \/ RefreshStops(bool)
      PROVE  UNCHANGED <<nics, chosen, choosing, changes, reported, aged>>
  BY <1>2 DEF ReadInterfaces, ReadChoice, WriteOverride, ComposeUp, InspectFails, ComposeFails,
              RefreshStops, Agent
<1>3. QED BY <1>1, <1>2 DEF AgentStep, ListenTypeOK

LEMMA ListenTypesStep == ListenTypeOK /\ [ListenNext]_listenVars => ListenTypeOK'
<1> SUFFICES ASSUME ListenTypeOK, [ListenNext]_listenVars
             PROVE  ListenTypeOK'
  OBVIOUS
<1>1. ASSUME AgentStep \/ InspectFails \/ \E bool \in BOOLEAN : ComposeFails(bool) \/ RefreshStops(bool)
      PROVE  ListenTypeOK'
  BY <1>1, AgentTyped, AgentRows DEF ListenTypeOK, AgentState, Files
<1> USE DEF ListenTypeOK
<1>2. ASSUME NEW ids \in SUBSET Nics, NEW all \in BOOLEAN, CheckChoice(all, ids)
      PROVE  ListenTypeOK'
  <2>1. choosing' \in Choice
    BY <1>2 DEF CheckChoice, Choice
  <2>2. changes' \in 0 .. MaxChanges
    BY <1>2 DEF CheckChoice, Changes
  <2>3. QED BY <1>2, <2>1, <2>2 DEF CheckChoice
<1>3. CASE WriteChoice
  <2>1. choosing' \in Choice /\ chosen' \in Choice
    BY <1>3 DEF WriteChoice, NoChoice, Choice
  <2>2. QED BY <1>3, <2>1 DEF WriteChoice
<1>4. CASE Age
  BY <1>4 DEF Age
<1>5. CASE Redeploy
  BY <1>5 DEF Redeploy, Changes
<1>6. ASSUME NEW on \in SUBSET Nics, Plug(on)
      PROVE  ListenTypeOK'
  BY <1>6 DEF Plug, Changes
<1>7. CASE UNCHANGED listenVars
  BY <1>7 DEF listenVars
<1>8. QED
  BY <1>1, <1>2, <1>3, <1>4, <1>5, <1>6, <1>7 DEF ListenNext

-----------------------------------------------------------------------------
(* The sockets of the receiver.                                            *)

(* While sockets are being opened the receiver is not ready and remembers  *)
(* none; what is opened, and kept once secrets are read, is never empty.   *)
SocketsInv ==
  /\ SocketsTypeOK
  /\ refresh # NoRefresh /\ refresh.at # "choice" => refresh.addresses # {}
  /\ refresh # NoRefresh /\ refresh.at = "open" =>
       ~ready /\ bound = {} /\ sockets \subseteq refresh.addresses
  /\ refresh # NoRefresh /\ refresh.at = "secrets" => bound = refresh.addresses
  /\ SocketsAreRemembered

LEMMA SocketsInitInv == SocketsInit => SocketsInv
<1> SUFFICES ASSUME SocketsInit PROVE SocketsInv
  OBVIOUS
<1>1. ~ready /\ ready \in BOOLEAN
  BY DEF SocketsInit
<1>2. QED
  BY <1>1 DEF SocketsInit, SocketsInv, SocketsTypeOK, SocketsAreRemembered

LEMMA RefreshingTyped ==
  ASSUME NEW at \in {"choice", "bind", "open", "secrets"}, NEW s \in SUBSET (SocketNics \cup {Any})
  PROVE  /\ Refreshing(at, s) \in Refresh /\ Refreshing(at, s) # NoRefresh
         /\ Refreshing(at, s).at = at /\ Refreshing(at, s).addresses = s
  BY DEF Refreshing, Refresh

LEMMA SocketsInvStep == SocketsInv /\ [SocketsNext]_socketVars => SocketsInv'
<1> SUFFICES ASSUME SocketsInv, [SocketsNext]_socketVars
             PROVE  SocketsInv'
  OBVIOUS
<1> USE RefreshingTyped DEF SocketsInv, SocketsTypeOK, SocketsAreRemembered
<1>0. ready' = FALSE => ~ready' /\ ready' \in BOOLEAN
  OBVIOUS
<1>1. refresh # NoRefresh =>
        /\ refresh.at \in {"choice", "bind", "open", "secrets"}
        /\ refresh.addresses \in SUBSET (SocketNics \cup {Any})
  BY DEF Refresh
<1>2. CASE StartRefresh
  BY <1>2 DEF StartRefresh
<1>3. CASE ReadListenerConfig
  <2>1. Configured(refresh.addresses) \in SUBSET (SocketNics \cup {Any})
    BY DEF Configured
  <2>2. UNCHANGED <<ingress, present, wanted, inventory, nicTurns, socketFaults>>
    BY <1>3 DEF ReadListenerConfig
  <2>3. CASE Configured(refresh.addresses) = {}
    <3>1. sockets' = {} /\ bound' = {} /\ refresh' = NoRefresh
      BY <1>3, <2>3 DEF ReadListenerConfig
    <3>2. ~ready' /\ ready' \in BOOLEAN
      BY <1>0, <1>3, <2>3 DEF ReadListenerConfig
    <3>3. QED BY <2>2, <3>1, <3>2
  <2>4. CASE Configured(refresh.addresses) # {}
    BY <1>1, <1>3, <2>1, <2>2, <2>4 DEF ReadListenerConfig
  <2>5. QED BY <2>3, <2>4
<1>4. CASE Rebind
  BY <1>1, <1>0, <1>4 DEF Rebind
<1>5. ASSUME NEW n \in SocketNics \cup {Any}, OpenSocket(n)
      PROVE  SocketsInv'
  BY <1>1, <1>5 DEF OpenSocket
<1>6. CASE AllOpen
  BY <1>1, <1>6 DEF AllOpen
<1>7. ASSUME NEW n \in SocketNics \cup {Any}, OpenFails(n)
      PROVE  SocketsInv'
  BY <1>1, <1>7 DEF OpenFails
<1>8. CASE SecretsRead
  BY <1>1, <1>8 DEF SecretsRead
<1>9. CASE SecretsFail
  BY <1>1, <1>9 DEF SecretsFail
<1>10. CASE CloseAll
  BY <1>0, <1>10 DEF CloseAll
<1>11. ASSUME NEW n \in SocketNics, NicTurns(n)
       PROVE  SocketsInv'
  BY <1>11 DEF NicTurns
<1>12. ASSUME NEW n \in SocketNics, RowExpires(n)
       PROVE  SocketsInv'
  BY <1>12 DEF RowExpires
<1>13. ASSUME NEW choice \in {{Any}} \cup SUBSET SocketNics, Choose(choice)
       PROVE  SocketsInv'
  BY <1>13 DEF Choose
<1>14. CASE UNCHANGED socketVars
  BY <1>14 DEF socketVars
<1>15. QED
  BY <1>2, <1>3, <1>4, <1>5, <1>6, <1>7, <1>8, <1>9, <1>10, <1>11, <1>12, <1>13, <1>14
  DEF SocketsNext, RefreshStep

\* A trap receiver that is ready, or not just binding, has the sockets it
\* remembers as boundAddresses, and is never ready with none.
THEOREM SocketsRemembered == SocketsSpec => []SocketsAreRemembered
<1>1. SocketsInv => SocketsAreRemembered
  BY DEF SocketsInv
<1>2. QED
  BY <1>1, SocketsInitInv, SocketsInvStep, PTL DEF SocketsSpec

-----------------------------------------------------------------------------
(* All of them, as the instances of the runs compose them.                 *)

WorkInv ==
  /\ part \in Part
  /\ AlertInv /\ QualityInv /\ StreamInv /\ TrapInv /\ DiscoveryInv /\ AbandonInv
  /\ ListenTypeOK /\ SocketsInv

LEMMA WorkInitInv == WorkInit => WorkInv
  BY AlertInitInv, QualityInitInv, StreamInitInv, TrapInitInv, DiscoveryInitInv, AbandonInitInv,
     ListenInitTypes, SocketsInitInv DEF WorkInit, WorkInv

LEMMA WorkInvStep == WorkInv /\ [WorkNext]_workVars => WorkInv'
<1>1. ASSUME WorkInv, [AlertNext]_alertVars, [QualityNext]_qualityVars, [StreamNext]_streamVars,
             [TrapNext]_trapVars, [DiscoveryNext]_discoveryVars, [ListenNext]_listenVars,
             [SocketsNext]_socketVars, UNCHANGED part
      PROVE  WorkInv'
  BY <1>1, AlertInvStep, QualityInvStep, StreamInvStep, TrapInvStep, DiscoveryInvStep,
     AbandonInvStep, ListenTypesStep, SocketsInvStep DEF WorkInv
<1>2. WorkNext => /\ [AlertNext]_alertVars /\ [QualityNext]_qualityVars /\ [StreamNext]_streamVars
                  /\ [TrapNext]_trapVars /\ [DiscoveryNext]_discoveryVars /\ [ListenNext]_listenVars
                  /\ [SocketsNext]_socketVars /\ UNCHANGED part
  BY DEF WorkNext, OnlyAlerts, OnlyQuality, OnlyStream, OnlyTraps, OnlyDiscovery, OnlyListeners,
         OnlySockets
<1>3. UNCHANGED workVars =>
        UNCHANGED <<alertVars, qualityVars, streamVars, trapVars, discoveryVars, listenVars,
                    socketVars, part>>
  BY DEF workVars
<1>4. QED BY <1>1, <1>2, <1>3

\* Every row, handler, job and answer keeps its shape and refers to what is
\* there; one scan of a subnet is active; an interface is not fresh and aged.
THEOREM BackgroundTypes == WorkSpec => []WorkTypeOK
<1>1. WorkInv => WorkTypeOK
  BY AlertInvTypes, QualityInvTypes, TrapInvTypes, DiscoveryInvTypes
  DEF WorkInv, WorkTypeOK, StreamInv, SocketsInv
<1>2. WorkSpec => WorkInit /\ [][WorkNext]_workVars
  BY DEF WorkSpec
<1>3. QED
  BY <1>1, <1>2, WorkInitInv, WorkInvStep, PTL
=============================================================================
