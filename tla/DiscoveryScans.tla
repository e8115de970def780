--------------------------- MODULE DiscoveryScans ---------------------------
(***************************************************************************)
(* Discovery of a subnet: scans asked for and scans by schedule, the       *)
(* "discovery" queue and its worker, and the review of what a scan found:  *)
(* apps/api/src/discovery/discovery.worker.ts, apps/api/src/ipam/          *)
(* ipam.service.ts and ipam-advanced.service.ts.                           *)
(*                                                                         *)
(* Two forms switch the schedule of a subnet: discovery-schedule keeps a   *)
(* DiscoverySchedule row, scan-config keeps columns of the subnet. Both    *)
(* use the job scheduler of the subnet; the worker only reads the first.   *)
(***************************************************************************)
EXTENDS Integers

CONSTANTS
  AskedScans,    \* DiscoveryJob rows that requests may create
  TimedScans,    \* DiscoveryJob rows that the schedule may create
  Addresses,     \* addresses of the subnet that answer
  MaxSwitches,   \* times a schedule is switched (a bound)
  MaxFaults,     \* statements and workers that fail (a bound)
  NoScan         \* no row

Scans == AskedScans \cup TimedScans
ScanStatus == {"PENDING", "RUNNING", "COMPLETED", "FAILED"}

ASSUME NoScanAssumption == NoScan \notin Scans \cup ScanStatus
ASSUME RowsHaveOneOrigin == AskedScans \cap TimedScans = {}

Underway == {"PENDING", "RUNNING"}
Decision == {"APPROVED", "IGNORED"}

VARIABLES
  scan,        \* status of the DiscoveryJob rows
  result,      \* status of the DiscoveryResult rows of a scan
  scanJob,     \* jobs of the scans asked for
  died,        \* those whose worker has died once
  tick,        \* the job of the scheduler, and the row it has created
  plan,        \* DiscoverySchedule.enabled, Subnet.scanEnabled, the scheduler itself
  abandoned,   \* history: scans whose job ended, with their row active, by a
               \* failure that the error handling of the worker does not meet
  switches, faults

discoveryVars == <<scan, result, scanJob, died, tick, plan, abandoned, switches, faults>>

Free(s) == scan[s] = NoScan
\* A bug: an index over the scans that run.
BusyRunning == \E s \in Scans : scan[s] = "RUNNING"

\* The partial unique index DiscoveryJob_one_active_per_subnet.
Busy == \E s \in Scans : scan[s] \in Underway

ActiveScans == {s \in Scans : scan[s] \in Underway}
\* The job of s ends, or does not come to be, and its row stays as it is.
Abandons(s) == abandoned' = abandoned \cup ({s} \cap ActiveScans)

Fault == faults < MaxFaults /\ faults' = faults + 1

-----------------------------------------------------------------------------
(* Requests *)

\* runDiscovery and scanSubnet: the row is refused while another is active.
AskScan(s) ==
  /\ Free(s) /\ ~Busy
  /\ scan' = [scan EXCEPT ![s] = "PENDING"]
  /\ scanJob' = [scanJob EXCEPT ![s] = "adding"]
  /\ UNCHANGED <<result, tick, plan, abandoned, switches, faults, died>>

\* Then its job is added; if that fails, the answer is that a scan is active.
AddScan(s) ==
  /\ scanJob[s] = "adding"
  /\ \/ scanJob' = [scanJob EXCEPT ![s] = "waiting"] /\ UNCHANGED <<abandoned, faults>>
     \/ scanJob' = [scanJob EXCEPT ![s] = "none"] /\ Fault /\ Abandons(s)
  /\ UNCHANGED <<scan, result, tick, plan, switches, died>>

\* updateDiscoverySchedule, updateSubnetScan: the row, then the scheduler.
SwitchRow(form, on) ==
  /\ switches < MaxSwitches /\ plan.after = "none"
  /\ plan' = [plan EXCEPT ![form] = on, !.after = IF on THEN "on" ELSE "off"]
  /\ switches' = switches + 1
  /\ UNCHANGED <<scan, result, scanJob, tick, abandoned, faults, died>>

SwitchScheduler ==
  /\ plan.after # "none"
  /\ \/ plan' = [plan EXCEPT !.scheduler = plan.after = "on", !.after = "none"] /\ UNCHANGED faults
     \/ plan' = [plan EXCEPT !.after = "none"] /\ Fault
  /\ UNCHANGED <<scan, result, scanJob, tick, abandoned, switches, died>>

\* reviewResult: one transaction, which claims the result while it is PENDING.
ReviewResult(s, a, decision) ==
  /\ result[s][a] = "PENDING"
  /\ result' = [result EXCEPT ![s][a] = decision]
  /\ UNCHANGED <<scan, scanJob, tick, plan, abandoned, switches, faults, died>>

-----------------------------------------------------------------------------
(* The worker *)

Tick ==
  /\ plan.scheduler /\ tick.at = "none"
  /\ tick' = [at |-> "waiting", row |-> NoScan]
  /\ UNCHANGED <<scan, result, scanJob, plan, abandoned, switches, faults, died>>

\* The row of a scheduled scan; nothing when the schedule is off. While another
\* scan is active the index refuses it, and the job fails.
TakeTick ==
  /\ tick.at = "waiting"
  /\ IF plan.schedule /\ ~Busy
       THEN \E s \in TimedScans :
              /\ Free(s)
              /\ scan' = [scan EXCEPT ![s] = "PENDING"]
              /\ tick' = [at |-> "taken", row |-> s]
       ELSE tick' = [at |-> "none", row |-> NoScan] /\ UNCHANGED scan
  /\ UNCHANGED <<result, scanJob, plan, abandoned, switches, faults, died>>

\* A statement fails before the row of a scheduled scan is there.
TickBreaks ==
  /\ tick.at = "waiting" /\ Fault
  /\ tick' = [at |-> "none", row |-> NoScan]
  /\ UNCHANGED <<scan, result, scanJob, plan, abandoned, switches, died>>

TakeScan(s) ==
  /\ scanJob[s] = "waiting"
  /\ scanJob' = [scanJob EXCEPT ![s] = "taken"]
  /\ UNCHANGED <<scan, result, tick, plan, abandoned, switches, faults, died>>

Held(s, at) == IF s \in AskedScans THEN scanJob[s] = at ELSE tick = [at |-> at, row |-> s]
Holds(s, at) ==
  IF s \in AskedScans
    THEN scanJob' = [scanJob EXCEPT ![s] = at] /\ UNCHANGED tick
    ELSE /\ tick' = IF at = "done" THEN [at |-> "none", row |-> NoScan] ELSE [at |-> at, row |-> s]
         /\ UNCHANGED scanJob

\* RUNNING, whatever it was; the index refuses it while another scan is active,
\* and then the job fails before the scan's own error handling.
StartScan(s) ==
  /\ Held(s, "taken")
  /\ IF \E o \in Scans \ {s} : scan[o] \in Underway
       THEN Holds(s, "done") /\ UNCHANGED scan
       ELSE scan' = [scan EXCEPT ![s] = "RUNNING"] /\ Holds(s, "scanning")
  /\ UNCHANGED <<result, plan, abandoned, switches, faults, died>>

Finds(s, found) ==
  result' = [result EXCEPT ![s] = [a \in Addresses |-> IF a \in found THEN "PENDING" ELSE @[a]]]

\* The results in one insertion, refused as a whole if one of them is there.
SaveResults(s) ==
  /\ Held(s, "scanning")
  /\ \E found \in SUBSET Addresses :
       IF \A a \in found : result[s][a] = "none"
         THEN Finds(s, found) /\ Holds(s, "saved")
         ELSE Holds(s, "failing") /\ UNCHANGED result
  /\ UNCHANGED <<scan, plan, abandoned, switches, faults, died>>

CompleteScan(s) ==
  /\ Held(s, "saved")
  /\ scan' = [scan EXCEPT ![s] = "COMPLETED"]
  /\ Holds(s, "completed")
  /\ UNCHANGED <<result, plan, abandoned, switches, faults, died>>

\* A bug: an error ends the job and leaves the row.
FailScanQuietly(s) ==
  /\ Held(s, "failing")
  /\ Holds(s, "done")
  /\ UNCHANGED <<scan, result, plan, abandoned, switches, faults, died>>

FailScan(s) ==
  /\ Held(s, "failing")
  /\ scan' = [scan EXCEPT ![s] = "FAILED"]
  /\ Holds(s, "done")
  /\ UNCHANGED <<result, plan, abandoned, switches, faults, died>>

EndScan(s) ==
  /\ Held(s, "completed")
  /\ Holds(s, "done")
  /\ UNCHANGED <<scan, result, plan, abandoned, switches, faults, died>>

\* A statement fails. Inside the try the catch goes on; before it (:31 to :43), in
\* the catch (:66, :67) and in the last one, which is returned without an await
\* (:63), the job ends, and has no other attempt.
ScanBreaks(s) ==
  /\ Fault
  /\ \/ (Held(s, "scanning") \/ Held(s, "saved")) /\ Holds(s, "failing") /\ UNCHANGED abandoned
     \/ /\ \E at \in {"taken", "saved", "failing"} : Held(s, at)
        /\ Holds(s, "done") /\ Abandons(s)
  /\ UNCHANGED <<scan, result, plan, switches, died>>

\* The worker dies: the queue hands the job out again, from its beginning, and
\* gives it up the second time. The job of the scheduler names no row: handed out
\* again, it asks for another one.
WorkerDies(s) ==
  /\ \E at \in {"taken", "scanning", "saved", "completed", "failing"} : Held(s, at)
  /\ Fault
  /\ IF s \in AskedScans /\ s \notin died
       THEN Holds(s, "waiting") /\ died' = died \cup {s} /\ UNCHANGED abandoned
       ELSE /\ \/ Holds(s, "done")
               \/ /\ s \notin AskedScans /\ tick' = [at |-> "waiting", row |-> NoScan]
                  /\ UNCHANGED scanJob
            /\ Abandons(s) /\ UNCHANGED died
  /\ UNCHANGED <<scan, result, plan, switches>>

WorkScan(s) ==
  \/ StartScan(s) \/ SaveResults(s) \/ CompleteScan(s) \/ FailScan(s) \/ EndScan(s)

DiscoveryInit ==
  /\ scan = [s \in Scans |-> NoScan]
  /\ result = [s \in Scans |-> [a \in Addresses |-> "none"]]
  /\ scanJob = [s \in AskedScans |-> "none"]
  /\ tick = [at |-> "none", row |-> NoScan]
  /\ plan = [schedule |-> FALSE, column |-> FALSE, scheduler |-> FALSE, after |-> "none"]
  /\ died = {} /\ abandoned = {} /\ switches = 0 /\ faults = 0

DiscoveryNext ==
  \/ \E s \in AskedScans : AskScan(s) \/ AddScan(s) \/ TakeScan(s)
  \/ \E form \in {"schedule", "column"}, on \in BOOLEAN : SwitchRow(form, on)
  \/ SwitchScheduler \/ Tick \/ TakeTick \/ TickBreaks
  \/ \E s \in Scans :
       \/ WorkScan(s) \/ ScanBreaks(s) \/ WorkerDies(s)
       \/ \E a \in Addresses, decision \in Decision : ReviewResult(s, a, decision)

DiscoverySpec == DiscoveryInit /\ [][DiscoveryNext]_discoveryVars
-----------------------------------------------------------------------------
(* Properties *)

\* Rows and jobs keep their shapes; one scan of the subnet is active.
DiscoveryTypeOK ==
  /\ scan \in [Scans -> ScanStatus \cup {NoScan}]
  /\ result \in [Scans -> [Addresses -> {"none", "PENDING"} \cup Decision]]
  /\ \A s, o \in Scans : scan[s] \in Underway /\ scan[o] \in Underway => s = o
  /\ tick.row # NoScan => ~Free(tick.row)
  /\ died \in SUBSET AskedScans /\ abandoned \in SUBSET Scans

\* What an operator has decided about a result stands, though the queue hands the
\* scan out again after a worker died.
DecisionsStand ==
  [][\A s \in Scans, a \in Addresses :
       result[s][a] \in Decision => result'[s][a] = result[s][a]]_discoveryVars

HasJob(s) ==
  IF s \in AskedScans THEN scanJob[s] \notin {"none", "done"} ELSE tick.row = s

\* A row that keeps its subnet busy has a job that will end it, but where a failure
\* has abandoned it that the worker does not handle: the addition of its job, a statement
\* outside the try, a worker's death under a scheduled scan, or the second one under
\* a scan asked for. Then nothing ends it: no job finds an abandoned row.
OnlyFailuresAbandonRows == {s \in ActiveScans : ~HasJob(s)} = abandoned

\* Decisions stand; and a scan, asked for or scheduled, ends and frees its subnet,
\* whichever statement of its try fails and wherever the worker of a scan asked for
\* dies once, unless one of those failures abandons it.
ScansAreHandled ==
  /\ DecisionsStand
  /\ \A s \in Scans : s \in ActiveScans ~> (s \notin ActiveScans \/ s \in abandoned)
=============================================================================
