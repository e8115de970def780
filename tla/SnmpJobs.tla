------------------------------- MODULE SnmpJobs -------------------------------
(***************************************************************************)
(* The SNMP job pipeline: the API (apps/api/src/snmp) creates SnmpJob and  *)
(* SnmpWriteRequest rows and publishes their ids on the BullMQ queue       *)
(* "snmp"; the workers of apps/snmp/src take deliveries, take the Redis    *)
(* lock of the device, talk to it and record the outcome in PostgreSQL.    *)
(*                                                                         *)
(* Every action is one database transaction, one Redis command, one queue  *)
(* call or one exchange with the device: between two of them the code      *)
(* awaits, and any other actor may step.                                   *)
(***************************************************************************)
EXTENDS Naturals, FiniteSets

CONSTANTS
  Devices,           \* managed devices (Device.id)
  Jobs,              \* ids of SnmpJob rows that may be created (a bound)
  Requests,          \* ids of SnmpWriteRequest rows that may be created (a bound)
  Schedulers,        \* the devices whose poll scheduler comes due
  Workers,           \* handler slots of the snmp worker processes
  Clients,           \* concurrent API requests
  None,              \* no job, no entry, no owner, no argument
  Free,              \* no lock key in Redis
  Orphan,            \* a lock key whose token no running handler holds
  MaxFaults,         \* bound on worker crashes and lost queue leases
  MaxStalled,        \* BullMQ's maxStalledCount
  MaxChanges,        \* bound on changes of configuration and credentials
  Overrun,           \* TRUE: a lock may expire under a running handler
  SetWorkers         \* the slots of processes whose SNMP_SET_ENABLED is true

JobType == {"POLL", "CREDENTIAL_TEST", "SET"}
JobStatus == {"PENDING", "RUNNING", "COMPLETED", "FAILED", "BLOCKED"}
WriteStatus == JobStatus \cup {"PREVIEW", "NEEDS_ATTENTION"}
Purpose == {"READ", "WRITE"}
Terminal == {"COMPLETED", "FAILED", "BLOCKED"}

Job == [type : JobType, dev : Devices, status : JobStatus, cred : Purpose \cup {None}]
Request == [status : WriteStatus, dev : Devices, job : Jobs \cup {None}]

\* The ids are those of different tables, and the markers are not ids.
ASSUME IdsAssumption ==
  /\ Jobs \cap Devices = {}
  /\ Schedulers \subseteq Devices
  /\ None \notin Jobs \cup Devices \cup Requests \cup Workers
  /\ Free \notin Workers
  /\ Orphan \notin Workers
  /\ Free # Orphan
  /\ MaxFaults \in Nat
  /\ MaxStalled \in Nat
  /\ MaxChanges \in Nat
  /\ Overrun \in BOOLEAN
  /\ SetWorkers \subseteq Workers
  /\ None \notin Job \cup Request

VARIABLES
  job,         \* SnmpJob rows
  request,     \* SnmpWriteRequest rows
  snapshot,    \* jobs that have an SnmpSnapshot (SnmpSnapshot.jobId is unique)
  drift,       \* per device, the jobs whose snapshot has PENDING drifts
  enabled,     \* SnmpDeviceConfig.enabled
  credentials, \* per device, the purposes that have an SnmpCredential
  changes,     \* changes of those two so far
  entry,       \* BullMQ deliveries: of a job id, or of a device's poll scheduler
  lock,        \* the Redis key snmp:device-lock:<device>
  pc,          \* where each handler is
  at,          \* the delivery each handler works on
  cur,         \* the job each handler works on
  code,        \* the public code of the error a handler's catch is about to record
  seen,        \* drifts a replaceDrifts transaction has deleted, not committed
  callPc,      \* where each API request is
  callArg,     \* what it is about
  recovering,  \* jobs recoverPendingJobs has read and not yet added again
  applied,     \* how often the values of a request were written to its device
  faults       \* crashes and lost leases so far

rows   == <<job, request, snapshot, drift>>
policy == <<enabled, credentials, changes>>
handlers == <<pc, at, cur, code, seen>>
calls  == <<callPc, callArg>>
vars == <<rows, policy, entry, lock, handlers, calls, recovering, applied, faults>>

-----------------------------------------------------------------------------
(* Rows and their states *)

Entries == Jobs \cup Devices
Entry == [state : {"absent", "waiting", "active", "finished"},
          owner : Workers \cup {None}, stalls : 0 .. MaxStalled]

\* A handler inside withLock: from the SET NX that succeeded to the release.
LockedPc == {"begin", "probe", "snapshot", "drift", "driftCommit", "preflight",
             "apply", "verify", "finish", "fail", "release"}
Pc == LockedPc \cup {"down", "idle", "scheduled", "load", "config", "lock", "busy", "settle"}

TypeOf(j) == job[j].type
Created(j) == job[j] # None
DeviceOf(w) == job[cur[w]].dev
InLock(w) == pc[w] \in LockedPc /\ TypeOf(cur[w]) # "CREDENTIAL_TEST"

NewJob(type, d, purpose) ==
  [type |-> type, dev |-> d, status |-> "PENDING", cred |-> purpose]
ActivePoll(d) == \E j \in Jobs : /\ Created(j)
                                 /\ TypeOf(j) = "POLL"
                                 /\ job[j].dev = d
                                 /\ job[j].status \in {"PENDING", "RUNNING"}

\* The job row and, in the same transaction, the write request that names it.
SetStatus(j, jobStatus, writeStatus) ==
  /\ job' = [job EXCEPT ![j].status = jobStatus]
  /\ request' = [r \in Requests |->
                   IF request[r] # None /\ request[r].job = j
                     THEN [request[r] EXCEPT !.status = writeStatus]
                     ELSE request[r]]

\* A bug: the message of the library is recorded as it is.
PublicErrorCodeRaw(error) == error

\* log.ts: the code a raised error is recorded under. net-snmp reports a
\* missing answer as "Request timed out", which /timeout/i does not match.
PublicErrorCode(error) ==
  IF error = "Request timed out" THEN "SNMP_EXECUTION_FAILED" ELSE error
SnmpError == {"Request timed out", "SNMP_EXECUTION_FAILED"}
Uncertain(c) == c \in {"SNMP_TIMEOUT", "SNMP_SET_VERIFICATION_MISMATCH"}
Codes == {"SNMP_EXECUTION_FAILED", "SNMP_SET_VERIFICATION_MISMATCH"}

-----------------------------------------------------------------------------
(* BullMQ, as the code uses it: add with a job id that is known is ignored;  *)
(* a delivery whose owner stopped renewing it is delivered again MaxStalled  *)
(* times, whatever its attempts; the oldest finished deliveries are dropped. *)

Idle(state) == [state |-> state, owner |-> None, stalls |-> 0]

Added(e) == IF entry[e].state = "absent"
              THEN [entry EXCEPT ![e] = Idle("waiting")]
              ELSE entry

\* An iteration of the poll scheduler of an enabled device becomes due.
Tick(d) ==
  /\ d \in Schedulers
  /\ entry[d].state \in {"absent", "finished"}
  /\ entry' = [entry EXCEPT ![d] = Idle("waiting")]
  /\ UNCHANGED <<rows, policy, lock, handlers, calls, recovering, applied, faults>>

\* The queue finds an active delivery that nobody renews.
Stalled(e) ==
  /\ entry[e].state = "active" /\ entry[e].owner = None
  /\ entry' = [entry EXCEPT ![e] =
                 IF @.stalls < MaxStalled
                   THEN [state |-> "waiting", owner |-> None, stalls |-> @.stalls + 1]
                   ELSE Idle("finished")]
  /\ UNCHANGED <<rows, policy, lock, handlers, calls, recovering, applied, faults>>

\* removeOnComplete/removeOnFail: a hundred later deliveries have finished. An
\* add of a recovery pass or of an API call that is under way is taken to arrive
\* sooner. So only a job that is still PENDING can be added again afterwards,
\* and of the others it does not matter whether they are evicted.
Evict(j) ==
  /\ entry[j].state = "finished" /\ job[j].status = "PENDING"
  /\ j \notin recovering /\ \A c \in Clients : callPc[c] = "enqueue" => callArg[c] # j
  /\ entry' = [entry EXCEPT ![j] = Idle("absent")]
  /\ UNCHANGED <<rows, policy, lock, handlers, calls, recovering, applied, faults>>

-----------------------------------------------------------------------------
(* The API: snmp.service.ts. A call awaits between its checks, its row and   *)
(* its queue.add.                                                            *)

Change == changes < MaxChanges /\ changes' = changes + 1

\* upsertConfig
UpsertConfig(d) ==
  /\ Change
  /\ enabled' = [enabled EXCEPT ![d] = ~@]
  /\ UNCHANGED <<rows, credentials, entry, lock, handlers, calls, recovering, applied, faults>>

\* createCredential; replacing one keeps its id, so only a missing one matters.
CreateCredential(d, p) ==
  /\ Change
  /\ p \notin credentials[d]
  /\ credentials' = [credentials EXCEPT ![d] = @ \cup {p}]
  /\ UNCHANGED <<rows, enabled, entry, lock, handlers, calls, recovering, applied, faults>>

\* deleteCredential: SnmpJob.credentialId is set to NULL (onDelete: SetNull).
DeleteCredential(d, p) ==
  /\ Change
  /\ p \in credentials[d]
  /\ credentials' = [credentials EXCEPT ![d] = @ \ {p}]
  /\ job' = [j \in Jobs |-> IF Created(j) /\ job[j].dev = d /\ job[j].cred = p
                              THEN [job[j] EXCEPT !.cred = None]
                              ELSE job[j]]
  /\ UNCHANGED <<request, snapshot, drift, enabled, entry, lock, handlers, calls,
                 recovering, applied, faults>>

Call(c, where, arg) ==
  /\ callPc' = [callPc EXCEPT ![c] = where]
  /\ callArg' = [callArg EXCEPT ![c] = arg]

\* poll: configuration, credential and no active poll, all read before the insert.
PollCheck(c, d) ==
  /\ callPc[c] = "idle"
  /\ enabled[d] /\ "READ" \in credentials[d] /\ ~ActivePoll(d)
  /\ Call(c, "create", d)
  /\ UNCHANGED <<rows, policy, entry, lock, handlers, recovering, applied, faults>>

\* poll: the row, or an error (a foreign key error when the credential that was
\* read is gone by now).
PollCreate(c) ==
  /\ callPc[c] = "create"
  /\ \/ /\ "READ" \in credentials[callArg[c]]
        /\ \E j \in Jobs : /\ ~Created(j)
                           /\ job' = [job EXCEPT ![j] = NewJob("POLL", callArg[c], "READ")]
                           /\ Call(c, "enqueue", j)
     \/ Call(c, "idle", None) /\ UNCHANGED job
  /\ UNCHANGED <<request, snapshot, drift, policy, entry, lock, handlers, recovering,
                 applied, faults>>

\* testCredential
TestCreate(c, d, p) ==
  /\ callPc[c] = "idle"
  /\ p \in credentials[d]
  /\ \E j \in Jobs : /\ ~Created(j)
                     /\ job' = [job EXCEPT ![j] = NewJob("CREDENTIAL_TEST", d, p)]
                     /\ Call(c, "enqueue", j)
  /\ UNCHANGED <<request, snapshot, drift, policy, entry, lock, handlers, recovering,
                 applied, faults>>

\* previewWrite
PreviewWrite(d) ==
  /\ \E r \in Requests :
       /\ request[r] = None
       /\ request' = [request EXCEPT ![r] = [status |-> "PREVIEW", dev |-> d, job |-> None]]
  /\ UNCHANGED <<job, snapshot, drift, policy, entry, lock, handlers, calls, recovering,
                 applied, faults>>

\* executeWrite: the checks outside the transaction.
ExecuteCheck(c, r) ==
  /\ callPc[c] = "idle"
  /\ request[r] # None
  /\ request[r].status = "PREVIEW"
  /\ "WRITE" \in credentials[request[r].dev]
  /\ Call(c, "claim", r)
  /\ UNCHANGED <<rows, policy, entry, lock, handlers, recovering, applied, faults>>

\* A bug: the claim relies on the status read before the transaction.
ExecuteClaimUnguarded(c) ==
  LET r == callArg[c]
      d == request[r].dev
  IN /\ callPc[c] = "claim"
     /\ \E j \in Jobs :
          /\ ~Created(j)
          /\ job' = [job EXCEPT ![j] = NewJob("SET", d, "WRITE")]
          /\ request' = [request EXCEPT ![r] = [@ EXCEPT !.status = "PENDING", !.job = j]]
          /\ Call(c, "enqueue", j)
     /\ UNCHANGED <<snapshot, drift, policy, entry, lock, handlers, recovering, applied, faults>>

\* executeWrite: the transaction claims the request and creates its job, or
\* rolls back (request already claimed, credential gone, database error).
ExecuteClaim(c) ==
  LET r == callArg[c]
      d == request[r].dev
  IN /\ callPc[c] = "claim"
     /\ \/ /\ request[r].status = "PREVIEW" /\ "WRITE" \in credentials[d]
           /\ \E j \in Jobs :
                /\ ~Created(j)
                /\ job' = [job EXCEPT ![j] = NewJob("SET", d, "WRITE")]
                /\ request' = [request EXCEPT ![r] = [@ EXCEPT !.status = "PENDING", !.job = j]]
                /\ Call(c, "enqueue", j)
        \/ Call(c, "idle", None) /\ UNCHANGED <<job, request>>
     /\ UNCHANGED <<snapshot, drift, policy, entry, lock, handlers, recovering, applied, faults>>

\* The queue.add that ends poll, testCredential and executeWrite; it may throw,
\* and then the row stays PENDING with no delivery.
Enqueue(c) ==
  /\ callPc[c] = "enqueue"
  /\ entry' \in {Added(callArg[c]), entry}
  /\ Call(c, "idle", None)
  /\ UNCHANGED <<rows, policy, lock, handlers, recovering, applied, faults>>

-----------------------------------------------------------------------------
(* The worker processes: index.ts, poll.ts, set.ts, locks.ts                 *)

Goto(w, where) == pc' = [pc EXCEPT ![w] = where] /\ UNCHANGED <<at, cur, code, seen>>
\* An error inside the processor's try: its catch records the code.
Raise(w, error) ==
  /\ pc' = [pc EXCEPT ![w] = "fail"]
  /\ code' = [code EXCEPT ![w] = PublicErrorCode(error)]
  /\ UNCHANGED <<at, cur, seen>>
\* An error outside it: the handler rejects and the row stays as it is.
Reject(w) == Goto(w, "settle")

\* A worker process (re)starts and recoverPendingJobs reads the PENDING rows.
Start(w) ==
  /\ pc[w] = "down"
  /\ Goto(w, "idle")
  /\ recovering' = recovering \cup {j \in Jobs : Created(j) /\ job[j].status = "PENDING"}
  /\ UNCHANGED <<rows, policy, entry, lock, calls, applied, faults>>

\* A bug: the pass adds the job without its job id, whatever became of it meanwhile.
RecoverAgain(j) ==
  /\ j \in recovering
  /\ recovering' = recovering \ {j}
  /\ entry' = [entry EXCEPT ![j] = Idle("waiting")]
  /\ UNCHANGED <<rows, policy, lock, handlers, calls, applied, faults>>

\* recoverPendingJobs adds one of them; a queue error is swallowed.
Recover(j) ==
  /\ j \in recovering
  /\ recovering' = recovering \ {j}
  /\ entry' \in {Added(j), entry}
  /\ UNCHANGED <<rows, policy, lock, handlers, calls, applied, faults>>

\* A bug: a delivery that stalled is never taken again.
TakeFirstOnly(w, e) ==
  /\ pc[w] = "idle"
  /\ entry[e].state = "waiting" /\ entry[e].stalls = 0
  /\ entry' = [entry EXCEPT ![e].state = "active", ![e].owner = w]
  /\ pc' = [pc EXCEPT ![w] = IF e \in Devices THEN "scheduled" ELSE "load"]
  /\ at' = [at EXCEPT ![w] = e]
  /\ cur' = [cur EXCEPT ![w] = IF e \in Devices THEN None ELSE e]
  /\ UNCHANGED <<rows, policy, lock, code, seen, calls, recovering, applied, faults>>

\* A free handler takes a delivery; the name says which processor runs it.
Take(w, e) ==
  /\ pc[w] = "idle"
  /\ entry[e].state = "waiting"
  /\ entry' = [entry EXCEPT ![e].state = "active", ![e].owner = w]
  /\ pc' = [pc EXCEPT ![w] = IF e \in Devices THEN "scheduled" ELSE "load"]
  /\ at' = [at EXCEPT ![w] = e]
  /\ cur' = [cur EXCEPT ![w] = IF e \in Devices THEN None ELSE e]
  /\ UNCHANGED <<rows, policy, lock, code, seen, calls, recovering, applied, faults>>

\* PollProcessor.scheduled: nothing for a disabled device, an error without a
\* READ credential (or when the insert fails), else a row of its own.
Scheduled(w) ==
  LET d == at[w]
  IN /\ pc[w] = "scheduled"
     /\ \/ ~enabled[d] /\ Goto(w, "settle") /\ UNCHANGED job
        \/ enabled[d] /\ Reject(w) /\ UNCHANGED job
        \/ /\ enabled[d] /\ "READ" \in credentials[d]
           /\ \E j \in Jobs :
                /\ ~Created(j)
                /\ job' = [job EXCEPT ![j] = NewJob("POLL", d, "READ")]
                /\ cur' = [cur EXCEPT ![w] = j]
           /\ pc' = [pc EXCEPT ![w] = "load"]
           /\ UNCHANGED <<at, code, seen>>
     /\ UNCHANGED <<request, snapshot, drift, policy, entry, lock, calls, recovering,
                    applied, faults>>

\* run/test read the job and its credential. test takes no lock.
Load(w) ==
  /\ pc[w] = "load"
  /\ IF job[cur[w]].cred = None
       THEN Reject(w)
       ELSE Goto(w, IF TypeOf(cur[w]) = "CREDENTIAL_TEST" THEN "begin" ELSE "config")
  /\ UNCHANGED <<rows, policy, entry, lock, calls, recovering, applied, faults>>

\* A bug: a write that is blocked leaves its request as it was.
ConfigureJobOnly(w) ==
  LET allowed == enabled[DeviceOf(w)] /\ (TypeOf(cur[w]) = "SET" => w \in SetWorkers)
  IN /\ pc[w] = "config"
     /\ IF allowed
          THEN Goto(w, "lock") /\ UNCHANGED job
          ELSE Goto(w, "settle") /\ job' = [job EXCEPT ![cur[w]].status = "BLOCKED"]
     /\ UNCHANGED <<request, snapshot, drift, policy, entry, lock, calls, recovering, applied,
                    faults>>

\* A bug: only scheduled polls take the lock.
ConfigureUnlocked(w) ==
  LET j == cur[w]
  IN /\ pc[w] = "config"
     /\ IF enabled[DeviceOf(w)]
          THEN Goto(w, IF at[w] \in Devices THEN "lock" ELSE "begin") /\ UNCHANGED <<job, request>>
          ELSE Goto(w, "settle") /\ SetStatus(j, "BLOCKED", "BLOCKED")
     /\ UNCHANGED <<snapshot, drift, policy, entry, lock, calls, recovering, applied, faults>>

\* run reads the configuration (SET: and the environment) before the lock.
Configure(w) ==
  LET j == cur[w]
      allowed == enabled[DeviceOf(w)] /\ (TypeOf(j) = "SET" => w \in SetWorkers)
  IN /\ pc[w] = "config"
     /\ IF allowed
          THEN Goto(w, "lock") /\ UNCHANGED <<job, request>>
          ELSE Goto(w, "settle") /\ SetStatus(j, "BLOCKED", "BLOCKED")
     /\ UNCHANGED <<snapshot, drift, policy, entry, lock, calls, recovering, applied, faults>>

\* A bug: the key is set without NX.
AcquireLockAlways(w) ==
  /\ pc[w] = "lock"
  /\ lock' = [lock EXCEPT ![DeviceOf(w)] = w]
  /\ Goto(w, "begin")
  /\ UNCHANGED <<rows, policy, entry, calls, recovering, applied, faults>>

\* withLock: SET key token PX ttl NX. The token is fresh, so the handler stands
\* for it. A refusal reaches scheduled's catch; of an on-demand job it is the
\* handler's own rejection, for index.ts returns run's promise unawaited and
\* its catch never sees it.
AcquireLock(w) ==
  LET d == DeviceOf(w)
  IN /\ pc[w] = "lock"
     /\ \/ /\ lock[d] = Free
           /\ lock' = [lock EXCEPT ![d] = w]
           /\ Goto(w, "begin")
        \/ /\ lock[d] # Free
           /\ IF at[w] \in Devices THEN Goto(w, "busy") ELSE Reject(w)
           /\ UNCHANGED lock
     /\ UNCHANGED <<rows, policy, entry, calls, recovering, applied, faults>>

\* scheduled's catch of SNMP_DEVICE_BUSY.
ScheduledBusy(w) ==
  /\ pc[w] = "busy"
  /\ SetStatus(cur[w], "BLOCKED", "BLOCKED")
  /\ Goto(w, "settle")
  /\ UNCHANGED <<snapshot, drift, policy, entry, lock, calls, recovering, applied, faults>>

\* The row (and the request) become RUNNING.
Begin(w) ==
  /\ pc[w] = "begin"
  /\ SetStatus(cur[w], "RUNNING", "RUNNING")
  /\ Goto(w, IF TypeOf(cur[w]) = "SET" THEN "preflight" ELSE "probe")
  /\ UNCHANGED <<snapshot, drift, policy, entry, lock, calls, recovering, applied, faults>>

\* A bug: the exchange with the device is outside the try.
ProbeUncaught(w) ==
  /\ pc[w] = "probe"
  /\ \/ Goto(w, IF TypeOf(cur[w]) = "POLL" THEN "snapshot" ELSE "finish")
     \/ Goto(w, IF TypeOf(cur[w]) = "POLL" THEN "release" ELSE "settle")
  /\ UNCHANGED <<rows, policy, entry, lock, calls, recovering, applied, faults>>

\* pollStandard, or the single get of a credential test.
Probe(w) ==
  /\ pc[w] = "probe"
  /\ \/ Goto(w, IF TypeOf(cur[w]) = "POLL" THEN "snapshot" ELSE "finish")
     \/ \E error \in SnmpError : Raise(w, error)
  /\ UNCHANGED <<rows, policy, entry, lock, calls, recovering, applied, faults>>

\* The snapshot row; its job id is unique.
CreateSnapshot(w) ==
  /\ pc[w] = "snapshot"
  /\ IF cur[w] \in snapshot
       THEN Raise(w, "SNMP_EXECUTION_FAILED") /\ UNCHANGED snapshot
       ELSE Goto(w, "drift") /\ snapshot' = snapshot \cup {cur[w]}
  /\ UNCHANGED <<job, request, drift, policy, entry, lock, calls, recovering, applied, faults>>

\* replaceDrifts, first statement: delete the PENDING drifts it can see.
DeleteDrifts(w) ==
  /\ pc[w] = "drift"
  /\ pc' = [pc EXCEPT ![w] = "driftCommit"]
  /\ seen' = [seen EXCEPT ![w] = drift[DeviceOf(w)]]
  /\ UNCHANGED <<rows, policy, entry, lock, at, cur, code, calls, recovering, applied, faults>>

\* A bug: replaceDrifts adds the new drifts and keeps the old ones.
CommitDriftsOnTop(w) ==
  LET d == DeviceOf(w)
  IN /\ pc[w] = "driftCommit"
     /\ drift' = [drift EXCEPT ![d] = @ \cup {cur[w]}]
     /\ pc' = [pc EXCEPT ![w] = "finish"]
     /\ seen' = [seen EXCEPT ![w] = {}]
     /\ UNCHANGED <<job, request, snapshot, policy, entry, lock, at, cur, code, calls,
                    recovering, applied, faults>>

\* replaceDrifts, second statement and commit; there may be no difference to record.
CommitDrifts(w) ==
  LET d == DeviceOf(w)
  IN /\ pc[w] = "driftCommit"
     /\ \E new \in {{}, {cur[w]}} : drift' = [drift EXCEPT ![d] = (@ \ seen[w]) \cup new]
     /\ pc' = [pc EXCEPT ![w] = "finish"]
     /\ seen' = [seen EXCEPT ![w] = {}]
     /\ UNCHANGED <<job, request, snapshot, policy, entry, lock, at, cur, code, calls,
                    recovering, applied, faults>>

\* SET: interface identity and the values before.
Preflight(w) ==
  /\ pc[w] = "preflight"
  /\ Goto(w, "apply") \/ \E error \in SnmpError : Raise(w, error)
  /\ UNCHANGED <<rows, policy, entry, lock, calls, recovering, applied, faults>>

RequestOf(j) == CHOOSE r \in Requests : request[r] # None /\ request[r].job = j

\* A bug: an error of setValues is ignored.
ApplyUnchecked(w) ==
  LET r == RequestOf(cur[w])
  IN /\ pc[w] = "apply"
     /\ Goto(w, "verify")
     /\ applied' \in {applied, [applied EXCEPT ![r] = @ + 1]}
     /\ UNCHANGED <<rows, policy, entry, lock, calls, recovering, faults>>

\* SET: setValues. The device may have applied a write whose answer is lost.
Apply(w) ==
  LET r == RequestOf(cur[w])
      once == [applied EXCEPT ![r] = @ + 1]
  IN /\ pc[w] = "apply"
     /\ \/ Goto(w, "verify") /\ applied' = once
        \/ Raise(w, "Request timed out") /\ applied' \in {applied, once}
        \/ Raise(w, "SNMP_EXECUTION_FAILED") /\ UNCHANGED applied
     /\ UNCHANGED <<rows, policy, entry, lock, calls, recovering, faults>>

\* SET: read the values back and compare.
Verify(w) ==
  /\ pc[w] = "verify"
  /\ \/ Goto(w, "finish")
     \/ \E error \in SnmpError \cup {"SNMP_SET_VERIFICATION_MISMATCH"} : Raise(w, error)
  /\ UNCHANGED <<rows, policy, entry, lock, calls, recovering, applied, faults>>

AfterAction(w) == IF TypeOf(cur[w]) = "CREDENTIAL_TEST" THEN "settle" ELSE "release"

\* The transaction that records success also updates the credential row, and
\* fails as a whole when that row is gone.
Finish(w) ==
  LET j == cur[w]
  IN /\ pc[w] = "finish"
     /\ IF job[j].cred = None
          THEN Raise(w, "SNMP_EXECUTION_FAILED") /\ UNCHANGED <<job, request>>
          ELSE SetStatus(j, "COMPLETED", "COMPLETED") /\ Goto(w, AfterAction(w))
     /\ UNCHANGED <<snapshot, drift, policy, entry, lock, calls, recovering, applied, faults>>

\* The transaction of the catch. That of a credential test updates the
\* credential too, so without it nothing is recorded.
Fail(w) ==
  LET j == cur[w]
      recorded == TypeOf(j) = "CREDENTIAL_TEST" => job[j].cred # None
  IN /\ pc[w] = "fail"
     /\ IF recorded
          THEN SetStatus(j, "FAILED", IF Uncertain(code[w]) THEN "NEEDS_ATTENTION" ELSE "FAILED")
          ELSE UNCHANGED <<job, request>>
     /\ pc' = [pc EXCEPT ![w] = AfterAction(w)]
     /\ code' = [code EXCEPT ![w] = None]
     /\ UNCHANGED <<snapshot, drift, policy, entry, lock, at, cur, seen, calls, recovering,
                    applied, faults>>

\* A bug: the key is deleted whatever token it holds.
ReleaseLockUnchecked(w) ==
  /\ pc[w] = "release"
  /\ lock' = [lock EXCEPT ![DeviceOf(w)] = Free]
  /\ Goto(w, "settle")
  /\ UNCHANGED <<rows, policy, entry, calls, recovering, applied, faults>>

\* A bug: no finally, so the key is left to its TTL and the handler's token with it.
ReleaseLockNever(w) ==
  /\ pc[w] = "release"
  /\ Goto(w, "settle")
  /\ UNCHANGED <<rows, policy, entry, lock, calls, recovering, applied, faults>>

\* withLock's finally: delete the key if it still holds this token. A Redis
\* error is swallowed and leaves the key to its TTL.
ReleaseLock(w) ==
  LET d == DeviceOf(w)
  IN /\ pc[w] = "release"
     /\ IF lock[d] = w
          THEN lock' \in {[lock EXCEPT ![d] = Free], [lock EXCEPT ![d] = Orphan]}
          ELSE UNCHANGED lock
     /\ Goto(w, "settle")
     /\ UNCHANGED <<rows, policy, entry, calls, recovering, applied, faults>>

\* The queue records the end of the handler, if the delivery is still its own.
Settle(w) ==
  LET e == at[w]
  IN /\ pc[w] = "settle"
     /\ entry' = IF entry[e].owner = w
                   THEN [entry EXCEPT ![e] = Idle("finished")]
                   ELSE entry
     /\ pc' = [pc EXCEPT ![w] = "idle"]
     /\ at' = [at EXCEPT ![w] = None]
     /\ cur' = [cur EXCEPT ![w] = None]
     /\ UNCHANGED <<rows, policy, lock, code, seen, calls, recovering, applied, faults>>

\* The TTL of a lock runs out.
Expire(d) ==
  /\ lock[d] = Orphan \/ (Overrun /\ lock[d] \in Workers)
  /\ lock' = [lock EXCEPT ![d] = Free]
  /\ UNCHANGED <<rows, policy, entry, handlers, calls, recovering, applied, faults>>

Disowned(w) == [e \in Entries |-> IF entry[e].owner = w THEN [entry[e] EXCEPT !.owner = None]
                                                       ELSE entry[e]]

\* A worker process dies; what it had not committed is lost.
Crash(w) ==
  /\ pc[w] # "down" /\ faults < MaxFaults
  /\ faults' = faults + 1
  /\ pc' = [pc EXCEPT ![w] = "down"]
  /\ at' = [at EXCEPT ![w] = None]
  /\ cur' = [cur EXCEPT ![w] = None]
  /\ code' = [code EXCEPT ![w] = None]
  /\ seen' = [seen EXCEPT ![w] = {}]
  /\ lock' = [d \in Devices |-> IF lock[d] = w THEN Orphan ELSE lock[d]]
  /\ entry' = Disowned(w)
  /\ UNCHANGED <<rows, policy, calls, recovering, applied>>

\* A live worker fails to renew its delivery in time and goes on regardless.
LoseLease(w) ==
  /\ at[w] # None /\ entry[at[w]].owner = w /\ faults < MaxFaults
  /\ faults' = faults + 1
  /\ entry' = Disowned(w)
  /\ UNCHANGED <<rows, policy, lock, handlers, calls, recovering, applied>>

-----------------------------------------------------------------------------
Init ==
  /\ job = [j \in Jobs |-> None]
  /\ request = [r \in Requests |-> None]
  /\ snapshot = {}
  /\ drift = [d \in Devices |-> {}]
  /\ enabled = [d \in Devices |-> FALSE]
  /\ credentials = [d \in Devices |-> {}]
  /\ changes = 0
  /\ entry = [e \in Entries |-> Idle("absent")]
  /\ lock = [d \in Devices |-> Free]
  /\ pc = [w \in Workers |-> "down"]
  /\ at = [w \in Workers |-> None]
  /\ cur = [w \in Workers |-> None]
  /\ code = [w \in Workers |-> None]
  /\ seen = [w \in Workers |-> {}]
  /\ callPc = [c \in Clients |-> "idle"]
  /\ callArg = [c \in Clients |-> None]
  /\ recovering = {}
  /\ applied = [r \in Requests |-> 0]
  /\ faults = 0

Handler(w) ==
  \/ \E e \in Entries : Take(w, e)
  \/ Scheduled(w) \/ Load(w) \/ Configure(w) \/ AcquireLock(w) \/ ScheduledBusy(w)
  \/ Begin(w) \/ Probe(w) \/ CreateSnapshot(w) \/ DeleteDrifts(w) \/ CommitDrifts(w)
  \/ Preflight(w) \/ Apply(w) \/ Verify(w)
  \/ Finish(w) \/ Fail(w) \/ ReleaseLock(w) \/ Settle(w)

Client(c) ==
  \/ \E d \in Devices : PollCheck(c, d) \/ \E p \in Purpose : TestCreate(c, d, p)
  \/ \E r \in Requests : ExecuteCheck(c, r)
  \/ PollCreate(c) \/ ExecuteClaim(c) \/ Enqueue(c)

Admin(d) ==
  \/ UpsertConfig(d) \/ PreviewWrite(d)
  \/ \E p \in Purpose : CreateCredential(d, p) \/ DeleteCredential(d, p)

Queue ==
  \/ \E d \in Devices : Tick(d) \/ Expire(d)
  \/ \E e \in Entries : Stalled(e)
  \/ \E j \in Jobs : Evict(j) \/ Recover(j)

Next ==
  \/ \E w \in Workers : Handler(w) \/ Start(w) \/ Crash(w) \/ LoseLease(w)
  \/ \E c \in Clients : Client(c)
  \/ \E d \in Devices : Admin(d)
  \/ Queue

Spec == Init /\ [][Next]_vars

\* Handlers run to their end, the container is restarted (restart: unless-stopped),
\* Redis expires keys and finds stalled deliveries, recovery passes end. The wait
\* list is first in, first out: no delivery is passed over for ever.
Fairness ==
  /\ \A w \in Workers : WF_vars(Handler(w)) /\ WF_vars(Start(w))
  /\ \A d \in Devices : WF_vars(Expire(d))
  /\ \A e \in Entries : WF_vars(Stalled(e)) /\ SF_vars(\E w \in Workers : Take(w, e))
  /\ \A j \in Jobs : WF_vars(Recover(j))
  /\ \A c \in Clients : WF_vars(Enqueue(c))

FairSpec == Spec /\ Fairness

-----------------------------------------------------------------------------
(* Properties *)

\* Rows, deliveries, locks and handlers have the shapes the code gives them.
RowsOK ==
  /\ job \in [Jobs -> Job \cup {None}]
  /\ request \in [Requests -> Request \cup {None}]
  /\ snapshot \subseteq Jobs
  /\ drift \in [Devices -> SUBSET Jobs]
PolicyOK ==
  /\ enabled \in [Devices -> BOOLEAN]
  /\ credentials \in [Devices -> SUBSET Purpose]
  /\ changes \in 0 .. MaxChanges
QueueOK ==
  /\ entry \in [Entries -> Entry]
  /\ lock \in [Devices -> Workers \cup {Free, Orphan}]
  /\ recovering \subseteq Jobs
HandlersOK ==
  /\ pc \in [Workers -> Pc]
  /\ at \in [Workers -> Entries \cup {None}]
  /\ cur \in [Workers -> Jobs \cup {None}]
  /\ code \in [Workers -> Codes \cup {None}]
  /\ seen \in [Workers -> SUBSET Jobs]
CallsOK ==
  /\ callPc \in [Clients -> {"idle", "create", "claim", "enqueue"}]
  /\ callArg \in [Clients -> Entries \cup Requests \cup {None}]
CountersOK ==
  /\ applied \in [Requests -> Nat]
  /\ faults \in 0 .. MaxFaults
TypeOK == RowsOK /\ PolicyOK /\ QueueOK /\ HandlersOK /\ CallsOK /\ CountersOK

\* As long as no lock outlives its TTL under a running handler, at most one
\* handler at a time is between the acquisition and the release of a device's
\* lock, whatever is redelivered, recovered or crashes.
MutualExclusion ==
  ~Overrun => \A v, w \in Workers :
                v # w /\ InLock(v) /\ InLock(w) => DeviceOf(v) # DeviceOf(w)

\* Even when locks expire under their handlers, no handler ever takes another
\* handler's lock away: a held key only disappears by its own handler's step
\* or by the TTL, and the TTL moves no handler.
OnlyOwnerOrTimeFrees ==
  [][\A d \in Devices, w \in Workers :
       lock[d] = w /\ lock'[d] # w /\ pc'[w] = pc[w] => pc' = pc]_vars

\* A submitted write request and its job tell the same story in every state;
\* only NEEDS_ATTENTION refines the job's FAILED.
Mirrors(r, j) ==
  /\ Created(j) /\ TypeOf(j) = "SET" /\ job[j].dev = request[r].dev
  /\ \/ request[r].status = job[j].status
     \/ request[r].status = "NEEDS_ATTENTION" /\ job[j].status = "FAILED"
WriteRequestMirrorsJob ==
  \A r \in Requests : request[r] # None /\ request[r].job # None => Mirrors(r, request[r].job)

\* However many operators submit a previewed request at once, it gets one SET
\* job, and no SET job exists without its request.
Names(r, j) == request[r] # None /\ request[r].job = j
OneJobPerRequest ==
  \A j \in Jobs : Created(j) /\ TypeOf(j) = "SET" =>
    \E r \in Requests : \A q \in Requests : Names(q, j) <=> q = r

\* A write reaches its device again only because a worker crashed or lost its
\* delivery: queueing, recovery passes and retries of the API never repeat it.
RewriteNeedsFault == \A r \in Requests : applied[r] <= 1 + faults

\* A write that is recorded as COMPLETED has been applied.
CompletedWriteWasApplied ==
  \A r \in Requests : request[r] # None /\ request[r].status = "COMPLETED" => applied[r] > 0

\* Without overruns the PENDING drifts of a device all come from one snapshot:
\* replaceDrifts of two polls never interleave.
DriftsFromOneSnapshot == ~Overrun => \A d \in Devices : Cardinality(drift[d]) <= 1

\* A handler that works on a job: it will still write the job's outcome.
WorksOn(w, j) == pc[w] \in (LockedPc \ {"begin", "release"}) /\ cur[w] = j

\* Until a worker crashes, a RUNNING row has a handler that will end it. The
\* exception is a credential test whose credential was deleted meanwhile: its
\* catch cannot record the failure either.
RunningHasHandler ==
  faults = 0 => \A j \in Jobs : Created(j) /\ job[j].status = "RUNNING" =>
    \/ \E w \in Workers : WorksOn(w, j)
    \/ TypeOf(j) = "CREDENTIAL_TEST" /\ job[j].cred = None

\* A lock that is taken becomes free again, even if its handler crashed or its
\* release never reached Redis.
LocksAreFreed == \A d \in Devices : lock[d] # Free ~> lock[d] = Free

\* A delivery that waits is finished, through crashes and restarts.
DeliveriesEnd ==
  \A e \in Entries : entry[e].state = "waiting" ~> entry[e].state = "finished"

-----------------------------------------------------------------------------
(* Refinement: with no overrun, the pipeline implements DeviceMutex.         *)

Holder == [d \in Devices |->
             IF \E w \in Workers : InLock(w) /\ DeviceOf(w) = d
               THEN CHOOSE w \in Workers : InLock(w) /\ DeviceOf(w) = d
               ELSE None]
Mutex == INSTANCE DeviceMutex WITH holder <- Holder

\* Polls, writes, redeliveries, crashes and recovery passes together keep the
\* promise of the lock, and under FairSpec every handler leaves its device.
ImplementsDeviceMutex == Mutex!Spec

-----------------------------------------------------------------------------
(* What the documentation says, and the code does not do. *)

\* docs/security.md: "SET ... não tem retry automático".
NoAutomaticRetry == \A r \in Requests : applied[r] <= 1

\* docs/adr-001: "resultados incertos exigem intervenção humana": a request
\* recorded as plainly FAILED has not touched its device.
UncertainNeedsAttention ==
  \A r \in Requests : request[r] # None /\ request[r].status = "FAILED" => applied[r] = 0
=============================================================================
