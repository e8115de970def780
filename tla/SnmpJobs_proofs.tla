--------------------------- MODULE SnmpJobs_proofs ---------------------------
(***************************************************************************)
(* Proofs about SnmpJobs, for any devices, jobs, workers, clients, faults  *)
(* and configuration changes.                                              *)
(***************************************************************************)
EXTENDS SnmpJobs, FiniteSetTheorems, TLAPS

\* Handlers and API calls refer to rows that exist.
HasJob == Pc \ {"down", "idle", "scheduled", "settle"}
HandlersRefer ==
  \A w \in Workers :
    /\ pc[w] \in HasJob => cur[w] \in Jobs /\ Created(cur[w])
    /\ pc[w] = "scheduled" => at[w] \in Devices
    /\ pc[w] \notin {"down", "idle"} => at[w] \in Entries
QueueRefers ==
  \A j \in Jobs : j \in recovering \/ entry[j] # Idle("absent") => Created(j)
CallsRefer ==
  \A c \in Clients :
    /\ callPc[c] = "create" => callArg[c] \in Devices
    /\ callPc[c] = "claim" => callArg[c] \in Requests /\ request[callArg[c]] # None
    /\ callPc[c] = "enqueue" => callArg[c] \in Jobs /\ Created(callArg[c])

TypeInv == TypeOK /\ HandlersRefer /\ QueueRefers /\ CallsRefer

USE IdsAssumption

\* Rows keep their existence, their type and their device.
RowsStay ==
  /\ \A j \in Jobs : Created(j) => /\ Created(j)'
                                   /\ job'[j].type = job[j].type
                                   /\ job'[j].dev = job[j].dev
  /\ \A r \in Requests : request[r] # None => request'[r] # None

\* Recording a status keeps the rows and their identities.
LEMMA SetStatusRows ==
  ASSUME RowsOK, NEW j \in Jobs, Created(j), NEW s \in JobStatus, NEW t \in WriteStatus,
         SetStatus(j, s, t)
  PROVE  /\ job' \in [Jobs -> Job \cup {None}]
         /\ request' \in [Requests -> Request \cup {None}]
         /\ RowsStay
<1>1. job[j] \in Job
  BY DEF RowsOK, Created
<1>2. [job[j] EXCEPT !.status = s] \in Job
  BY <1>1 DEF Job
<1>3. job' = [job EXCEPT ![j] = [job[j] EXCEPT !.status = s]]
  BY DEF SetStatus, RowsOK
<1>4. job' \in [Jobs -> Job \cup {None}]
  BY <1>2, <1>3 DEF RowsOK
<1>5. ASSUME NEW r \in Requests, request[r] # None
      PROVE  [request[r] EXCEPT !.status = t] \in Request
  BY <1>5 DEF RowsOK, Request
<1>6. request' \in [Requests -> Request \cup {None}]
  BY <1>5 DEF SetStatus, RowsOK
<1>7. \A r \in Requests : request[r] # None => request'[r] # None
  BY <1>5 DEF SetStatus, RowsOK
<1>8. ASSUME NEW i \in Jobs, Created(i)
      PROVE  Created(i)' /\ job'[i].type = job[i].type /\ job'[i].dev = job[i].dev
  <2>1. CASE i = j
    BY <1>1, <1>2, <1>3, <2>1 DEF RowsOK, Created, Job
  <2>2. CASE i # j
    BY <1>3, <1>8, <2>2 DEF RowsOK, Created
  <2>3. QED BY <2>1, <2>2
<1>9. QED BY <1>4, <1>6, <1>7, <1>8 DEF RowsStay

\* The empty database, queue and worker pool refer to nothing.
LEMMA InitTypeInv == Init => TypeInv
BY DEF Init, TypeInv, TypeOK, RowsOK, PolicyOK, QueueOK, HandlersOK, CallsOK, CountersOK,
       HandlersRefer, QueueRefers, CallsRefer,  HasJob, Pc, LockedPc, Entry, Entries, Idle, Created

\* Inserting a job gives it the shape of a row and leaves the others alone.
LEMMA NewRow ==
  ASSUME RowsOK, NEW j \in Jobs, ~Created(j), NEW type \in JobType, NEW d \in Devices,
         NEW p \in Purpose, job' = [job EXCEPT ![j] = NewJob(type, d, p)]
  PROVE  /\ job' \in [Jobs -> Job \cup {None}]
         /\ job'[j] = NewJob(type, d, p) /\ Created(j)'
         /\ \A i \in Jobs : Created(i) => Created(i)' /\ job'[i] = job[i]
<1>1. NewJob(type, d, p) \in Job
  BY DEF NewJob, Job, JobStatus
<1>2. QED
  BY <1>1 DEF RowsOK, Created


\* Every step keeps the shapes of the rows, and the rows it finds.
LEMMA RowsStep ==
  ASSUME TypeInv, [Next]_vars
  PROVE  RowsOK' /\ RowsStay
<1> USE DEF TypeInv, TypeOK, RowsOK
<1>1. ASSUME NEW w \in Workers, Handler(w)
      PROVE  RowsOK' /\ RowsStay
  <2>1. CASE Scheduled(w)
    <3>1. at[w] \in Devices
      BY <2>1 DEF Scheduled, HandlersRefer
    <3>2. QED
      BY <2>1, <3>1, NewRow DEF Scheduled, RowsStay, JobType, Purpose, Created
  <2>2. CASE Configure(w)
    <3>1. cur[w] \in Jobs /\ Created(cur[w])
      BY <2>2 DEF Configure, HandlersRefer, HasJob, Pc, LockedPc
    <3>2. QED
      BY <2>2, <3>1, SetStatusRows DEF Configure, RowsStay, JobStatus, WriteStatus, Created,
             Goto
  <2>3. CASE ScheduledBusy(w)
    <3>1. cur[w] \in Jobs /\ Created(cur[w])
      BY <2>3 DEF ScheduledBusy, HandlersRefer, HasJob, Pc, LockedPc
    <3>2. QED
      BY <2>3, <3>1, SetStatusRows DEF ScheduledBusy, RowsStay, JobStatus, WriteStatus,
             Created, Goto
  <2>4. CASE Begin(w)
    <3>1. cur[w] \in Jobs /\ Created(cur[w])
      BY <2>4 DEF Begin, HandlersRefer, HasJob, Pc, LockedPc
    <3>2. QED
      BY <2>4, <3>1, SetStatusRows DEF Begin, RowsStay, JobStatus, WriteStatus, Created, Goto
  <2>5. CASE CreateSnapshot(w)
    BY <2>5 DEF CreateSnapshot, HandlersRefer, HasJob, Pc, LockedPc, RowsStay, Created
  <2>6. CASE CommitDrifts(w)
    <3>1. cur[w] \in Jobs
      BY <2>6 DEF CommitDrifts, HandlersRefer, HasJob, Pc, LockedPc
    <3>2. PICK new \in {{}, {cur[w]}} :
                 drift' = [drift EXCEPT ![DeviceOf(w)] = (drift[DeviceOf(w)] \ seen[w]) \cup new]
      BY <2>6 DEF CommitDrifts
    <3>3. drift' \in [Devices -> SUBSET Jobs]
      BY <3>1, <3>2
    <3>4. QED
      BY <2>6, <3>3 DEF CommitDrifts, RowsStay, Created
  <2>7. CASE Finish(w)
    <3>1. cur[w] \in Jobs /\ Created(cur[w])
      BY <2>7 DEF Finish, HandlersRefer, HasJob, Pc, LockedPc
    <3>2. QED
      BY <2>7, <3>1, SetStatusRows DEF Finish, RowsStay, JobStatus, WriteStatus, Created, Goto,
             Raise
  <2>8. CASE Fail(w)
    <3>1. cur[w] \in Jobs /\ Created(cur[w])
      BY <2>8 DEF Fail, HandlersRefer, HasJob, Pc, LockedPc
    <3>2. QED
      BY <2>8, <3>1, SetStatusRows DEF Fail, RowsStay, JobStatus, WriteStatus, Created, Goto
  <2>9. CASE \/ (\E e \in Entries : Take(w, e))
           \/ Load(w)
           \/ AcquireLock(w)
           \/ Probe(w)
           \/ DeleteDrifts(w)
           \/ Preflight(w)
           \/ Apply(w)
           \/ Verify(w)
           \/ ReleaseLock(w)
           \/ Settle(w)
    BY <2>9 DEF Take, Load, AcquireLock, Probe, DeleteDrifts, Preflight, Apply, Verify,
           ReleaseLock, Settle, rows, RowsStay, Created
  <2>10. QED BY <1>1, <2>1, <2>2, <2>3, <2>4, <2>5, <2>6, <2>7, <2>8, <2>9 DEF Handler
<1>2. ASSUME NEW w \in Workers, Start(w) \/ Crash(w) \/ LoseLease(w)
      PROVE  RowsOK' /\ RowsStay
  BY <1>2 DEF Start, Crash, LoseLease, rows, RowsStay, Created
<1>3. ASSUME NEW c \in Clients, Client(c)
      PROVE  RowsOK' /\ RowsStay
  <2>1. CASE \E d \in Devices, p \in Purpose : TestCreate(c, d, p)
    BY <2>1, NewRow DEF TestCreate, RowsStay, JobType, Created
  <2>2. CASE PollCreate(c)
    <3>1. callArg[c] \in Devices
      BY <2>2 DEF PollCreate, CallsRefer
    <3>2. QED
      BY <2>2, <3>1, NewRow DEF PollCreate, RowsStay, JobType, Purpose, Created
  <2>3. CASE ExecuteClaim(c)
    <3> DEFINE r == callArg[c]
    <3>1. r \in Requests /\ request[r] # None
      BY <2>3 DEF ExecuteClaim, CallsRefer
    <3>2. request[r] \in Request
      BY <3>1
    <3>3. CASE UNCHANGED <<job, request>>
      BY <2>3, <3>3 DEF ExecuteClaim, RowsStay, Created
    <3>4. ASSUME NEW j \in Jobs, ~Created(j),
                 job' = [job EXCEPT ![j] = NewJob("SET", request[r].dev, "WRITE")],
                 request' = [request EXCEPT ![r] = [request[r] EXCEPT !.status = "PENDING", !.job = j]]
          PROVE  RowsOK' /\ RowsStay
      <4>1. request[r].dev \in Devices
        BY <3>2 DEF Request
      <4>2. [request[r] EXCEPT !.status = "PENDING", !.job = j] \in Request
        BY <3>2 DEF Request, WriteStatus, JobStatus
      <4>3. request' \in [Requests -> Request \cup {None}]
            /\ \A q \in Requests : request[q] # None => request'[q] # None
        BY <3>1, <3>4, <4>2
      <4>4. QED
        BY <2>3, <3>4, <4>1, <4>3, NewRow DEF ExecuteClaim, RowsStay, JobType, Purpose
    <3>5. QED
      BY <2>3, <3>3, <3>4 DEF ExecuteClaim
  <2>4. CASE \/ (\E d \in Devices : PollCheck(c, d))
           \/ (\E r \in Requests : ExecuteCheck(c, r))
           \/ Enqueue(c)
    BY <2>4 DEF PollCheck, ExecuteCheck, Enqueue, rows, RowsStay, Created
  <2>5. QED BY <1>3, <2>1, <2>2, <2>3, <2>4 DEF Client
<1>4. ASSUME NEW d \in Devices, Admin(d)
      PROVE  RowsOK' /\ RowsStay
  <2>1. CASE PreviewWrite(d)
    BY <2>1 DEF PreviewWrite, Request, WriteStatus, RowsStay, Created
  <2>2. CASE \E p \in Purpose : DeleteCredential(d, p)
    <3>1. ASSUME NEW j \in Jobs, Created(j)
          PROVE  [job[j] EXCEPT !.cred = None] \in Job
      BY <3>1 DEF Created, Job
    <3>2. QED
      BY <2>2, <3>1 DEF DeleteCredential, RowsStay, Created, Job
  <2>3. CASE \/ UpsertConfig(d)
           \/ (\E p \in Purpose : CreateCredential(d, p))
    BY <2>3 DEF UpsertConfig, CreateCredential, rows, RowsStay, Created
  <2>4. QED BY <1>4, <2>1, <2>2, <2>3 DEF Admin
<1>5. ASSUME Queue
      PROVE  RowsOK' /\ RowsStay
  BY <1>5 DEF Queue, Tick, Expire, Stalled, Evict, Recover, rows, RowsStay, Created
<1>6. CASE UNCHANGED vars
  BY <1>6 DEF vars, rows, RowsStay, Created
<1>7. QED BY <1>1, <1>2, <1>3, <1>4, <1>5, <1>6 DEF Next

ShapesOK == PolicyOK /\ QueueOK /\ HandlersOK /\ CallsOK /\ CountersOK

\* Every step keeps the shapes of the queue, the handlers and the calls.
LEMMA ShapesStep ==
  ASSUME TypeInv, [Next]_vars
  PROVE  ShapesOK'
<1> USE DEF TypeInv, TypeOK, ShapesOK, PolicyOK, QueueOK, HandlersOK, CallsOK, CountersOK,
            Pc, LockedPc, Entry, Entries, Idle, Added, Disowned, Codes, SnmpError,
            PublicErrorCode, Goto, Raise, Reject, AfterAction, Call, Change,
            rows, policy, handlers, calls
<1>1. ASSUME NEW w \in Workers, Handler(w)
      PROVE  ShapesOK'
  <2>1. CASE \E e \in Entries : Take(w, e)
    BY <2>1 DEF Take
  <2>2. CASE Scheduled(w)
    BY <2>2 DEF Scheduled
  <2>3. CASE Load(w)
    BY <2>3 DEF Load
  <2>4. CASE Configure(w)
    BY <2>4 DEF Configure
  <2>5. CASE AcquireLock(w)
    <3>1. cur[w] \in Jobs /\ Created(cur[w])
      BY <2>5 DEF AcquireLock, HandlersRefer, HasJob
    <3>2. DeviceOf(w) \in Devices
      BY <3>1 DEF DeviceOf, RowsOK, Job, Created
    <3>3. lock' \in [Devices -> Workers \cup {Free, Orphan}]
      BY <2>5, <3>2 DEF AcquireLock
    <3>4. HandlersOK'
      BY <2>5 DEF AcquireLock
    <3>5. QED
      BY <2>5, <3>3, <3>4 DEF AcquireLock
  <2>6. CASE ScheduledBusy(w)
    BY <2>6 DEF ScheduledBusy
  <2>7. CASE Begin(w)
    BY <2>7 DEF Begin
  <2>8. CASE Probe(w)
    BY <2>8 DEF Probe
  <2>9. CASE CreateSnapshot(w)
    <3>1. HandlersOK'
      <4>1. CASE Raise(w, "SNMP_EXECUTION_FAILED")
        BY <4>1
      <4>2. CASE Goto(w, "drift")
        BY <4>2
      <4>3. QED BY <2>9, <4>1, <4>2 DEF CreateSnapshot
    <3>2. QED
      BY <2>9, <3>1 DEF CreateSnapshot
  <2>10. CASE DeleteDrifts(w)
    <3>1. cur[w] \in Jobs /\ Created(cur[w])
      BY <2>10 DEF DeleteDrifts, HandlersRefer, HasJob
    <3>2. drift[DeviceOf(w)] \in SUBSET Jobs
      BY <3>1 DEF DeviceOf, RowsOK, Job, Created
    <3>3. seen' \in [Workers -> SUBSET Jobs]
      BY <2>10, <3>2 DEF DeleteDrifts
    <3>4. QED
      BY <2>10, <3>3 DEF DeleteDrifts
  <2>11. CASE CommitDrifts(w)
    BY <2>11 DEF CommitDrifts
  <2>12. CASE Preflight(w)
    BY <2>12 DEF Preflight
  <2>13. CASE Apply(w)
    <3>1. applied' \in [Requests -> Nat]
      BY <2>13 DEF Apply
    <3>2. HandlersOK'
      BY <2>13 DEF Apply
    <3>3. UNCHANGED <<policy, entry, lock, calls, recovering, faults>>
      BY <2>13 DEF Apply
    <3>4. QED
      BY <3>1, <3>2, <3>3
  <2>14. CASE Verify(w)
    <3>1. ASSUME NEW error \in Codes \cup SnmpError, Raise(w, error)
          PROVE  HandlersOK'
      BY <3>1
    <3>2. Goto(w, "finish") => HandlersOK'
      OBVIOUS
    <3>3. HandlersOK'
      BY <2>14, <3>1, <3>2 DEF Verify
    <3>4. QED
      BY <2>14, <3>3 DEF Verify
  <2>15. CASE Finish(w)
    BY <2>15 DEF Finish
  <2>16. CASE Fail(w)
    BY <2>16 DEF Fail
  <2>17. CASE ReleaseLock(w)
    BY <2>17 DEF ReleaseLock
  <2>18. CASE Settle(w)
    BY <2>18 DEF Settle, HandlersRefer
  <2>19. QED BY <1>1, <2>1, <2>2, <2>3, <2>4, <2>5, <2>6, <2>7, <2>8, <2>9, <2>10, <2>11,
         <2>12, <2>13, <2>14, <2>15, <2>16, <2>17, <2>18 DEF Handler
<1>2. ASSUME NEW w \in Workers, Start(w) \/ Crash(w) \/ LoseLease(w)
      PROVE  ShapesOK'
  <2>1. CASE Start(w)
    BY <2>1 DEF Start
  <2>2. CASE Crash(w)
    <3>1. QueueOK'
      <4>1. lock' \in [Devices -> Workers \cup {Free, Orphan}]
        BY <2>2 DEF Crash
      <4>2. \A e \in Entries : Disowned(w)[e] \in Entry
        OBVIOUS
      <4>3. Disowned(w) \in [Entries -> Entry]
        BY <4>2
      <4>4. QED
        BY <2>2, <4>1, <4>3 DEF Crash
    <3>2. /\ pc' = [pc EXCEPT ![w] = "down"]
          /\ at' = [at EXCEPT ![w] = None]
          /\ cur' = [cur EXCEPT ![w] = None]
          /\ code' = [code EXCEPT ![w] = None]
          /\ seen' = [seen EXCEPT ![w] = {}]
      BY <2>2 DEF Crash
    <3>3. HandlersOK'
      BY <3>2
    <3>4. PolicyOK' /\ CallsOK' /\ CountersOK'
      BY <2>2 DEF Crash
    <3>5. QED
      BY <3>1, <3>3, <3>4
  <2>3. CASE LoseLease(w)
    <3>1. \A e \in Entries : Disowned(w)[e] \in Entry
      OBVIOUS
    <3>2. Disowned(w) \in [Entries -> Entry]
      BY <3>1
    <3>3. QED
      BY <2>3, <3>2 DEF LoseLease
  <2>4. QED BY <1>2, <2>1, <2>2, <2>3
<1>3. ASSUME NEW c \in Clients, Client(c)
      PROVE  ShapesOK'
  <2>1. CASE \E d \in Devices : PollCheck(c, d)
    BY <2>1 DEF PollCheck
  <2>2. CASE \E d \in Devices, p \in Purpose : TestCreate(c, d, p)
    BY <2>2 DEF TestCreate
  <2>3. CASE \E r \in Requests : ExecuteCheck(c, r)
    BY <2>3 DEF ExecuteCheck
  <2>4. CASE PollCreate(c)
    <3>1. \A j \in Jobs : Call(c, "enqueue", j) => CallsOK'
      OBVIOUS
    <3>2. Call(c, "idle", None) => CallsOK'
      OBVIOUS
    <3>3. CallsOK'
      BY <2>4, <3>1, <3>2 DEF PollCreate
    <3>4. QED
      BY <2>4, <3>3 DEF PollCreate
  <2>5. CASE ExecuteClaim(c)
    <3>1. \A j \in Jobs : Call(c, "enqueue", j) => CallsOK'
      OBVIOUS
    <3>2. Call(c, "idle", None) => CallsOK'
      OBVIOUS
    <3>3. CallsOK'
      BY <2>5, <3>1, <3>2 DEF ExecuteClaim
    <3>4. QED
      BY <2>5, <3>3 DEF ExecuteClaim
  <2>6. CASE Enqueue(c)
    <3>1. entry' \in [Entries -> Entry]
      BY <2>6 DEF Enqueue
    <3>2. CallsOK'
      BY <2>6 DEF Enqueue
    <3>3. QED
      BY <2>6, <3>1, <3>2 DEF Enqueue
  <2>7. QED BY <1>3, <2>1, <2>2, <2>3, <2>4, <2>5, <2>6 DEF Client
<1>4. ASSUME NEW d \in Devices, Admin(d)
      PROVE  ShapesOK'
  <2>1. CASE UpsertConfig(d)
    BY <2>1 DEF UpsertConfig
  <2>2. CASE PreviewWrite(d)
    BY <2>2 DEF PreviewWrite
  <2>3. CASE \E p \in Purpose : CreateCredential(d, p)
    BY <2>3 DEF CreateCredential
  <2>4. CASE \E p \in Purpose : DeleteCredential(d, p)
    BY <2>4 DEF DeleteCredential
  <2>5. QED BY <1>4, <2>1, <2>2, <2>3, <2>4 DEF Admin
<1>5. ASSUME Queue
      PROVE  ShapesOK'
  <2>1. CASE \E d \in Devices : Tick(d)
    BY <2>1 DEF Tick
  <2>2. CASE \E d \in Devices : Expire(d)
    BY <2>2 DEF Expire
  <2>3. CASE \E e \in Entries : Stalled(e)
    BY <2>3 DEF Stalled
  <2>4. CASE \E j \in Jobs : Evict(j)
    BY <2>4 DEF Evict
  <2>5. CASE \E j \in Jobs : Recover(j)
    BY <2>5 DEF Recover
  <2>6. QED BY <1>5, <2>1, <2>2, <2>3, <2>4, <2>5 DEF Queue
<1>6. CASE UNCHANGED vars
  BY <1>6 DEF vars
<1>7. QED BY <1>1, <1>2, <1>3, <1>4, <1>5, <1>6 DEF Next

\* What the handlers refer to stays, and a step that starts work on a job has its row.
LEMMA HandlersReferStep ==
  ASSUME TypeInv, [Next]_vars
  PROVE  HandlersRefer'
<1> USE DEF TypeInv, TypeOK, HandlersOK, Entries, HasJob, Pc, LockedPc,
            Goto, Raise, Reject, AfterAction, rows, handlers, HandlersRefer
<1>0. RowsOK' /\ RowsStay
  BY RowsStep
<1>1. ASSUME NEW w \in Workers, Handler(w)
      PROVE  HandlersRefer'
  <2>1. CASE \E e \in Entries : Take(w, e)
    <3>1. PICK e \in Entries : Take(w, e)
      BY <2>1
    <3>2. e \notin Devices => e \in Jobs /\ Created(e)
      BY <3>1 DEF Take, QueueRefers, Idle
    <3>3. QED
      BY <1>0, <3>1, <3>2 DEF Take, RowsStay
  <2>2. CASE Scheduled(w)
    <3>1. at[w] \in Devices
      BY <2>2 DEF Scheduled
    <3>2. ASSUME NEW j \in Jobs, ~Created(j), job' = [job EXCEPT ![j] = NewJob("POLL", at[w], "READ")]
          PROVE  Created(j)'
      BY <3>1, <3>2, NewRow DEF JobType, Purpose
    <3>3. QED
      BY <1>0, <2>2, <3>1, <3>2 DEF Scheduled, RowsStay
  <2>3. CASE Load(w)
    BY <1>0, <2>3 DEF Load, RowsStay
  <2>4. CASE Configure(w)
    BY <1>0, <2>4 DEF Configure, RowsStay
  <2>5. CASE AcquireLock(w)
    BY <1>0, <2>5 DEF AcquireLock, RowsStay
  <2>6. CASE ScheduledBusy(w)
    BY <1>0, <2>6 DEF ScheduledBusy, RowsStay
  <2>7. CASE Begin(w)
    BY <1>0, <2>7 DEF Begin, RowsStay
  <2>8. CASE Probe(w)
    BY <1>0, <2>8 DEF Probe, RowsStay
  <2>9. CASE CreateSnapshot(w)
    BY <1>0, <2>9 DEF CreateSnapshot, RowsStay
  <2>10. CASE DeleteDrifts(w)
    BY <1>0, <2>10 DEF DeleteDrifts, RowsStay
  <2>11. CASE CommitDrifts(w)
    BY <1>0, <2>11 DEF CommitDrifts, RowsStay
  <2>12. CASE Preflight(w)
    BY <1>0, <2>12 DEF Preflight, RowsStay
  <2>13. CASE Apply(w)
    BY <1>0, <2>13 DEF Apply, RowsStay
  <2>14. CASE Verify(w)
    BY <1>0, <2>14 DEF Verify, RowsStay
  <2>15. CASE Finish(w)
    BY <1>0, <2>15 DEF Finish, RowsStay
  <2>16. CASE Fail(w)
    BY <1>0, <2>16 DEF Fail, RowsStay
  <2>17. CASE ReleaseLock(w)
    BY <1>0, <2>17 DEF ReleaseLock, RowsStay
  <2>18. CASE Settle(w)
    BY <1>0, <2>18 DEF Settle, RowsStay
  <2>19. QED BY <1>1, <2>1, <2>2, <2>3, <2>4, <2>5, <2>6, <2>7, <2>8, <2>9, <2>10, <2>11,
         <2>12, <2>13, <2>14, <2>15, <2>16, <2>17, <2>18 DEF Handler
<1>2. ASSUME NEW w \in Workers, Start(w) \/ Crash(w) \/ LoseLease(w)
      PROVE  HandlersRefer'
  <2>1. CASE Start(w)
    BY <1>0, <2>1 DEF Start, RowsStay
  <2>2. CASE Crash(w)
    BY <1>0, <2>2 DEF Crash, RowsStay
  <2>3. CASE LoseLease(w)
    BY <1>0, <2>3 DEF LoseLease, RowsStay
  <2>4. QED BY <1>2, <2>1, <2>2, <2>3
<1>3. ASSUME NEW c \in Clients, Client(c)
      PROVE  HandlersRefer'
  BY <1>0, <1>3 DEF Client, PollCheck, TestCreate, ExecuteCheck, PollCreate, ExecuteClaim,
         Enqueue, RowsStay
<1>4. ASSUME NEW d \in Devices, Admin(d)
      PROVE  HandlersRefer'
  BY <1>0, <1>4 DEF Admin, UpsertConfig, PreviewWrite, CreateCredential, DeleteCredential,
         RowsStay
<1>5. ASSUME Queue
      PROVE  HandlersRefer'
  BY <1>0, <1>5 DEF Queue, Tick, Expire, Stalled, Evict, Recover, RowsStay
<1>6. CASE UNCHANGED vars
  BY <1>0, <1>6 DEF vars, RowsStay
<1>7. QED BY <1>1, <1>2, <1>3, <1>4, <1>5, <1>6 DEF Next

\* A delivery, and a row about to be recovered, is of a row that exists.
LEMMA QueueRefersStep ==
  ASSUME TypeInv, [Next]_vars
  PROVE  QueueRefers'
<1> USE DEF TypeInv, TypeOK, QueueOK, CallsOK, Entry, Entries, Idle, Added, Disowned,
            Call, rows, calls, QueueRefers
<1>0. RowsOK' /\ RowsStay
  BY RowsStep
<1>1. ASSUME NEW w \in Workers, Handler(w)
      PROVE  QueueRefers'
  <2>1. CASE \E e \in Entries : Take(w, e)
    BY <1>0, <2>1 DEF Take, RowsStay
  <2>2. CASE Settle(w)
    BY <1>0, <2>2 DEF Settle, RowsStay, HandlersRefer
  <2>3. CASE \/ Scheduled(w)
           \/ Load(w)
           \/ Configure(w)
           \/ AcquireLock(w)
           \/ ScheduledBusy(w)
           \/ Begin(w)
           \/ Probe(w)
           \/ CreateSnapshot(w)
           \/ DeleteDrifts(w)
           \/ CommitDrifts(w)
           \/ Preflight(w)
           \/ Apply(w)
           \/ Verify(w)
           \/ Finish(w)
           \/ Fail(w)
           \/ ReleaseLock(w)
    BY <1>0, <2>3 DEF Scheduled, Load, Configure, AcquireLock, ScheduledBusy, Begin, Probe,
           CreateSnapshot, DeleteDrifts, CommitDrifts, Preflight, Apply, Verify, Finish, Fail,
           ReleaseLock, RowsStay
  <2>4. QED BY <1>1, <2>1, <2>2, <2>3 DEF Handler
<1>2. ASSUME NEW w \in Workers, Start(w) \/ Crash(w) \/ LoseLease(w)
      PROVE  QueueRefers'
  <2>1. CASE Start(w)
    BY <1>0, <2>1 DEF Start, RowsStay
  <2>2. CASE Crash(w)
    BY <1>0, <2>2 DEF Crash, RowsStay
  <2>3. CASE LoseLease(w)
    BY <1>0, <2>3 DEF LoseLease, RowsStay
  <2>4. QED BY <1>2, <2>1, <2>2, <2>3
<1>3. ASSUME NEW c \in Clients, Client(c)
      PROVE  QueueRefers'
  <2>1. CASE Enqueue(c)
    BY <1>0, <2>1 DEF Enqueue, RowsStay, CallsRefer
  <2>2. CASE \/ (\E d \in Devices : PollCheck(c, d))
           \/ (\E d \in Devices, p \in Purpose : TestCreate(c, d, p))
           \/ (\E r \in Requests : ExecuteCheck(c, r))
           \/ PollCreate(c)
           \/ ExecuteClaim(c)
    BY <1>0, <2>2 DEF PollCheck, TestCreate, ExecuteCheck, PollCreate, ExecuteClaim, RowsStay
  <2>3. QED BY <1>3, <2>1, <2>2 DEF Client
<1>4. ASSUME NEW d \in Devices, Admin(d)
      PROVE  QueueRefers'
  BY <1>0, <1>4 DEF Admin, UpsertConfig, PreviewWrite, CreateCredential, DeleteCredential,
         RowsStay
<1>5. ASSUME Queue
      PROVE  QueueRefers'
  <2>1. CASE \E d \in Devices : Tick(d)
    BY <1>0, <2>1 DEF Tick, RowsStay
  <2>2. CASE \E e \in Entries : Stalled(e)
    BY <1>0, <2>2 DEF Stalled, RowsStay
  <2>3. CASE \E j \in Jobs : Evict(j)
    BY <1>0, <2>3 DEF Evict, RowsStay
  <2>4. CASE \E j \in Jobs : Recover(j)
    BY <1>0, <2>4 DEF Recover, RowsStay
  <2>5. CASE \/ (\E d \in Devices : Expire(d))
    BY <1>0, <2>5 DEF Expire, RowsStay
  <2>6. QED BY <1>5, <2>1, <2>2, <2>3, <2>4, <2>5 DEF Queue
<1>6. CASE UNCHANGED vars
  BY <1>0, <1>6 DEF vars, RowsStay
<1>7. QED BY <1>1, <1>2, <1>3, <1>4, <1>5, <1>6 DEF Next

\* What an API call refers to stays.
LEMMA CallsReferStep ==
  ASSUME TypeInv, [Next]_vars
  PROVE  CallsRefer'
<1> USE DEF TypeInv, TypeOK, CallsOK, Call, rows, calls, CallsRefer
<1>0. RowsOK' /\ RowsStay
  BY RowsStep
<1>1. ASSUME NEW w \in Workers, Handler(w)
      PROVE  CallsRefer'
  BY <1>0, <1>1 DEF Handler, Take, Scheduled, Load, Configure, AcquireLock, ScheduledBusy,
         Begin, Probe, CreateSnapshot, DeleteDrifts, CommitDrifts, Preflight, Apply, Verify,
         Finish, Fail, ReleaseLock, Settle, RowsStay
<1>2. ASSUME NEW w \in Workers, Start(w) \/ Crash(w) \/ LoseLease(w)
      PROVE  CallsRefer'
  BY <1>0, <1>2 DEF Start, Crash, LoseLease, RowsStay
<1>3. ASSUME NEW c \in Clients, Client(c)
      PROVE  CallsRefer'
  <2>1. CASE \E d \in Devices : PollCheck(c, d)
    BY <1>0, <2>1 DEF PollCheck, RowsStay
  <2>2. CASE \E d \in Devices, p \in Purpose : TestCreate(c, d, p)
    <3>1. ASSUME NEW d \in Devices, NEW p \in Purpose, NEW j \in Jobs, ~Created(j),
                 job' = [job EXCEPT ![j] = NewJob("CREDENTIAL_TEST", d, p)],
                 Call(c, "enqueue", j)
          PROVE  CallsRefer'
      <4>1. Created(j)'
        BY <3>1, NewRow DEF JobType
      <4>2. QED BY <1>0, <3>1, <4>1 DEF RowsStay
    <3>2. QED BY <2>2, <3>1 DEF TestCreate
  <2>3. CASE \E r \in Requests : ExecuteCheck(c, r)
    BY <1>0, <2>3 DEF ExecuteCheck, RowsStay
  <2>4. CASE PollCreate(c)
    <3>1. CASE Call(c, "idle", None)
      BY <1>0, <3>1 DEF RowsStay
    <3>2. ASSUME NEW j \in Jobs, ~Created(j),
                 job' = [job EXCEPT ![j] = NewJob("POLL", callArg[c], "READ")],
                 Call(c, "enqueue", j)
          PROVE  CallsRefer'
      <4>1. callArg[c] \in Devices
        BY <2>4 DEF PollCreate
      <4>2. Created(j)'
        BY <3>2, <4>1, NewRow DEF JobType, Purpose
      <4>3. QED BY <1>0, <3>2, <4>2 DEF RowsStay
    <3>3. QED BY <2>4, <3>1, <3>2 DEF PollCreate
  <2>5. CASE ExecuteClaim(c)
    <3>1. CASE Call(c, "idle", None)
      BY <1>0, <3>1 DEF RowsStay
    <3>2. ASSUME NEW j \in Jobs, ~Created(j),
                 job' = [job EXCEPT ![j] = NewJob("SET", request[callArg[c]].dev, "WRITE")],
                 Call(c, "enqueue", j)
          PROVE  CallsRefer'
      <4>1. request[callArg[c]].dev \in Devices
        BY <2>5 DEF ExecuteClaim, RowsOK, Request
      <4>2. Created(j)'
        BY <3>2, <4>1, NewRow DEF JobType, Purpose
      <4>3. QED BY <1>0, <3>2, <4>2 DEF RowsStay
    <3>3. QED BY <2>5, <3>1, <3>2 DEF ExecuteClaim
  <2>6. CASE Enqueue(c)
    BY <1>0, <2>6 DEF Enqueue, RowsStay
  <2>7. QED BY <1>3, <2>1, <2>2, <2>3, <2>4, <2>5, <2>6 DEF Client
<1>4. ASSUME NEW d \in Devices, Admin(d)
      PROVE  CallsRefer'
  BY <1>0, <1>4 DEF Admin, UpsertConfig, PreviewWrite, CreateCredential, DeleteCredential,
         RowsStay
<1>5. ASSUME Queue
      PROVE  CallsRefer'
  BY <1>0, <1>5 DEF Queue, Tick, Expire, Stalled, Evict, Recover, RowsStay
<1>6. CASE UNCHANGED vars
  BY <1>0, <1>6 DEF vars, RowsStay
<1>7. QED BY <1>1, <1>2, <1>3, <1>4, <1>5, <1>6 DEF Next

-----------------------------------------------------------------------------
\* Rows, deliveries, locks and handlers keep their shapes, and what handlers,
\* calls and deliveries refer to exists.
LEMMA TypeInvStep == TypeInv /\ [Next]_vars => TypeInv'
BY RowsStep, ShapesStep, HandlersReferStep, QueueRefersStep, CallsReferStep
   DEF TypeInv, TypeOK, ShapesOK

\* ... in every reachable state.
LEMMA TypeInvariant == Spec => []TypeInv
<1>1. Init => TypeInv
  BY InitTypeInv
<1>2. QED
  BY <1>1, TypeInvStep, PTL DEF Spec

\* SnmpJob and SnmpWriteRequest rows, the queue, the lock keys, the handlers of
\* the workers and the calls of the API have their shapes in every state.
THEOREM TypeCorrect == Spec => []TypeOK
<1>1. TypeInv => TypeOK
  BY DEF TypeInv
<1>2. QED
  BY <1>1, TypeInvariant, PTL

-----------------------------------------------------------------------------
\* Why the lock excludes: a handler inside withLock still owns the key.
LockInv == ~Overrun => \A w \in Workers : InLock(w) => lock[DeviceOf(w)] = w

\* Two handlers cannot own one key.
LEMMA LockInvExcludes == LockInv => MutualExclusion
BY DEF LockInv, MutualExclusion

\* A handler that is inside withLock after a step owns the key after it.
LEMMA LockInvStep ==
  ASSUME TypeInv, LockInv, [Next]_vars
  PROVE  LockInv'
<1> USE DEF TypeInv, TypeOK, HandlersOK, QueueOK, Goto, Raise, Reject, AfterAction, InLock, TypeOf,
            DeviceOf, LockedPc, rows, handlers, LockInv
<1>0. RowsOK' /\ RowsStay
  BY RowsStep
<1>1. ASSUME NEW w \in Workers, Handler(w)
      PROVE  LockInv'
  <2>1. CASE \E e \in Entries : Take(w, e)
    BY <1>0, <2>1 DEF Take, RowsStay, HandlersRefer, HasJob, Pc
  <2>2. CASE Scheduled(w)
    BY <1>0, <2>2 DEF Scheduled, RowsStay, HandlersRefer, HasJob, Pc
  <2>3. CASE Load(w)
    BY <1>0, <2>3 DEF Load, RowsStay, HandlersRefer, HasJob, Pc
  <2>4. CASE Configure(w)
    BY <1>0, <2>4 DEF Configure, RowsStay, HandlersRefer, HasJob, Pc
  <2>5. CASE AcquireLock(w)
    <3>1. DeviceOf(w) \in Devices
      BY <2>5 DEF AcquireLock, HandlersRefer, HasJob, Pc, RowsOK, Job, Created
    <3>2. ASSUME NEW v \in Workers, v # w, InLock(v)'
          PROVE  InLock(v) /\ cur'[v] = cur[v] /\ DeviceOf(v)' = DeviceOf(v)
      BY <1>0, <2>5, <3>2 DEF AcquireLock, RowsStay, HandlersRefer, HasJob, Pc
    <3>3. CASE lock[DeviceOf(w)] = Free /\ lock' = [lock EXCEPT ![DeviceOf(w)] = w]
      <4>1. DeviceOf(w)' = DeviceOf(w)
        BY <2>5 DEF AcquireLock
      <4>2. ASSUME ~Overrun, NEW v \in Workers, v # w, InLock(v)'
            PROVE  lock'[DeviceOf(v)'] = v
        BY <3>1, <3>2, <3>3, <4>2
      <4>3. QED BY <3>1, <3>2, <3>3, <4>1, <4>2
    <3>4. CASE UNCHANGED lock /\ pc'[w] \notin LockedPc
      BY <2>5, <3>2, <3>4 DEF AcquireLock
    <3>5. QED
      BY <2>5, <3>3, <3>4 DEF AcquireLock
  <2>6. CASE ScheduledBusy(w)
    BY <1>0, <2>6 DEF ScheduledBusy, RowsStay, HandlersRefer, HasJob, Pc
  <2>7. CASE Begin(w)
    BY <1>0, <2>7 DEF Begin, RowsStay, HandlersRefer, HasJob, Pc
  <2>8. CASE Probe(w)
    BY <1>0, <2>8 DEF Probe, RowsStay, HandlersRefer, HasJob, Pc
  <2>9. CASE CreateSnapshot(w)
    BY <1>0, <2>9 DEF CreateSnapshot, RowsStay, HandlersRefer, HasJob, Pc
  <2>10. CASE DeleteDrifts(w)
    BY <1>0, <2>10 DEF DeleteDrifts, RowsStay, HandlersRefer, HasJob, Pc
  <2>11. CASE CommitDrifts(w)
    BY <1>0, <2>11 DEF CommitDrifts, RowsStay, HandlersRefer, HasJob, Pc
  <2>12. CASE Preflight(w)
    BY <1>0, <2>12 DEF Preflight, RowsStay, HandlersRefer, HasJob, Pc
  <2>13. CASE Apply(w)
    BY <1>0, <2>13 DEF Apply, RowsStay, HandlersRefer, HasJob, Pc
  <2>14. CASE Verify(w)
    BY <1>0, <2>14 DEF Verify, RowsStay, HandlersRefer, HasJob, Pc
  <2>15. CASE Finish(w)
    BY <1>0, <2>15 DEF Finish, RowsStay, HandlersRefer, HasJob, Pc
  <2>16. CASE Fail(w)
    BY <1>0, <2>16 DEF Fail, RowsStay, HandlersRefer, HasJob, Pc
  <2>17. CASE ReleaseLock(w)
    <3>1. DeviceOf(w) \in Devices
      BY <2>17 DEF ReleaseLock, HandlersRefer, HasJob, Pc, RowsOK, Job, Created
    <3>2. ASSUME NEW v \in Workers, InLock(v)'
          PROVE  v # w /\ InLock(v) /\ DeviceOf(v)' = DeviceOf(v)
      BY <1>0, <2>17, <3>2 DEF ReleaseLock, RowsStay, HandlersRefer, HasJob, Pc
    <3>3. CASE lock[DeviceOf(w)] = w
      <4>1. PICK key \in {Free, Orphan} : lock' = [lock EXCEPT ![DeviceOf(w)] = key]
        BY <2>17, <3>3 DEF ReleaseLock
      <4>2. QED
        BY <3>1, <3>2, <3>3, <4>1
    <3>4. CASE lock[DeviceOf(w)] # w
      BY <2>17, <3>2, <3>4 DEF ReleaseLock
    <3>5. QED
      BY <3>3, <3>4
  <2>18. CASE Settle(w)
    BY <1>0, <2>18 DEF Settle, RowsStay, HandlersRefer, HasJob, Pc
  <2>19. QED BY <1>1, <2>1, <2>2, <2>3, <2>4, <2>5, <2>6, <2>7, <2>8, <2>9, <2>10, <2>11,
         <2>12, <2>13, <2>14, <2>15, <2>16, <2>17, <2>18 DEF Handler
<1>2. ASSUME NEW w \in Workers, Start(w) \/ Crash(w) \/ LoseLease(w)
      PROVE  LockInv'
  <2>1. CASE Start(w)
    BY <1>0, <2>1 DEF Start, RowsStay, HandlersRefer, HasJob, Pc
  <2>2. CASE Crash(w)
    <3>1. ASSUME NEW v \in Workers, InLock(v)'
          PROVE  v # w /\ InLock(v) /\ DeviceOf(v)' = DeviceOf(v) /\ DeviceOf(v) \in Devices
      BY <1>0, <2>2, <3>1 DEF Crash, RowsStay, HandlersRefer, HasJob, Pc, RowsOK, Job, Created
    <3>2. QED
      BY <2>2, <3>1 DEF Crash
  <2>3. CASE LoseLease(w)
    BY <1>0, <2>3 DEF LoseLease, RowsStay, HandlersRefer, HasJob, Pc
  <2>4. QED BY <1>2, <2>1, <2>2, <2>3
<1>3. ASSUME NEW c \in Clients, Client(c)
      PROVE  LockInv'
  BY <1>0, <1>3 DEF Client, PollCheck, TestCreate, ExecuteCheck, PollCreate, ExecuteClaim,
         Enqueue, RowsStay, HandlersRefer, HasJob, Pc
<1>4. ASSUME NEW d \in Devices, Admin(d)
      PROVE  LockInv'
  BY <1>0, <1>4 DEF Admin, UpsertConfig, PreviewWrite, CreateCredential, DeleteCredential,
         RowsStay, HandlersRefer, HasJob, Pc
<1>5. ASSUME Queue
      PROVE  LockInv'
  <2>1. CASE \E d \in Devices : Tick(d)
    BY <1>0, <2>1 DEF Tick, RowsStay, HandlersRefer, HasJob, Pc
  <2>2. CASE \E d \in Devices : Expire(d)
    BY <1>0, <2>2 DEF Expire, RowsStay, HandlersRefer, HasJob, Pc
  <2>3. CASE \/ (\E e \in Entries : Stalled(e))
           \/ (\E j \in Jobs : Evict(j))
           \/ (\E j \in Jobs : Recover(j))
    BY <1>0, <2>3 DEF Stalled, Evict, Recover, RowsStay, HandlersRefer, HasJob, Pc
  <2>4. QED BY <1>5, <2>1, <2>2, <2>3 DEF Queue
<1>6. CASE UNCHANGED vars
  BY <1>0, <1>6 DEF vars, RowsStay, HandlersRefer, HasJob, Pc
<1>7. QED BY <1>1, <1>2, <1>3, <1>4, <1>5, <1>6 DEF Next

\* A handler inside withLock owns the key in every reachable state.
LEMMA LockInvariant == Spec => []LockInv
<1>1. Init => LockInv
  BY DEF Init, LockInv, InLock, LockedPc
<1>2. TypeInv /\ LockInv /\ [Next]_vars => LockInv'
  BY LockInvStep
<1>3. QED
  BY <1>1, <1>2, TypeInvariant, PTL DEF Spec

\* However deliveries are repeated, recovered or lost, no two handlers are
\* inside withLock for one device, as long as no key outlives its TTL.
THEOREM LockExcludes == Spec => []MutualExclusion
BY LockInvariant, LockInvExcludes, PTL

\* Every step that changes a key is the acquisition or the release of one
\* handler, the crash of one, or the expiry, which moves no handler.
LEMMA LockWriters ==
  ASSUME TypeInv, [Next]_vars
  PROVE  \/ UNCHANGED lock
         \/ \E v \in Workers : AcquireLock(v) \/ ReleaseLock(v) \/ Crash(v)
         \/ UNCHANGED pc
<1>1. ASSUME NEW w \in Workers, Handler(w)
      PROVE  UNCHANGED lock \/ AcquireLock(w) \/ ReleaseLock(w)
  BY <1>1 DEF Handler, Take, Scheduled, Load, Configure, ScheduledBusy, Begin, Probe, CreateSnapshot,
         DeleteDrifts, CommitDrifts, Preflight, Apply, Verify, Finish, Fail, Settle
<1>2. ASSUME NEW w \in Workers, Start(w) \/ LoseLease(w)
      PROVE  UNCHANGED lock
  BY <1>2 DEF Start, LoseLease
<1>3. ASSUME NEW c \in Clients, Client(c)
      PROVE  UNCHANGED lock
  BY <1>3 DEF Client, PollCheck, TestCreate, ExecuteCheck, PollCreate, ExecuteClaim, Enqueue
<1>4. ASSUME NEW d \in Devices, Admin(d)
      PROVE  UNCHANGED lock
  BY <1>4 DEF Admin, UpsertConfig, PreviewWrite, CreateCredential, DeleteCredential
<1>5. ASSUME Queue
      PROVE  UNCHANGED lock \/ UNCHANGED pc
  BY <1>5 DEF Queue, Tick, Expire, Stalled, Evict, Recover, handlers
<1>6. CASE UNCHANGED vars
  BY <1>6 DEF vars
<1>7. QED BY <1>1, <1>2, <1>3, <1>4, <1>5, <1>6 DEF Next

\* Even when keys outlive or expire under their handlers, a key that is held
\* goes by a step of its own handler or by its TTL: withLock's compare-and-delete
\* never takes the key of another.
THEOREM KeysGoByTheirOwners == Spec => OnlyOwnerOrTimeFrees
<1>1. ASSUME TypeInv, [Next]_vars, NEW d \in Devices, NEW w \in Workers,
             lock[d] = w, lock'[d] # w, pc'[w] = pc[w]
      PROVE  pc' = pc
  <2>1. lock \in [Devices -> Workers \cup {Free, Orphan}] /\ pc \in [Workers -> Pc]
    BY <1>1 DEF TypeInv, TypeOK, QueueOK, HandlersOK
  <2>2. w # Free
    BY IdsAssumption
  <2>3. ASSUME NEW v \in Workers, AcquireLock(v)
        PROVE  FALSE
    <3>1. PICK e : lock[e] = Free /\ lock' = [lock EXCEPT ![e] = v]
      BY <1>1, <2>3 DEF AcquireLock
    <3>2. QED BY <1>1, <2>1, <2>2, <3>1
  <2>4. ASSUME NEW v \in Workers, ReleaseLock(v)
        PROVE  FALSE
    <3>1. pc[v] = "release" /\ pc'[v] = "settle"
      BY <2>1, <2>4 DEF ReleaseLock, Goto
    <3>2. PICK e, key : lock[e] = v /\ lock' = [lock EXCEPT ![e] = key]
      BY <1>1, <2>4 DEF ReleaseLock
    <3>3. v = w
      BY <1>1, <2>1, <3>2
    <3>4. QED BY <1>1, <3>1, <3>3
  <2>5. ASSUME NEW v \in Workers, Crash(v)
        PROVE  FALSE
    <3>1. pc[v] # "down" /\ pc'[v] = "down"
      BY <2>1, <2>5 DEF Crash
    <3>2. lock[d] = v
      BY <1>1, <2>1, <2>5 DEF Crash
    <3>3. QED BY <1>1, <3>1, <3>2
  <2>6. QED BY <1>1, <2>3, <2>4, <2>5, LockWriters
<1>2. TypeInv /\ [Next]_vars
        => [\A d \in Devices, w \in Workers :
              lock[d] = w /\ lock'[d] # w /\ pc'[w] = pc[w] => pc' = pc]_vars
  BY <1>1
<1>3. QED
  BY <1>2, TypeInvariant, PTL DEF Spec, OnlyOwnerOrTimeFrees

-----------------------------------------------------------------------------
\* One transaction writes the job and its request.
LEMMA SetStatusMirrors ==
  ASSUME RowsOK, WriteRequestMirrorsJob, NEW j \in Jobs, Created(j), NEW s \in JobStatus,
         NEW t \in WriteStatus, SetStatus(j, s, t), s = t \/ (s = "FAILED" /\ t = "NEEDS_ATTENTION")
  PROVE  WriteRequestMirrorsJob'
<1> SUFFICES ASSUME NEW r \in Requests, request'[r] # None, request'[r].job # None
             PROVE  Mirrors(r, request[r].job)'
  BY DEF WriteRequestMirrorsJob
<1> DEFINE i == request[r].job
<1>1. request[r] # None /\ request[r] \in Request
  BY DEF SetStatus, RowsOK
<1>2. request'[r].job = i /\ request'[r].dev = request[r].dev /\ i \in Jobs /\ i # None
  BY <1>1 DEF SetStatus, Request
<1>3. Mirrors(r, i)
  BY <1>1, <1>2 DEF WriteRequestMirrorsJob
<1>4. Created(i)' /\ job'[i].type = "SET" /\ job'[i].dev = request'[r].dev
  BY <1>2, <1>3, SetStatusRows DEF RowsStay, Mirrors, TypeOf
<1>5. CASE i = j
  <2>1. request'[r].status = t
    BY <1>1, <1>5 DEF SetStatus, Request
  <2>2. job'[j].status = s
    BY DEF SetStatus, RowsOK, Created, Job
  <2>3. QED
    BY <1>2, <1>4, <1>5, <2>1, <2>2 DEF Mirrors, TypeOf
<1>6. CASE i # j
  <2>1. request'[r] = request[r] /\ job'[i] = job[i]
    BY <1>2, <1>6 DEF SetStatus, RowsOK
  <2>2. QED
    BY <1>2, <1>3, <1>4, <2>1 DEF Mirrors, TypeOf
<1>7. QED BY <1>5, <1>6

\* Every transaction of the pipeline keeps requests and jobs together.
LEMMA MirrorStep ==
  ASSUME TypeInv, WriteRequestMirrorsJob, [Next]_vars
  PROVE  WriteRequestMirrorsJob'
<1> USE DEF TypeInv, TypeOK, RowsOK, WriteRequestMirrorsJob, TypeOf, rows
<1>0. RowsOK' /\ RowsStay
  BY RowsStep
<1>1. ASSUME NEW w \in Workers, Handler(w)
      PROVE  WriteRequestMirrorsJob'
  <2>1. CASE Scheduled(w)
    BY <1>0, <2>1 DEF Scheduled, Created, Mirrors, Request
  <2>2. CASE Configure(w)
    <3>1. cur[w] \in Jobs /\ Created(cur[w])
      BY <2>2 DEF Configure, HandlersRefer, HasJob, Pc, LockedPc
    <3>2. SetStatus(cur[w], "BLOCKED", "BLOCKED") => WriteRequestMirrorsJob'
      BY <3>1, SetStatusMirrors DEF JobStatus, WriteStatus
    <3>3. UNCHANGED <<job, request>> => WriteRequestMirrorsJob'
      BY DEF Created, Mirrors
    <3>4. QED
      BY <2>2, <3>2, <3>3 DEF Configure
  <2>3. CASE ScheduledBusy(w)
    <3>1. cur[w] \in Jobs /\ Created(cur[w])
      BY <2>3 DEF ScheduledBusy, HandlersRefer, HasJob, Pc, LockedPc
    <3>2. SetStatus(cur[w], "BLOCKED", "BLOCKED") => WriteRequestMirrorsJob'
      BY <3>1, SetStatusMirrors DEF JobStatus, WriteStatus
    <3>3. QED
      BY <2>3, <3>2 DEF ScheduledBusy
  <2>4. CASE Begin(w)
    <3>1. cur[w] \in Jobs /\ Created(cur[w])
      BY <2>4 DEF Begin, HandlersRefer, HasJob, Pc, LockedPc
    <3>2. SetStatus(cur[w], "RUNNING", "RUNNING") => WriteRequestMirrorsJob'
      BY <3>1, SetStatusMirrors DEF JobStatus, WriteStatus
    <3>3. QED
      BY <2>4, <3>2 DEF Begin
  <2>5. CASE Finish(w)
    <3>1. cur[w] \in Jobs /\ Created(cur[w])
      BY <2>5 DEF Finish, HandlersRefer, HasJob, Pc, LockedPc
    <3>2. SetStatus(cur[w], "COMPLETED", "COMPLETED") => WriteRequestMirrorsJob'
      BY <3>1, SetStatusMirrors DEF JobStatus, WriteStatus
    <3>3. UNCHANGED <<job, request>> => WriteRequestMirrorsJob'
      BY DEF Created, Mirrors
    <3>4. QED
      BY <2>5, <3>2, <3>3 DEF Finish
  <2>6. CASE Fail(w)
    <3>1. cur[w] \in Jobs /\ Created(cur[w])
      BY <2>6 DEF Fail, HandlersRefer, HasJob, Pc, LockedPc
    <3>2. SetStatus(cur[w], "FAILED", "FAILED") => WriteRequestMirrorsJob'
      BY <3>1, SetStatusMirrors DEF JobStatus, WriteStatus
    <3>3. SetStatus(cur[w], "FAILED", "NEEDS_ATTENTION") => WriteRequestMirrorsJob'
      BY <3>1, SetStatusMirrors DEF JobStatus, WriteStatus
    <3>4. UNCHANGED <<job, request>> => WriteRequestMirrorsJob'
      BY DEF Created, Mirrors
    <3>5. QED
      BY <2>6, <3>2, <3>3, <3>4 DEF Fail
  <2>7. CASE \/ (\E e \in Entries : Take(w, e))
           \/ Load(w)
           \/ AcquireLock(w)
           \/ Probe(w)
           \/ CreateSnapshot(w)
           \/ DeleteDrifts(w)
           \/ CommitDrifts(w)
           \/ Preflight(w)
           \/ Apply(w)
           \/ Verify(w)
           \/ ReleaseLock(w)
           \/ Settle(w)
    BY <1>0, <2>7 DEF Take, Load, AcquireLock, Probe, CreateSnapshot, DeleteDrifts,
           CommitDrifts, Preflight, Apply, Verify, ReleaseLock, Settle, Created, Mirrors
  <2>8. QED BY <1>1, <2>1, <2>2, <2>3, <2>4, <2>5, <2>6, <2>7 DEF Handler
<1>2. ASSUME NEW w \in Workers, Start(w) \/ Crash(w) \/ LoseLease(w)
      PROVE  WriteRequestMirrorsJob'
  BY <1>0, <1>2 DEF Start, Crash, LoseLease, Created, Mirrors
<1>3. ASSUME NEW c \in Clients, Client(c)
      PROVE  WriteRequestMirrorsJob'
  <2>1. CASE \E d \in Devices, p \in Purpose : TestCreate(c, d, p)
    BY <1>0, <2>1 DEF TestCreate, Created, Mirrors, Request
  <2>2. CASE PollCreate(c)
    BY <1>0, <2>2 DEF PollCreate, Created, Mirrors, Request
  <2>3. CASE ExecuteClaim(c)
    <3>1. PICK r \in Requests : r = callArg[c] /\ request[r] \in Request
      BY <2>3 DEF ExecuteClaim, CallsRefer
    <3>2. UNCHANGED <<job, request>> => WriteRequestMirrorsJob'
      BY DEF Created, Mirrors
    <3>3. ASSUME NEW j \in Jobs, ~Created(j),
                 job' = [job EXCEPT ![j] = NewJob("SET", request[r].dev, "WRITE")],
                 request' = [request EXCEPT ![r] = [request[r] EXCEPT !.status = "PENDING", !.job = j]]
          PROVE  WriteRequestMirrorsJob'
      <4>1. job'[j] = NewJob("SET", request[r].dev, "WRITE") /\ Created(j)'
            /\ \A i \in Jobs : Created(i) => Created(i)' /\ job'[i] = job[i]
        BY <3>1, <3>3, NewRow DEF JobType, Purpose, Request
      <4>2. /\ request'[r].job = j /\ request'[r].status = "PENDING"
            /\ request'[r].dev = request[r].dev
            /\ \A q \in Requests : q # r => request'[q] = request[q]
        BY <3>1, <3>3 DEF Request
      <4>3. Mirrors(r, j)'
        BY <4>1, <4>2 DEF Mirrors, NewJob
      <4>4. ASSUME NEW q \in Requests, q # r, request[q] # None, request[q].job # None
            PROVE  Mirrors(q, request[q].job)'
        BY <4>1, <4>2, <4>4 DEF Mirrors, Request
      <4>5. QED BY <4>2, <4>3, <4>4
    <3>4. QED BY <2>3, <3>1, <3>2, <3>3 DEF ExecuteClaim
  <2>4. CASE \/ (\E d \in Devices : PollCheck(c, d))
           \/ (\E r \in Requests : ExecuteCheck(c, r))
           \/ Enqueue(c)
    BY <1>0, <2>4 DEF PollCheck, ExecuteCheck, Enqueue, Created, Mirrors
  <2>5. QED BY <1>3, <2>1, <2>2, <2>3, <2>4 DEF Client
<1>4. ASSUME NEW d \in Devices, Admin(d)
      PROVE  WriteRequestMirrorsJob'
  <2>1. CASE PreviewWrite(d)
    BY <1>0, <2>1 DEF PreviewWrite, Created, Mirrors, Request
  <2>2. CASE \E p \in Purpose : DeleteCredential(d, p)
    <3>1. ASSUME NEW j \in Jobs, Created(j)
          PROVE  /\ Created(j)' /\ job'[j].type = job[j].type
                 /\ job'[j].dev = job[j].dev /\ job'[j].status = job[j].status
      BY <1>0, <2>2, <3>1 DEF DeleteCredential, RowsStay, Created, Job
    <3>2. UNCHANGED request
      BY <2>2 DEF DeleteCredential
    <3>3. \A r \in Requests : request[r] # None /\ request[r].job # None => request[r].job \in Jobs
      BY DEF Request
    <3>4. QED
      BY <3>1, <3>2, <3>3 DEF Mirrors
  <2>3. CASE \/ UpsertConfig(d)
           \/ (\E p \in Purpose : CreateCredential(d, p))
    BY <1>0, <2>3 DEF UpsertConfig, CreateCredential, Created, Mirrors
  <2>4. QED BY <1>4, <2>1, <2>2, <2>3 DEF Admin
<1>5. ASSUME Queue
      PROVE  WriteRequestMirrorsJob'
  BY <1>0, <1>5 DEF Queue, Tick, Expire, Stalled, Evict, Recover, Created, Mirrors
<1>6. CASE UNCHANGED vars
  BY <1>0, <1>6 DEF vars, Created, Mirrors
<1>7. QED BY <1>1, <1>2, <1>3, <1>4, <1>5, <1>6 DEF Next

\* A submitted write request and its job never tell different stories.
THEOREM RequestMirrorsJob == Spec => []WriteRequestMirrorsJob
<1>1. Init => WriteRequestMirrorsJob
  BY DEF Init, WriteRequestMirrorsJob
<1>2. TypeInv /\ WriteRequestMirrorsJob /\ [Next]_vars => WriteRequestMirrorsJob'
  BY MirrorStep
<1>3. QED
  BY <1>1, <1>2, TypeInvariant, PTL DEF Spec

-----------------------------------------------------------------------------
\* No write job appears, and no request changes its job.
NamesStay ==
  /\ \A j \in Jobs : (Created(j) /\ TypeOf(j) = "SET")' => Created(j) /\ TypeOf(j) = "SET"
  /\ \A r \in Requests, j \in Jobs : Names(r, j)' <=> Names(r, j)

\* Such a step cannot break the bijection of requests and write jobs.
LEMMA NamesStayKeeps == OneJobPerRequest /\ NamesStay => OneJobPerRequest'
<1> SUFFICES ASSUME OneJobPerRequest, NamesStay, NEW j \in Jobs, (Created(j) /\ TypeOf(j) = "SET")'
             PROVE  \E r \in Requests : \A q \in Requests : Names(q, j)' <=> q = r
  BY DEF OneJobPerRequest
<1>1. PICK r \in Requests : \A q \in Requests : Names(q, j) <=> q = r
  BY DEF OneJobPerRequest, NamesStay
<1>2. QED
  BY <1>1 DEF NamesStay

\* Recording a status is such a step.
LEMMA SetStatusNames ==
  ASSUME RowsOK, NEW j \in Jobs, Created(j), NEW s \in JobStatus, NEW t \in WriteStatus,
         SetStatus(j, s, t)
  PROVE  NamesStay
<1>1. ASSUME NEW i \in Jobs, Created(i)', i # j
      PROVE  Created(i) /\ job'[i] = job[i]
  BY <1>1 DEF SetStatus, RowsOK, Created
<1>2. job'[j].type = job[j].type
  BY SetStatusRows DEF RowsStay
<1>3. ASSUME NEW r \in Requests, request[r] # None
      PROVE  request'[r] # None /\ request'[r].job = request[r].job
  BY <1>3, SetStatusRows DEF SetStatus, RowsOK, RowsStay, Request
<1>4. ASSUME NEW r \in Requests, request[r] = None
      PROVE  request'[r] = None
  BY <1>4 DEF SetStatus
<1>5. QED
  BY <1>1, <1>2, <1>3, <1>4 DEF NamesStay, Names, TypeOf

\* A write job appears together with the request that names it, and only with it.
LEMMA OneJobStep ==
  ASSUME TypeInv, WriteRequestMirrorsJob, OneJobPerRequest, [Next]_vars
  PROVE  OneJobPerRequest'
<1> USE DEF TypeInv, TypeOK, RowsOK, TypeOf, rows
<1>0. RowsOK' /\ RowsStay
  BY RowsStep
<1>1. ASSUME NEW w \in Workers, Handler(w)
      PROVE  OneJobPerRequest'
  <2>1. CASE Scheduled(w)
    <3>1. at[w] \in Devices
      BY <2>1 DEF Scheduled, HandlersRefer
    <3>2. ASSUME NEW j \in Jobs, ~Created(j), job' = [job EXCEPT ![j] = NewJob("POLL", at[w], "READ")],
                 UNCHANGED request
          PROVE  NamesStay
      BY <3>1, <3>2, NewRow DEF NamesStay, Created, Names, NewJob, JobType, Purpose
    <3>3. UNCHANGED <<job, request>> => NamesStay
      BY DEF NamesStay, Created, Names
    <3>4. QED
      BY <2>1, <3>2, <3>3, NamesStayKeeps DEF Scheduled
  <2>2. CASE Configure(w)
    <3>1. cur[w] \in Jobs /\ Created(cur[w])
      BY <2>2 DEF Configure, HandlersRefer, HasJob, Pc, LockedPc
    <3>2. SetStatus(cur[w], "BLOCKED", "BLOCKED") => NamesStay
      BY <3>1, SetStatusNames DEF JobStatus, WriteStatus
    <3>3. UNCHANGED <<job, request>> => NamesStay
      BY DEF NamesStay, Created, Names
    <3>4. QED
      BY <2>2, NamesStayKeeps, <3>2, <3>3 DEF Configure
  <2>3. CASE ScheduledBusy(w)
    <3>1. cur[w] \in Jobs /\ Created(cur[w])
      BY <2>3 DEF ScheduledBusy, HandlersRefer, HasJob, Pc, LockedPc
    <3>2. SetStatus(cur[w], "BLOCKED", "BLOCKED") => NamesStay
      BY <3>1, SetStatusNames DEF JobStatus, WriteStatus
    <3>3. QED
      BY <2>3, NamesStayKeeps, <3>2 DEF ScheduledBusy
  <2>4. CASE Begin(w)
    <3>1. cur[w] \in Jobs /\ Created(cur[w])
      BY <2>4 DEF Begin, HandlersRefer, HasJob, Pc, LockedPc
    <3>2. SetStatus(cur[w], "RUNNING", "RUNNING") => NamesStay
      BY <3>1, SetStatusNames DEF JobStatus, WriteStatus
    <3>3. QED
      BY <2>4, NamesStayKeeps, <3>2 DEF Begin
  <2>5. CASE Finish(w)
    <3>1. cur[w] \in Jobs /\ Created(cur[w])
      BY <2>5 DEF Finish, HandlersRefer, HasJob, Pc, LockedPc
    <3>2. SetStatus(cur[w], "COMPLETED", "COMPLETED") => NamesStay
      BY <3>1, SetStatusNames DEF JobStatus, WriteStatus
    <3>3. UNCHANGED <<job, request>> => NamesStay
      BY DEF NamesStay, Created, Names
    <3>4. QED
      BY <2>5, NamesStayKeeps, <3>2, <3>3 DEF Finish
  <2>6. CASE Fail(w)
    <3>1. cur[w] \in Jobs /\ Created(cur[w])
      BY <2>6 DEF Fail, HandlersRefer, HasJob, Pc, LockedPc
    <3>2. SetStatus(cur[w], "FAILED", "FAILED") => NamesStay
      BY <3>1, SetStatusNames DEF JobStatus, WriteStatus
    <3>3. SetStatus(cur[w], "FAILED", "NEEDS_ATTENTION") => NamesStay
      BY <3>1, SetStatusNames DEF JobStatus, WriteStatus
    <3>4. UNCHANGED <<job, request>> => NamesStay
      BY DEF NamesStay, Created, Names
    <3>5. QED
      BY <2>6, NamesStayKeeps, <3>2, <3>3, <3>4 DEF Fail
  <2>7. CASE \/ (\E e \in Entries : Take(w, e))
           \/ Load(w)
           \/ AcquireLock(w)
           \/ Probe(w)
           \/ CreateSnapshot(w)
           \/ DeleteDrifts(w)
           \/ CommitDrifts(w)
           \/ Preflight(w)
           \/ Apply(w)
           \/ Verify(w)
           \/ ReleaseLock(w)
           \/ Settle(w)
    BY NamesStayKeeps, <2>7 DEF Take, Load, AcquireLock, Probe, CreateSnapshot, DeleteDrifts,
           CommitDrifts, Preflight, Apply, Verify, ReleaseLock, Settle, NamesStay, Created,
           Names
  <2>8. QED BY <1>1, <2>1, <2>2, <2>3, <2>4, <2>5, <2>6, <2>7 DEF Handler
<1>2. ASSUME NEW w \in Workers, Start(w) \/ Crash(w) \/ LoseLease(w)
      PROVE  OneJobPerRequest'
  BY NamesStayKeeps, <1>2 DEF Start, Crash, LoseLease, NamesStay, Created, Names
<1>3. ASSUME NEW c \in Clients, Client(c)
      PROVE  OneJobPerRequest'
  <2>1. CASE \E d \in Devices, p \in Purpose : TestCreate(c, d, p)
    <3>1. ASSUME NEW d \in Devices, NEW p \in Purpose, NEW j \in Jobs, ~Created(j),
                 job' = [job EXCEPT ![j] = NewJob("CREDENTIAL_TEST", d, p)], UNCHANGED request
          PROVE  NamesStay
      BY <3>1, NewRow DEF NamesStay, Created, Names, NewJob, JobType
    <3>2. QED
      BY <2>1, <3>1, NamesStayKeeps DEF TestCreate
  <2>2. CASE PollCreate(c)
    <3>1. callArg[c] \in Devices
      BY <2>2 DEF PollCreate, CallsRefer
    <3>2. ASSUME NEW j \in Jobs, ~Created(j), job' = [job EXCEPT ![j] = NewJob("POLL", callArg[c], "READ")],
                 UNCHANGED request
          PROVE  NamesStay
      BY <3>1, <3>2, NewRow DEF NamesStay, Created, Names, NewJob, JobType, Purpose
    <3>3. UNCHANGED <<job, request>> => NamesStay
      BY DEF NamesStay, Created, Names
    <3>4. QED
      BY <2>2, <3>2, <3>3, NamesStayKeeps DEF PollCreate
  <2>3. CASE ExecuteClaim(c)
    <3>1. PICK r \in Requests : r = callArg[c] /\ request[r] \in Request
      BY <2>3 DEF ExecuteClaim, CallsRefer
    <3>2. UNCHANGED <<job, request>> => NamesStay
      BY DEF NamesStay, Created, Names
    <3>3. ASSUME NEW j \in Jobs, ~Created(j), request[r].status = "PREVIEW",
                 job' = [job EXCEPT ![j] = NewJob("SET", request[r].dev, "WRITE")],
                 request' = [request EXCEPT ![r] = [request[r] EXCEPT !.status = "PENDING", !.job = j]]
          PROVE  OneJobPerRequest'
      <4>1. request[r].job = None
        BY <3>1, <3>3 DEF WriteRequestMirrorsJob, Mirrors, Request, Job, JobStatus, Created
      <4>2. /\ request'[r] # None
            /\ request'[r].job = j
            /\ \A q \in Requests : q # r => request'[q] = request[q]
        <5>1. request'[r] # None
          BY <1>0, <3>1 DEF RowsStay
        <5>2. QED
          BY <3>1, <3>3, <5>1 DEF Request
      <4>3. \A q \in Requests : ~Names(q, j)
        BY <3>3 DEF WriteRequestMirrorsJob, Mirrors, Names
      <4>4. \A q \in Requests : Names(q, j)' <=> q = r
        BY <4>2, <4>3 DEF Names
      <4>5. ASSUME NEW i \in Jobs, i # j
            PROVE  \A q \in Requests : Names(q, i)' <=> Names(q, i)
        BY <4>1, <4>2, <4>5 DEF Names
      <4>6. ASSUME NEW i \in Jobs, i # j, (Created(i) /\ TypeOf(i) = "SET")'
            PROVE  \E p \in Requests : \A q \in Requests : Names(q, i)' <=> q = p
        <5>1. Created(i) /\ TypeOf(i) = "SET"
          BY <3>3, <4>6 DEF Created
        <5>2. QED
          BY <4>5, <4>6, <5>1 DEF OneJobPerRequest
      <4>7. QED BY <4>4, <4>6 DEF OneJobPerRequest
    <3>4. QED BY <2>3, <3>1, <3>2, <3>3, NamesStayKeeps DEF ExecuteClaim
  <2>4. CASE \/ (\E d \in Devices : PollCheck(c, d))
           \/ (\E r \in Requests : ExecuteCheck(c, r))
           \/ Enqueue(c)
    BY NamesStayKeeps, <2>4 DEF PollCheck, ExecuteCheck, Enqueue, NamesStay, Created, Names
  <2>5. QED BY <1>3, <2>1, <2>2, <2>3, <2>4 DEF Client
<1>4. ASSUME NEW d \in Devices, Admin(d)
      PROVE  OneJobPerRequest'
  <2>1. CASE PreviewWrite(d)
    <3>1. \A q \in Requests, j \in Jobs : Names(q, j)' <=> Names(q, j)
      BY <2>1 DEF PreviewWrite, Names
    <3>2. QED
      BY <2>1, <3>1, NamesStayKeeps DEF PreviewWrite, NamesStay, Created
  <2>2. CASE \E p \in Purpose : DeleteCredential(d, p)
    <3>1. ASSUME NEW j \in Jobs, Created(j)'
          PROVE  Created(j) /\ job'[j].type = job[j].type
      BY <1>0, <2>2, <3>1 DEF DeleteCredential, RowsStay, Created, Job
    <3>2. QED
      BY <2>2, <3>1, NamesStayKeeps DEF DeleteCredential, NamesStay, Names
  <2>3. CASE \/ UpsertConfig(d)
           \/ (\E p \in Purpose : CreateCredential(d, p))
    BY NamesStayKeeps, <2>3 DEF UpsertConfig, CreateCredential, NamesStay, Created, Names
  <2>4. QED BY <1>4, <2>1, <2>2, <2>3 DEF Admin
<1>5. ASSUME Queue
      PROVE  OneJobPerRequest'
  BY NamesStayKeeps, <1>5 DEF Queue, Tick, Expire, Stalled, Evict, Recover, NamesStay, Created,
         Names
<1>6. CASE UNCHANGED vars
  BY NamesStayKeeps, <1>6 DEF vars, NamesStay, Created, Names
<1>7. QED BY <1>1, <1>2, <1>3, <1>4, <1>5, <1>6 DEF Next

\* However many operators submit a previewed request, it gets one SET job.
THEOREM RequestHasOneJob == Spec => []OneJobPerRequest
<1>1. Init => OneJobPerRequest
  BY DEF Init, OneJobPerRequest, Created
<1>2. TypeInv /\ WriteRequestMirrorsJob /\ OneJobPerRequest /\ [Next]_vars => OneJobPerRequest'
  BY OneJobStep
<1>3. QED
  BY <1>1, <1>2, TypeInvariant, RequestMirrorsJob, PTL DEF Spec

-----------------------------------------------------------------------------
(* Refinement: the safety half of DeviceMutex.                               *)

\* Holder names the handler that is inside, and nobody when there is none.
HolderIs ==
  \A d \in Devices :
    /\ \A w \in Workers : Holder[d] = w <=> InLock(w) /\ DeviceOf(w) = d
    /\ Holder[d] = None <=> ~\E w \in Workers : InLock(w) /\ DeviceOf(w) = d
    /\ Holder[d] \in Workers \cup {None}

\* Mutual exclusion makes the CHOOSE of Holder determinate.
LEMMA HolderFact == MutualExclusion /\ ~Overrun => HolderIs
<1> SUFFICES ASSUME MutualExclusion, ~Overrun, NEW d \in Devices
             PROVE  /\ \A w \in Workers : Holder[d] = w <=> InLock(w) /\ DeviceOf(w) = d
                    /\ Holder[d] = None <=> ~\E w \in Workers : InLock(w) /\ DeviceOf(w) = d
                    /\ Holder[d] \in Workers \cup {None}
  BY DEF HolderIs
<1>1. CASE \E w \in Workers : InLock(w) /\ DeviceOf(w) = d
  <2>1. Holder[d] \in Workers /\ InLock(Holder[d]) /\ DeviceOf(Holder[d]) = d
    BY <1>1 DEF Holder
  <2>2. QED
    BY <1>1, <2>1 DEF MutualExclusion
<1>2. CASE ~\E w \in Workers : InLock(w) /\ DeviceOf(w) = d
  BY <1>2 DEF Holder
<1>3. QED BY <1>1, <1>2

\* Nobody enters or leaves a lock in this step.
HoldersStay ==
  \A w \in Workers : (InLock(w)' <=> InLock(w)) /\ (InLock(w) => DeviceOf(w)' = DeviceOf(w))

\* One handler enters or leaves, the others stay.
OthersStay(w) ==
  \A v \in Workers \ {w} : (InLock(v)' <=> InLock(v)) /\ (InLock(v) => DeviceOf(v)' = DeviceOf(v))

\* Then the abstract holder does not change ...
LEMMA StayStutters ==
  ASSUME HolderIs, HolderIs', HoldersStay
  PROVE  Holder' = Holder
<1>1. \A d \in Devices : Holder'[d] = Holder[d]
  BY DEF HolderIs, HoldersStay
<1>2. QED
  BY <1>1 DEF Holder

\* ... a handler that leaves is the abstract Leave ...
LEMMA LeaveMaps ==
  ASSUME HolderIs, HolderIs', NEW w \in Workers, InLock(w), ~InLock(w)', OthersStay(w),
         DeviceOf(w) \in Devices
  PROVE  Mutex!Next
<1> DEFINE d == DeviceOf(w)
<1>1. Holder[d] = w /\ w # None
  BY DEF HolderIs
<1>2. Holder'[d] = None
  BY <1>1 DEF HolderIs, OthersStay
<1>3. \A e \in Devices \ {d} : Holder'[e] = Holder[e]
  BY DEF HolderIs, OthersStay
<1>4. Holder' = [Holder EXCEPT ![d] = None]
  BY <1>2, <1>3 DEF Holder
<1>5. Mutex!Leave(d)
  BY <1>1, <1>4 DEF Mutex!Leave
<1>6. QED BY <1>5 DEF Mutex!Next

\* ... and one that enters a free device is the abstract Enter.
LEMMA EnterMaps ==
  ASSUME HolderIs, HolderIs', NEW w \in Workers, ~InLock(w), InLock(w)', OthersStay(w),
         NEW d \in Devices, DeviceOf(w)' = d, \A v \in Workers : InLock(v) => DeviceOf(v) # d
  PROVE  Mutex!Next
<1>1. Holder[d] = None /\ \A e \in Devices : Holder[e] # w
  BY DEF HolderIs
<1>2. Holder'[d] = w
  BY DEF HolderIs
<1>3. \A e \in Devices \ {d} : Holder'[e] = Holder[e]
  BY DEF HolderIs, OthersStay
<1>4. Holder' = [Holder EXCEPT ![d] = w]
  BY <1>2, <1>3 DEF Holder
<1>5. Mutex!Enter(d, w)
  BY <1>1, <1>4 DEF Mutex!Enter
<1>6. QED BY <1>5 DEF Mutex!Next

\* A step enters or leaves the lock of one device, or none.
LEMMA HolderAfter == MutualExclusion' /\ ~Overrun => HolderIs'
<1>1. (MutualExclusion /\ ~Overrun => HolderIs)'
  BY HolderFact, PTL
<1>2. QED BY <1>1

LEMMA MutexStep ==
  ASSUME ~Overrun, TypeInv, LockInv, MutualExclusion, MutualExclusion', [Next]_vars
  PROVE  Mutex!Next \/ Holder' = Holder
<1> USE DEF TypeInv, TypeOK, RowsOK, HandlersOK, Goto, Raise, Reject, AfterAction, InLock, TypeOf,
            DeviceOf, LockedPc, rows, handlers
<1>0. RowsStay /\ HolderIs /\ HolderIs'
  <2>1. RowsStay
    BY RowsStep
  <2>2. HolderIs
    BY HolderFact
  <2>3. HolderIs'
    BY HolderAfter
  <2>4. QED BY <2>1, <2>2, <2>3
<1>1. ASSUME NEW w \in Workers, Handler(w)
      PROVE  Mutex!Next \/ Holder' = Holder
  <2>1. CASE \E e \in Entries : Take(w, e)
    BY <1>0, StayStutters, <2>1 DEF Take, HoldersStay, RowsStay, HandlersRefer, HasJob, Pc
  <2>2. CASE Scheduled(w)
    BY <1>0, StayStutters, <2>2 DEF Scheduled, HoldersStay, RowsStay, HandlersRefer, HasJob, Pc
  <2>3. CASE Load(w)
    BY <1>0, StayStutters, <2>3 DEF Load, HoldersStay, RowsStay, HandlersRefer, HasJob, Pc
  <2>4. CASE Configure(w)
    BY <1>0, StayStutters, <2>4 DEF Configure, HoldersStay, RowsStay, HandlersRefer, HasJob, Pc
  <2>5. CASE AcquireLock(w)
    <3>1. CASE lock[DeviceOf(w)] = Free /\ TypeOf(cur[w]) # "CREDENTIAL_TEST" /\ pc'[w] = "begin"
      <4>1. ~InLock(w) /\ InLock(w)' /\ DeviceOf(w)' = DeviceOf(w)
        BY <1>0, <2>5, <3>1 DEF AcquireLock, HandlersRefer, HasJob, Pc, Created
      <4>2. DeviceOf(w) \in Devices
        BY <2>5 DEF AcquireLock, HandlersRefer, HasJob, Pc, Created, Job
      <4>3. OthersStay(w)
        BY <1>0, <2>5 DEF AcquireLock, OthersStay, RowsStay, HandlersRefer, HasJob, Pc
      <4>4. \A v \in Workers : InLock(v) => DeviceOf(v) # DeviceOf(w)
        BY <3>1 DEF LockInv
      <4>5. QED
        BY <1>0, <4>1, <4>2, <4>3, <4>4, EnterMaps
    <3>2. CASE ~(lock[DeviceOf(w)] = Free /\ TypeOf(cur[w]) # "CREDENTIAL_TEST" /\ pc'[w] = "begin")
      <4>1. HoldersStay
        BY <1>0, <2>5, <3>2 DEF AcquireLock, HoldersStay, RowsStay, HandlersRefer, HasJob, Pc
      <4>2. QED BY <1>0, <4>1, StayStutters
    <3>3. QED BY <3>1, <3>2
  <2>6. CASE ScheduledBusy(w)
    BY <1>0, StayStutters, <2>6 DEF ScheduledBusy, HoldersStay, RowsStay, HandlersRefer,
           HasJob, Pc
  <2>7. CASE Begin(w)
    BY <1>0, StayStutters, <2>7 DEF Begin, HoldersStay, RowsStay, HandlersRefer, HasJob, Pc
  <2>8. CASE Probe(w)
    BY <1>0, StayStutters, <2>8 DEF Probe, HoldersStay, RowsStay, HandlersRefer, HasJob, Pc
  <2>9. CASE CreateSnapshot(w)
    BY <1>0, StayStutters, <2>9 DEF CreateSnapshot, HoldersStay, RowsStay, HandlersRefer,
           HasJob, Pc
  <2>10. CASE DeleteDrifts(w)
    BY <1>0, StayStutters, <2>10 DEF DeleteDrifts, HoldersStay, RowsStay, HandlersRefer,
           HasJob, Pc
  <2>11. CASE CommitDrifts(w)
    BY <1>0, StayStutters, <2>11 DEF CommitDrifts, HoldersStay, RowsStay, HandlersRefer,
           HasJob, Pc
  <2>12. CASE Preflight(w)
    BY <1>0, StayStutters, <2>12 DEF Preflight, HoldersStay, RowsStay, HandlersRefer, HasJob, Pc
  <2>13. CASE Apply(w)
    BY <1>0, StayStutters, <2>13 DEF Apply, HoldersStay, RowsStay, HandlersRefer, HasJob, Pc
  <2>14. CASE Verify(w)
    BY <1>0, StayStutters, <2>14 DEF Verify, HoldersStay, RowsStay, HandlersRefer, HasJob, Pc
  <2>15. CASE Finish(w)
    BY <1>0, StayStutters, <2>15 DEF Finish, HoldersStay, RowsStay, HandlersRefer, HasJob, Pc
  <2>16. CASE Fail(w)
    BY <1>0, StayStutters, <2>16 DEF Fail, HoldersStay, RowsStay, HandlersRefer, HasJob, Pc
  <2>17. CASE ReleaseLock(w)
    <3>1. CASE InLock(w)
      <4>1. ~InLock(w)'
        BY <2>17 DEF ReleaseLock
      <4>2. DeviceOf(w) \in Devices
        BY <2>17 DEF ReleaseLock, HandlersRefer, HasJob, Pc, Created, Job
      <4>3. OthersStay(w)
        BY <1>0, <2>17 DEF ReleaseLock, OthersStay, RowsStay, HandlersRefer, HasJob, Pc
      <4>4. QED BY <1>0, <3>1, <4>1, <4>2, <4>3, LeaveMaps
    <3>2. CASE ~InLock(w)
      <4>1. HoldersStay
        BY <1>0, <2>17, <3>2 DEF ReleaseLock, HoldersStay, RowsStay, HandlersRefer, HasJob, Pc
      <4>2. QED BY <1>0, <4>1, StayStutters
    <3>3. QED BY <3>1, <3>2
  <2>18. CASE Settle(w)
    BY <1>0, StayStutters, <2>18 DEF Settle, HoldersStay, RowsStay, HandlersRefer, HasJob, Pc
  <2>19. QED BY <1>1, <2>1, <2>2, <2>3, <2>4, <2>5, <2>6, <2>7, <2>8, <2>9, <2>10, <2>11,
         <2>12, <2>13, <2>14, <2>15, <2>16, <2>17, <2>18 DEF Handler
<1>2. ASSUME NEW w \in Workers, Start(w) \/ Crash(w) \/ LoseLease(w)
      PROVE  Mutex!Next \/ Holder' = Holder
  <2>1. CASE Start(w)
    BY <1>0, StayStutters, <2>1 DEF Start, HoldersStay, RowsStay, HandlersRefer, HasJob, Pc
  <2>2. CASE Crash(w)
    <3>1. CASE InLock(w)
      <4>1. ~InLock(w)'
        BY <2>2 DEF Crash
      <4>2. DeviceOf(w) \in Devices
        BY <3>1 DEF HandlersRefer, HasJob, Pc, Created, Job
      <4>3. OthersStay(w)
        BY <1>0, <2>2 DEF Crash, OthersStay, RowsStay, HandlersRefer, HasJob, Pc
      <4>4. QED BY <1>0, <3>1, <4>1, <4>2, <4>3, LeaveMaps
    <3>2. CASE ~InLock(w)
      <4>1. HoldersStay
        BY <1>0, <2>2, <3>2 DEF Crash, HoldersStay, RowsStay, HandlersRefer, HasJob, Pc
      <4>2. QED BY <1>0, <4>1, StayStutters
    <3>3. QED BY <3>1, <3>2
  <2>3. CASE LoseLease(w)
    BY <1>0, StayStutters, <2>3 DEF LoseLease, HoldersStay, RowsStay, HandlersRefer, HasJob, Pc
  <2>4. QED BY <1>2, <2>1, <2>2, <2>3
<1>3. ASSUME NEW c \in Clients, Client(c)
      PROVE  Mutex!Next \/ Holder' = Holder
  BY <1>0, StayStutters, <1>3 DEF Client, PollCheck, TestCreate, ExecuteCheck, PollCreate,
         ExecuteClaim, Enqueue, HoldersStay, RowsStay, HandlersRefer, HasJob, Pc
<1>4. ASSUME NEW d \in Devices, Admin(d)
      PROVE  Mutex!Next \/ Holder' = Holder
  BY <1>0, StayStutters, <1>4 DEF Admin, UpsertConfig, PreviewWrite, CreateCredential,
         DeleteCredential, HoldersStay, RowsStay, HandlersRefer, HasJob, Pc
<1>5. ASSUME Queue
      PROVE  Mutex!Next \/ Holder' = Holder
  BY <1>0, StayStutters, <1>5 DEF Queue, Tick, Expire, Stalled, Evict, Recover, HoldersStay,
         RowsStay, HandlersRefer, HasJob, Pc
<1>6. CASE UNCHANGED vars
  BY <1>0, StayStutters, <1>6 DEF vars, HoldersStay, RowsStay, HandlersRefer, HasJob, Pc
<1>7. QED BY <1>1, <1>2, <1>3, <1>4, <1>5, <1>6 DEF Next

\* As long as no key outlives its TTL, polls, writes, redeliveries, crashes and
\* recovery passes implement the mutual exclusion DeviceMutex promises.
THEOREM ImplementsSafeMutex == ASSUME ~Overrun PROVE Spec => Mutex!Safe
<1>1. Init => Mutex!Init
  BY DEF Init, Mutex!Init, Holder, InLock, LockedPc
<1>2. TypeInv /\ LockInv /\ MutualExclusion /\ MutualExclusion' /\ [Next]_vars
        => [Mutex!Next]_Holder
  BY MutexStep
<1>3. Spec => []LockInv
  BY LockInvariant
<1>4. QED
  BY <1>1, <1>2, <1>3, TypeInvariant, LockExcludes, PTL DEF Spec, Mutex!Safe

-----------------------------------------------------------------------------
\* A handler has at most one delivery, and the row it works on is that of the
\* delivery, or the row its scheduled poll has made.
HoldsRow ==
  \A w \in Workers :
    /\ cur[w] # None => cur[w] \in Jobs /\ Created(cur[w])
    /\ pc[w] \in {"down", "idle"} => at[w] = None
    /\ at[w] = None => cur[w] = None
    /\ at[w] \in Jobs => cur[w] = at[w]
    /\ at[w] \in Devices /\ cur[w] # None => TypeOf(cur[w]) = "POLL"
OwnsDelivery ==
  \A w \in Workers, e \in Entries : entry[e].owner = w => at[w] = e /\ entry[e].state = "active"
\* What a handler has got to says what its job is, and that it has begun.
Fits(w) ==
  /\ pc[w] = "probe" => TypeOf(cur[w]) # "SET"
  /\ pc[w] \in {"snapshot", "drift", "driftCommit"} => TypeOf(cur[w]) = "POLL"
  /\ pc[w] \in {"preflight", "apply", "verify"} => TypeOf(cur[w]) = "SET"
  /\ pc[w] = "busy" => at[w] \in Devices
  /\ pc[w] \in LockedPc \ {"begin"} => job[cur[w]].status # "PENDING"
KindFits == \A w \in Workers : Fits(w)
WorkInv == HoldsRow /\ OwnsDelivery /\ KindFits

LEMMA HoldsRowStep ==
  ASSUME TypeInv, HoldsRow, [Next]_vars
  PROVE  HoldsRow'
<1> USE DEF TypeInv, TypeOK, HandlersOK, Entries, HasJob, Pc, LockedPc, TypeOf, Created,
            Goto, Raise, Reject, AfterAction, rows, handlers, HandlersRefer, HoldsRow
<1>0. RowsOK' /\ RowsStay
  BY RowsStep
<1>1. ASSUME NEW w \in Workers, Handler(w)
      PROVE  HoldsRow'
  <2>1. CASE \E e \in Entries : Take(w, e)
    <3>1. PICK e \in Entries : Take(w, e)
      BY <2>1
    <3>2. e \notin Devices => e \in Jobs /\ Created(e)
      BY <3>1 DEF Take, QueueRefers, Idle
    <3>3. QED
      BY <1>0, <3>1, <3>2 DEF Take, RowsStay
  <2>2. CASE Scheduled(w)
    <3>1. at[w] \in Devices
      BY <2>2 DEF Scheduled
    <3>2. ASSUME NEW j \in Jobs, ~Created(j), job' = [job EXCEPT ![j] = NewJob("POLL", at[w], "READ")]
          PROVE  Created(j)' /\ job'[j].type = "POLL"
      BY <3>1, <3>2, NewRow DEF JobType, Purpose, NewJob
    <3>3. QED
      BY <1>0, <2>2, <3>1, <3>2 DEF Scheduled, RowsStay
  <2>3. CASE Load(w) \/ Configure(w) \/ AcquireLock(w) \/ ScheduledBusy(w) \/ Begin(w)
    BY <1>0, <2>3 DEF Load, Configure, AcquireLock, ScheduledBusy, Begin, RowsStay
  <2>4. CASE Probe(w) \/ CreateSnapshot(w) \/ DeleteDrifts(w) \/ CommitDrifts(w)
    BY <1>0, <2>4 DEF Probe, CreateSnapshot, DeleteDrifts, CommitDrifts, RowsStay
  <2>5. CASE Preflight(w) \/ Apply(w) \/ Verify(w) \/ Finish(w) \/ Fail(w)
    <3>1. UNCHANGED <<at, cur>> /\ \A v \in Workers \ {w} : pc'[v] = pc[v]
      BY <2>5 DEF Preflight, Apply, Verify, Finish, Fail
    <3>2. pc'[w] \notin {"down", "idle"}
      BY <2>5 DEF Preflight, Apply, Verify, Finish, Fail
    <3>3. QED
      BY <1>0, <3>1, <3>2 DEF RowsStay
  <2>6. CASE ReleaseLock(w) \/ Settle(w)
    BY <1>0, <2>6 DEF ReleaseLock, Settle, RowsStay
  <2>7. QED BY <1>1, <2>1, <2>2, <2>3, <2>4, <2>5, <2>6 DEF Handler
<1>2. ASSUME NEW w \in Workers, Start(w) \/ Crash(w) \/ LoseLease(w)
      PROVE  HoldsRow'
  BY <1>0, <1>2 DEF Start, Crash, LoseLease, RowsStay
<1>3. CASE UNCHANGED handlers
  BY <1>0, <1>3 DEF RowsStay
<1>4. ASSUME NEW c \in Clients, Client(c)
      PROVE  UNCHANGED handlers
  BY <1>4 DEF Client, PollCheck, TestCreate, ExecuteCheck, PollCreate, ExecuteClaim, Enqueue
<1>5. ASSUME NEW d \in Devices, Admin(d)
      PROVE  UNCHANGED handlers
  BY <1>5 DEF Admin, UpsertConfig, PreviewWrite, CreateCredential, DeleteCredential
<1>6. ASSUME Queue
      PROVE  UNCHANGED handlers
  BY <1>6 DEF Queue, Tick, Expire, Stalled, Evict, Recover
<1>7. QED BY <1>1, <1>2, <1>3, <1>4, <1>5, <1>6 DEF Next, vars

LEMMA OwnsDeliveryStep ==
  ASSUME TypeInv, HoldsRow, OwnsDelivery, [Next]_vars
  PROVE  OwnsDelivery'
<1> USE DEF TypeInv, TypeOK, HandlersOK, QueueOK, Entry, Entries, Idle, Added, HasJob, Pc,
            LockedPc, Goto, Raise, Reject, handlers, HandlersRefer, HoldsRow, OwnsDelivery
<1>1. ASSUME NEW w \in Workers, Handler(w)
      PROVE  OwnsDelivery'
  <2>1. CASE \E e \in Entries : Take(w, e)
    BY <2>1 DEF Take
  <2>2. CASE Settle(w)
    BY <2>2 DEF Settle
  <2>3. CASE UNCHANGED <<at, entry>>
    BY <2>3
  <2>4. ASSUME \/ Scheduled(w) \/ Load(w) \/ Configure(w) \/ AcquireLock(w) \/ ScheduledBusy(w)
               \/ Begin(w) \/ Probe(w) \/ CreateSnapshot(w) \/ DeleteDrifts(w) \/ CommitDrifts(w)
               \/ Preflight(w) \/ Apply(w) \/ Verify(w) \/ Finish(w) \/ Fail(w) \/ ReleaseLock(w)
        PROVE  UNCHANGED <<at, entry>>
    BY <2>4 DEF Scheduled, Load, Configure, AcquireLock, ScheduledBusy, Begin, Probe,
           CreateSnapshot, DeleteDrifts, CommitDrifts, Preflight, Apply, Verify, Finish, Fail,
           ReleaseLock
  <2>5. QED BY <1>1, <2>1, <2>2, <2>3, <2>4 DEF Handler
<1>2. ASSUME NEW w \in Workers, Start(w) \/ Crash(w) \/ LoseLease(w)
      PROVE  OwnsDelivery'
  <2>1. CASE Start(w)
    BY <2>1 DEF Start
  <2>2. CASE Crash(w) \/ LoseLease(w)
    <3>1. ASSUME NEW v \in Workers, NEW e \in Entries, Disowned(w)[e].owner = v
          PROVE  v # w /\ entry[e].owner = v /\ Disowned(w)[e].state = entry[e].state
      BY <3>1 DEF Disowned
    <3>2. \A v \in Workers \ {w} : at'[v] = at[v]
      BY <2>2 DEF Crash, LoseLease
    <3>3. entry' = Disowned(w)
      BY <2>2 DEF Crash, LoseLease
    <3>4. QED BY <3>1, <3>2, <3>3
  <2>3. QED BY <1>2, <2>1, <2>2
<1>3. ASSUME NEW c \in Clients, Client(c)
      PROVE  OwnsDelivery'
  <2>1. CASE Enqueue(c)
    BY <2>1 DEF Enqueue
  <2>2. ASSUME ~Enqueue(c)
        PROVE  UNCHANGED <<at, entry>>
    BY <1>3, <2>2 DEF Client, PollCheck, TestCreate, ExecuteCheck, PollCreate, ExecuteClaim
  <2>3. QED BY <2>1, <2>2
<1>4. ASSUME NEW d \in Devices, Admin(d)
      PROVE  UNCHANGED <<at, entry>>
  BY <1>4 DEF Admin, UpsertConfig, PreviewWrite, CreateCredential, DeleteCredential
<1>5. ASSUME Queue
      PROVE  OwnsDelivery'
  BY <1>5 DEF Queue, Tick, Expire, Stalled, Evict, Recover
<1>6. CASE UNCHANGED <<at, entry>>
  BY <1>6
<1>7. QED BY <1>1, <1>2, <1>3, <1>4, <1>5, <1>6 DEF Next, vars

\* Recording a status that is not PENDING makes no job PENDING.
LEMMA SetStatusBegun ==
  ASSUME RowsOK, NEW j \in Jobs, Created(j), NEW s \in JobStatus \ {"PENDING"},
         NEW t \in WriteStatus, SetStatus(j, s, t)
  PROVE  /\ job'[j].status = s
         /\ \A i \in Jobs \ {j} : job'[i] = job[i]
<1>1. job[j] \in Job
  BY DEF RowsOK, Created
<1>2. job' = [job EXCEPT ![j] = [job[j] EXCEPT !.status = s]]
  BY DEF SetStatus, RowsOK
<1>3. [job[j] EXCEPT !.status = s].status = s
  BY <1>1 DEF Job
<1>4. QED
  BY <1>2, <1>3 DEF RowsOK

\* A job that has begun is never PENDING again.
Begun == \A j \in Jobs : Created(j) /\ job[j].status # "PENDING" => job'[j].status # "PENDING"

LEMMA BegunStep ==
  ASSUME TypeInv, [Next]_vars
  PROVE  Begun
<1> USE DEF TypeInv, TypeOK, Created, HasJob, Pc, LockedPc, rows, HandlersRefer, Begun
<1>1. ASSUME NEW w \in Workers, Handler(w)
      PROVE  Begun
  <2>1. CASE Scheduled(w)
    <3>1. at[w] \in Devices
      BY <2>1 DEF Scheduled
    <3>2. ASSUME NEW j \in Jobs, ~Created(j), job' = [job EXCEPT ![j] = NewJob("POLL", at[w], "READ")]
          PROVE  Begun
      BY <3>1, <3>2, NewRow DEF JobType, Purpose
    <3>3. QED
      BY <2>1, <3>2 DEF Scheduled
  <2>2. CASE Configure(w) \/ ScheduledBusy(w) \/ Begin(w) \/ Finish(w) \/ Fail(w)
    <3>1. cur[w] \in Jobs /\ Created(cur[w])
      BY <2>2 DEF Configure, ScheduledBusy, Begin, Finish, Fail
    <3>2. \/ UNCHANGED job
          \/ \E s \in JobStatus \ {"PENDING"}, t \in WriteStatus : SetStatus(cur[w], s, t)
      BY <2>2 DEF Configure, ScheduledBusy, Begin, Finish, Fail, JobStatus, WriteStatus
    <3>3. QED
      BY <3>1, <3>2, SetStatusBegun
  <2>3. CASE UNCHANGED job
    BY <2>3
  <2>4. ASSUME \/ (\E e \in Entries : Take(w, e)) \/ Load(w) \/ AcquireLock(w) \/ Probe(w)
               \/ CreateSnapshot(w) \/ DeleteDrifts(w) \/ CommitDrifts(w) \/ Preflight(w)
               \/ Apply(w) \/ Verify(w) \/ ReleaseLock(w) \/ Settle(w)
        PROVE  UNCHANGED job
    BY <2>4 DEF Take, Load, AcquireLock, Probe, CreateSnapshot, DeleteDrifts, CommitDrifts,
           Preflight, Apply, Verify, ReleaseLock, Settle
  <2>5. QED BY <1>1, <2>1, <2>2, <2>3, <2>4 DEF Handler
<1>2. ASSUME NEW w \in Workers, Start(w) \/ Crash(w) \/ LoseLease(w)
      PROVE  UNCHANGED job
  BY <1>2 DEF Start, Crash, LoseLease
<1>3. ASSUME NEW c \in Clients, Client(c)
      PROVE  Begun
  <2>1. CASE \E d \in Devices, p \in Purpose : TestCreate(c, d, p)
    BY <2>1, NewRow DEF TestCreate, JobType
  <2>2. CASE PollCreate(c)
    <3>1. callArg[c] \in Devices
      BY <2>2 DEF PollCreate, CallsRefer
    <3>2. QED
      BY <2>2, <3>1, NewRow DEF PollCreate, JobType, Purpose
  <2>3. CASE ExecuteClaim(c)
    <3>1. callArg[c] \in Requests /\ request[callArg[c]] \in Request
      BY <2>3 DEF ExecuteClaim, CallsRefer, RowsOK
    <3>2. QED
      BY <2>3, <3>1, NewRow DEF ExecuteClaim, JobType, Purpose, Request
  <2>4. ASSUME \/ (\E d \in Devices : PollCheck(c, d)) \/ (\E r \in Requests : ExecuteCheck(c, r))
               \/ Enqueue(c)
        PROVE  UNCHANGED job
    BY <2>4 DEF PollCheck, ExecuteCheck, Enqueue
  <2>5. QED BY <1>3, <2>1, <2>2, <2>3, <2>4 DEF Client
<1>4. ASSUME NEW d \in Devices, Admin(d)
      PROVE  Begun
  <2>1. CASE \E p \in Purpose : DeleteCredential(d, p)
    BY <2>1 DEF DeleteCredential, RowsOK, Job
  <2>2. ASSUME UpsertConfig(d) \/ PreviewWrite(d) \/ \E p \in Purpose : CreateCredential(d, p)
        PROVE  UNCHANGED job
    BY <2>2 DEF UpsertConfig, PreviewWrite, CreateCredential
  <2>3. QED BY <1>4, <2>1, <2>2 DEF Admin
<1>5. ASSUME Queue
      PROVE  UNCHANGED job
  BY <1>5 DEF Queue, Tick, Expire, Stalled, Evict, Recover
<1>6. CASE UNCHANGED job
  BY <1>6
<1>7. QED BY <1>1, <1>2, <1>3, <1>4, <1>5, <1>6 DEF Next, vars

\* One handler's step leaves the others where they are.
Rests(v) ==
  pc'[v] = pc[v] /\ at'[v] = at[v] /\ cur'[v] = cur[v] /\ code'[v] = code[v] /\ seen'[v] = seen[v]

LEMMA OthersRest ==
  ASSUME HandlersOK, NEW w \in Workers, Handler(w)
  PROVE  \A v \in Workers \ {w} : Rests(v)
<1> USE DEF HandlersOK, Goto, Raise, Reject, handlers, Rests
<1>1. CASE (\E e \in Entries : Take(w, e)) \/ Scheduled(w) \/ Load(w) \/ Configure(w)
  BY <1>1 DEF Take, Scheduled, Load, Configure
<1>2. CASE AcquireLock(w) \/ ScheduledBusy(w) \/ Begin(w) \/ Probe(w)
  BY <1>2 DEF AcquireLock, ScheduledBusy, Begin, Probe
<1>3. CASE CreateSnapshot(w) \/ DeleteDrifts(w) \/ CommitDrifts(w)
  BY <1>3 DEF CreateSnapshot, DeleteDrifts, CommitDrifts
<1>4. CASE Preflight(w) \/ Verify(w)
  BY <1>4 DEF Preflight, Verify
<1>5. CASE Apply(w)
  BY <1>5 DEF Apply
<1>6. CASE Finish(w) \/ Fail(w)
  BY <1>6 DEF Finish, Fail
<1>7. CASE ReleaseLock(w) \/ Settle(w)
  BY <1>7 DEF ReleaseLock, Settle
<1>8. QED BY <1>1, <1>2, <1>3, <1>4, <1>5, <1>6, <1>7 DEF Handler

\* The way of a handler through its delivery.
Ways == {<<"idle", "scheduled">>, <<"idle", "load">>, <<"scheduled", "load">>,
         <<"scheduled", "settle">>, <<"load", "settle">>, <<"load", "begin">>, <<"load", "config">>,
         <<"config", "lock">>, <<"config", "settle">>, <<"lock", "begin">>, <<"lock", "busy">>,
         <<"lock", "settle">>, <<"busy", "settle">>, <<"begin", "preflight">>, <<"begin", "probe">>,
         <<"probe", "snapshot">>, <<"probe", "finish">>, <<"probe", "fail">>,
         <<"snapshot", "drift">>, <<"snapshot", "fail">>, <<"drift", "driftCommit">>,
         <<"driftCommit", "finish">>, <<"preflight", "apply">>, <<"preflight", "fail">>,
         <<"apply", "verify">>, <<"apply", "fail">>, <<"verify", "finish">>, <<"verify", "fail">>,
         <<"finish", "fail">>, <<"finish", "settle">>, <<"finish", "release">>,
         <<"fail", "settle">>, <<"fail", "release">>, <<"release", "settle">>, <<"settle", "idle">>}

LEMMA WaysOfHandlers ==
  ASSUME HandlersOK, NEW w \in Workers, Handler(w)
  PROVE  /\ <<pc[w], pc'[w]>> \in Ways
         /\ pc[w] \notin {"idle", "scheduled", "settle"} => at'[w] = at[w] /\ cur'[w] = cur[w]
<1> USE DEF HandlersOK, Goto, Raise, Reject, AfterAction, Ways
<1>1. CASE \E e \in Entries : Take(w, e)
  BY <1>1 DEF Take
<1>2. CASE Scheduled(w)
  BY <1>2 DEF Scheduled
<1>3. CASE Load(w)
  BY <1>3 DEF Load
<1>4. CASE Configure(w)
  BY <1>4 DEF Configure
<1>5. CASE AcquireLock(w)
  BY <1>5 DEF AcquireLock
<1>6. CASE ScheduledBusy(w)
  BY <1>6 DEF ScheduledBusy
<1>7. CASE Begin(w)
  BY <1>7 DEF Begin
<1>8. CASE Probe(w)
  BY <1>8 DEF Probe
<1>9. CASE CreateSnapshot(w)
  BY <1>9 DEF CreateSnapshot
<1>10. CASE DeleteDrifts(w)
  BY <1>10 DEF DeleteDrifts
<1>11. CASE CommitDrifts(w)
  BY <1>11 DEF CommitDrifts
<1>12. CASE Preflight(w)
  BY <1>12 DEF Preflight
<1>13. CASE Apply(w)
  BY <1>13 DEF Apply
<1>14. CASE Verify(w)
  BY <1>14 DEF Verify
<1>15. CASE Finish(w)
  BY <1>15 DEF Finish
<1>16. CASE Fail(w)
  BY <1>16 DEF Fail
<1>17. CASE ReleaseLock(w)
  BY <1>17 DEF ReleaseLock
<1>18. CASE Settle(w)
  BY <1>18 DEF Settle
<1>19. QED BY <1>1, <1>2, <1>3, <1>4, <1>5, <1>6, <1>7, <1>8, <1>9, <1>10,
         <1>11, <1>12, <1>13, <1>14, <1>15, <1>16, <1>17, <1>18 DEF Handler

LEMMA KindFitsStep ==
  ASSUME TypeInv, WorkInv, [Next]_vars
  PROVE  KindFits'
<1> USE DEF TypeInv, TypeOK, HandlersOK, Entries, HasJob, Pc, LockedPc, TypeOf, Created,
            Goto, Raise, Reject, AfterAction, handlers, HandlersRefer, HoldsRow, KindFits, Fits, WorkInv
<1>0. RowsStay /\ Begun
  BY RowsStep, BegunStep
<1>1. ASSUME NEW w \in Workers, Handler(w)
      PROVE  KindFits'
  <2>0. \A v \in Workers \ {w} : pc'[v] = pc[v] /\ at'[v] = at[v] /\ cur'[v] = cur[v]
    BY <1>1, OthersRest DEF Rests
  <2>1. SUFFICES Fits(w)'
    BY <1>0, <2>0 DEF RowsStay, Begun
  <2>2. CASE AcquireLock(w)
    BY <2>2 DEF AcquireLock
  <2>3. CASE Begin(w)
    <3>1. cur[w] \in Jobs /\ Created(cur[w])
      BY <2>3 DEF Begin
    <3>2. job'[cur[w]].status = "RUNNING"
      BY <2>3, <3>1, SetStatusBegun DEF Begin, JobStatus, WriteStatus
    <3>3. QED
      BY <1>0, <2>3, <3>1, <3>2 DEF Begin, RowsStay
  <2>4. CASE Probe(w) \/ CreateSnapshot(w) \/ DeleteDrifts(w) \/ CommitDrifts(w)
    BY <1>0, <2>4 DEF Probe, CreateSnapshot, DeleteDrifts, CommitDrifts, RowsStay, Begun
  <2>5. CASE Preflight(w)
    BY <1>0, <2>5 DEF Preflight, RowsStay, Begun
  <2>6. CASE Apply(w)
    <3>1. pc[w] = "apply" /\ pc'[w] \in {"verify", "fail"} /\ cur'[w] = cur[w]
      BY <2>6 DEF Apply
    <3>2. QED
      BY <1>0, <3>1 DEF RowsStay, Begun
  <2>7. CASE Verify(w)
    BY <1>0, <2>7 DEF Verify, RowsStay, Begun
  <2>8. CASE Finish(w) \/ Fail(w)
    BY <1>0, <2>8 DEF Finish, Fail, RowsStay, Begun
  <2>9. CASE pc[w] \in {"idle", "scheduled", "settle", "config", "busy", "release"}
    <3>1. pc'[w] \notin LockedPc \cup {"busy"}
      BY <1>1, <2>9, WaysOfHandlers DEF Ways
    <3>2. QED
      BY <3>1
  <2>10. ASSUME \/ (\E e \in Entries : Take(w, e)) \/ Scheduled(w) \/ Settle(w) \/ Configure(w)
                \/ ScheduledBusy(w) \/ ReleaseLock(w)
         PROVE  pc[w] \in {"idle", "scheduled", "settle", "config", "busy", "release"}
    BY <2>10 DEF Take, Scheduled, Settle, Configure, ScheduledBusy, ReleaseLock
  <2>11. CASE Load(w)
    BY <2>11 DEF Load
  <2>12. QED
    BY <1>1, <2>2, <2>3, <2>4, <2>5, <2>6, <2>7, <2>8, <2>9, <2>10, <2>11 DEF Handler
<1>2. ASSUME NEW w \in Workers, Start(w) \/ Crash(w) \/ LoseLease(w)
      PROVE  KindFits'
  BY <1>0, <1>2 DEF Start, Crash, LoseLease, RowsStay, Begun
<1>3. CASE UNCHANGED handlers
  BY <1>0, <1>3 DEF RowsStay, Begun
<1>4. ASSUME NEW c \in Clients, Client(c)
      PROVE  UNCHANGED handlers
  BY <1>4 DEF Client, PollCheck, TestCreate, ExecuteCheck, PollCreate, ExecuteClaim, Enqueue
<1>5. ASSUME NEW d \in Devices, Admin(d)
      PROVE  UNCHANGED handlers
  BY <1>5 DEF Admin, UpsertConfig, PreviewWrite, CreateCredential, DeleteCredential
<1>6. ASSUME Queue
      PROVE  UNCHANGED handlers
  BY <1>6 DEF Queue, Tick, Expire, Stalled, Evict, Recover
<1>7. QED BY <1>1, <1>2, <1>3, <1>4, <1>5, <1>6 DEF Next, vars

\* In every reachable state handlers, deliveries and rows fit together.
LEMMA WorkInvariant == Spec => []WorkInv
<1>1. Init => WorkInv
  BY DEF Init, WorkInv, HoldsRow, OwnsDelivery, KindFits, Fits, Idle, Entries, LockedPc
<1>2. TypeInv /\ WorkInv /\ [Next]_vars => WorkInv'
  BY HoldsRowStep, OwnsDeliveryStep, KindFitsStep DEF WorkInv
<1>3. QED
  BY <1>1, <1>2, TypeInvariant, PTL DEF Spec

-----------------------------------------------------------------------------
\* Without overruns, what replaceDrifts deletes is what is there until it commits.
DriftInv ==
  ~Overrun =>
    /\ \A w \in Workers : pc[w] = "driftCommit" => seen[w] = drift[DeviceOf(w)]
    /\ \A d \in Devices : \A i, j \in drift[d] : i = j

\* Only replaceDrifts writes drifts.
LEMMA DriftWriters ==
  ASSUME NEW w \in Workers, Handler(w), ~CommitDrifts(w), ~DeleteDrifts(w)
  PROVE  UNCHANGED drift /\ pc[w] # "drift"
<1> USE DEF rows
<1>1. CASE (\E e \in Entries : Take(w, e)) \/ Scheduled(w) \/ Load(w) \/ Configure(w)
  BY <1>1 DEF Take, Scheduled, Load, Configure
<1>2. CASE AcquireLock(w) \/ ScheduledBusy(w) \/ Begin(w) \/ Probe(w) \/ CreateSnapshot(w)
  BY <1>2 DEF AcquireLock, ScheduledBusy, Begin, Probe, CreateSnapshot
<1>3. CASE Preflight(w) \/ Apply(w) \/ Verify(w)
  BY <1>3 DEF Preflight, Apply, Verify
<1>4. CASE Finish(w) \/ Fail(w) \/ ReleaseLock(w) \/ Settle(w)
  BY <1>4 DEF Finish, Fail, ReleaseLock, Settle
<1>5. QED BY <1>1, <1>2, <1>3, <1>4 DEF Handler

LEMMA DriftStep ==
  ASSUME TypeInv, WorkInv, MutualExclusion, DriftInv, [Next]_vars
  PROVE  DriftInv'
<1> USE DEF TypeInv, TypeOK, HandlersOK, HasJob, Pc, LockedPc, DeviceOf,
            Goto, Raise, Reject, AfterAction, handlers, rows, HandlersRefer, HoldsRow, KindFits,
            Fits, WorkInv, DriftInv
<1>0. RowsStay
  BY RowsStep
<1>1. ASSUME NEW w \in Workers, Handler(w)
      PROVE  DriftInv'
  <2>1. CASE CommitDrifts(w)
    <3> DEFINE d == DeviceOf(w)
    <3>1. cur[w] \in Jobs /\ Created(cur[w]) /\ d \in Devices
      BY <2>1 DEF CommitDrifts, RowsOK, Created, Job
    <3>2. PICK new \in {{}, {cur[w]}} : drift' = [drift EXCEPT ![d] = (drift[d] \ seen[w]) \cup new]
      BY <2>1 DEF CommitDrifts
    <3>3. ASSUME ~Overrun, NEW v \in Workers, pc'[v] = "driftCommit"
          PROVE  /\ v # w /\ pc[v] = "driftCommit" /\ seen'[v] = seen[v]
                 /\ DeviceOf(v)' = DeviceOf(v) /\ DeviceOf(v) # d
      <4>1. v # w /\ pc[v] = "driftCommit" /\ UNCHANGED <<job, cur>> /\ seen'[v] = seen[v]
        BY <2>1, <3>3 DEF CommitDrifts
      <4>2. InLock(v) /\ InLock(w)
        BY <2>1, <4>1 DEF CommitDrifts, InLock
      <4>3. QED
        BY <3>3, <4>1, <4>2 DEF MutualExclusion
    <3>4. ASSUME ~Overrun
          PROVE  drift'[d] = new /\ \A e \in Devices \ {d} : drift'[e] = drift[e]
      BY <2>1, <3>1, <3>2, <3>4 DEF CommitDrifts, RowsOK
    <3>5. ASSUME ~Overrun, NEW v \in Workers, pc'[v] = "driftCommit"
          PROVE  seen'[v] = drift'[DeviceOf(v)']
      <4>1. DeviceOf(v) \in Devices
        BY <3>3, <3>5 DEF RowsOK, Created, Job
      <4>2. QED
        BY <3>3, <3>4, <3>5, <4>1
    <3>6. QED
      BY <3>1, <3>4, <3>5
  <2>2. CASE DeleteDrifts(w)
    BY <2>2 DEF DeleteDrifts
  <2>3. CASE UNCHANGED drift /\ pc'[w] # "driftCommit"
    BY <1>0, <1>1, <2>3, OthersRest DEF RowsStay, Rests
  <2>4. ASSUME ~CommitDrifts(w), ~DeleteDrifts(w)
        PROVE  UNCHANGED drift /\ pc[w] # "drift"
    BY <1>1, <2>4, DriftWriters
  <2>5. pc[w] # "drift" => pc'[w] # "driftCommit"
    BY <1>1, WaysOfHandlers DEF Ways
  <2>6. QED BY <2>1, <2>2, <2>3, <2>4, <2>5
<1>2. ASSUME NEW w \in Workers, Start(w) \/ Crash(w) \/ LoseLease(w)
      PROVE  DriftInv'
  BY <1>0, <1>2 DEF Start, Crash, LoseLease, RowsStay
<1>3. CASE UNCHANGED <<handlers, drift>>
  BY <1>0, <1>3 DEF RowsStay
<1>4. ASSUME NEW c \in Clients, Client(c)
      PROVE  UNCHANGED <<handlers, drift>>
  BY <1>4 DEF Client, PollCheck, TestCreate, ExecuteCheck, PollCreate, ExecuteClaim, Enqueue
<1>5. ASSUME NEW d \in Devices, Admin(d)
      PROVE  UNCHANGED <<handlers, drift>>
  BY <1>5 DEF Admin, UpsertConfig, PreviewWrite, CreateCredential, DeleteCredential
<1>6. ASSUME Queue
      PROVE  UNCHANGED <<handlers, drift>>
  BY <1>6 DEF Queue, Tick, Expire, Stalled, Evict, Recover
<1>7. QED BY <1>1, <1>2, <1>3, <1>4, <1>5, <1>6 DEF Next, vars

\* As long as no key outlives its TTL, replaceDrifts of two polls of a device
\* never interleave, so the PENDING drifts on record come from one snapshot.
THEOREM OneSnapshotOfDrifts == Spec => []DriftsFromOneSnapshot
<1>1. Init => DriftInv
  BY DEF Init, DriftInv
<1>2. TypeInv /\ WorkInv /\ MutualExclusion /\ DriftInv /\ [Next]_vars => DriftInv'
  BY DriftStep
<1>3. DriftInv => DriftsFromOneSnapshot
  <2>1. ASSUME NEW S, \A i, j \in S : i = j
        PROVE  Cardinality(S) <= 1
    <3>1. CASE S = {}
      BY <3>1, FS_EmptySet
    <3>2. CASE \E i \in S : S = {i}
      BY <3>2, FS_Singleton
    <3>3. QED BY <2>1, <3>1, <3>2
  <2>2. QED
    BY <2>1 DEF DriftInv, DriftsFromOneSnapshot
<1>4. QED
  BY <1>1, <1>2, <1>3, TypeInvariant, WorkInvariant, LockExcludes, PTL DEF Spec

-----------------------------------------------------------------------------
\* A handler's step leaves rows RUNNING that were; only Begin makes one so.
LEMMA RunningFromBegin ==
  ASSUME TypeInv, NEW w \in Workers, Handler(w), NEW j \in Jobs, Created(j)',
         job'[j].status = "RUNNING", ~(Begin(w) /\ j = cur[w])
  PROVE  Created(j) /\ job'[j] = job[j]
<1> USE DEF TypeInv, TypeOK, Created, HasJob, Pc, LockedPc, rows, HandlersRefer
<1>1. CASE Scheduled(w)
  <2>1. at[w] \in Devices
    BY <1>1 DEF Scheduled
  <2>2. ASSUME NEW i \in Jobs, ~Created(i), job' = [job EXCEPT ![i] = NewJob("POLL", at[w], "READ")]
        PROVE  job'[j] = job[j]
    BY <2>1, <2>2, NewRow DEF JobType, Purpose, NewJob, RowsOK
  <2>3. QED
    BY <1>1, <2>2 DEF Scheduled
<1>2. CASE Begin(w)
  BY <1>2, SetStatusBegun DEF Begin, JobStatus, WriteStatus
<1>3. CASE Configure(w) \/ ScheduledBusy(w) \/ Finish(w) \/ Fail(w)
  <2>1. cur[w] \in Jobs /\ Created(cur[w])
    BY <1>3 DEF Configure, ScheduledBusy, Finish, Fail
  <2>2. \/ UNCHANGED job
        \/ \E s \in JobStatus \ {"PENDING", "RUNNING"}, t \in WriteStatus : SetStatus(cur[w], s, t)
    BY <1>3 DEF Configure, ScheduledBusy, Finish, Fail, JobStatus, WriteStatus
  <2>3. QED
    BY <2>1, <2>2, SetStatusBegun
<1>4. ASSUME \/ (\E e \in Entries : Take(w, e)) \/ Load(w) \/ AcquireLock(w) \/ Probe(w)
             \/ CreateSnapshot(w) \/ DeleteDrifts(w) \/ CommitDrifts(w) \/ Preflight(w)
             \/ Apply(w) \/ Verify(w) \/ ReleaseLock(w) \/ Settle(w)
      PROVE  UNCHANGED job
  BY <1>4 DEF Take, Load, AcquireLock, Probe, CreateSnapshot, DeleteDrifts, CommitDrifts,
         Preflight, Apply, Verify, ReleaseLock, Settle
<1>5. QED BY <1>1, <1>2, <1>3, <1>4 DEF Handler

\* A handler that turns away from its job has recorded how it ended, or could
\* not, for want of a credential.
LEMMA LeavesEnded ==
  ASSUME TypeInv, WorkInv, NEW w \in Workers, Handler(w), NEW j \in Jobs, WorksOn(w, j),
         ~WorksOn(w, j)'
  PROVE  \/ job'[j].status # "RUNNING"
         \/ TypeOf(j) = "CREDENTIAL_TEST" /\ job[j].cred = None /\ UNCHANGED job
<1> USE DEF TypeInv, HasJob, Pc, LockedPc, HandlersRefer
<1>1. cur[w] = j /\ Created(j) /\ pc[w] \notin {"idle", "scheduled", "settle"}
  BY DEF WorksOn
<1>2. cur'[w] = j /\ pc'[w] \in {"settle", "release"} /\ pc[w] \in {"finish", "fail"}
  BY <1>1, WaysOfHandlers DEF WorksOn, Ways, TypeOK
<1>3. Finish(w) \/ Fail(w)
  BY <1>2 DEF Handler, Take, Scheduled, Load, Configure, AcquireLock, ScheduledBusy, Begin, Probe,
         CreateSnapshot, DeleteDrifts, CommitDrifts, Preflight, Apply, Verify, ReleaseLock, Settle
<1>4. CASE Finish(w)
  <2>1. SetStatus(j, "COMPLETED", "COMPLETED")
    BY <1>1, <1>2, <1>4 DEF Finish, Raise, TypeOK, HandlersOK
  <2>2. QED
    BY <1>1, <2>1, SetStatusBegun DEF JobStatus, WriteStatus, TypeOK
<1>5. CASE Fail(w)
  <2>1. \/ \E t \in WriteStatus : SetStatus(j, "FAILED", t)
        \/ TypeOf(j) = "CREDENTIAL_TEST" /\ job[j].cred = None /\ UNCHANGED job
    BY <1>1, <1>5 DEF Fail, WriteStatus, JobStatus
  <2>2. QED
    BY <1>1, <2>1, SetStatusBegun DEF JobStatus, WriteStatus, TypeOK
<1>6. QED BY <1>3, <1>4, <1>5

LEMMA RunningStep ==
  ASSUME TypeInv, WorkInv, RunningHasHandler, [Next]_vars
  PROVE  RunningHasHandler'
<1> DEFINE Unrecorded(j) == TypeOf(j) = "CREDENTIAL_TEST" /\ job[j].cred = None
           Ended(j) == (\E w \in Workers : WorksOn(w, j)) \/ Unrecorded(j)
<1> SUFFICES ASSUME faults' = 0, NEW j \in Jobs, Created(j)', job'[j].status = "RUNNING"
             PROVE  Ended(j)'
  BY DEF RunningHasHandler
<1> USE DEF TypeInv, TypeOK, CountersOK
<1>1. ASSUME faults = 0, Created(j), job[j].status = "RUNNING"
      PROVE  Ended(j)
  BY <1>1 DEF RunningHasHandler
<1>2. ASSUME NEW w \in Workers, Handler(w)
      PROVE  Ended(j)'
  <2>1. faults = 0
    BY <1>2 DEF Handler, Take, Scheduled, Load, Configure, AcquireLock, ScheduledBusy, Begin, Probe,
           CreateSnapshot, DeleteDrifts, CommitDrifts, Preflight, Apply, Verify, Finish, Fail,
           ReleaseLock, Settle
  <2>2. CASE Begin(w) /\ j = cur[w]
    <3>1. WorksOn(w, j)'
      BY <2>2 DEF Begin, Goto, WorksOn, LockedPc, HandlersOK
    <3>2. QED BY <3>1
  <2>3. CASE ~(Begin(w) /\ j = cur[w])
    <3>1. Created(j) /\ job'[j] = job[j]
      BY <1>2, <2>3, RunningFromBegin
    <3>2. Ended(j)
      BY <1>1, <2>1, <3>1
    <3>3. ASSUME NEW v \in Workers, WorksOn(v, j), v # w
          PROVE  WorksOn(v, j)'
      BY <1>2, <3>3, OthersRest DEF WorksOn, Rests
    <3>4. ASSUME WorksOn(w, j)
          PROVE  WorksOn(w, j)' \/ Unrecorded(j)'
      BY <1>2, <3>1, <3>4, LeavesEnded DEF TypeOf
    <3>5. Unrecorded(j) => Unrecorded(j)'
      BY <3>1 DEF TypeOf
    <3>6. QED BY <3>2, <3>3, <3>4, <3>5
  <2>4. QED BY <2>2, <2>3
<1>3. ASSUME NEW w \in Workers, Crash(w) \/ LoseLease(w)
      PROVE  FALSE
  BY <1>3 DEF Crash, LoseLease
<1>4. CASE UNCHANGED <<pc, cur, job, faults>>
  BY <1>1, <1>4 DEF WorksOn, Created, TypeOf
<1>5. ASSUME NEW w \in Workers, Start(w)
      PROVE  Ended(j)'
  <2>1. \A v \in Workers : WorksOn(v, j) => WorksOn(v, j)'
    BY <1>5 DEF Start, Goto, WorksOn, LockedPc, HandlersOK
  <2>2. QED
    BY <1>1, <1>5, <2>1 DEF Start, rows, Created, TypeOf
<1>6. ASSUME NEW c \in Clients, Client(c)
      PROVE  Ended(j)'
  <2>1. UNCHANGED <<pc, cur, faults>>
    BY <1>6 DEF Client, PollCheck, TestCreate, ExecuteCheck, PollCreate, ExecuteClaim, Enqueue,
           handlers
  <2>2. Created(j) /\ job'[j] = job[j]
    <3>1. \/ UNCHANGED job
          \/ \E i \in Jobs, type \in JobType, d \in Devices, p \in Purpose :
               ~Created(i) /\ job' = [job EXCEPT ![i] = NewJob(type, d, p)]
      <4>1. CASE \E d \in Devices, p \in Purpose : TestCreate(c, d, p)
        BY <4>1 DEF TestCreate, JobType
      <4>2. CASE PollCreate(c)
        BY <4>2 DEF PollCreate, CallsRefer, JobType, Purpose
      <4>3. CASE ExecuteClaim(c)
        <5>1. callArg[c] \in Requests /\ request[callArg[c]] \in Request
          BY <4>3 DEF ExecuteClaim, CallsRefer, RowsOK
        <5>2. request[callArg[c]].dev \in Devices
          BY <5>1 DEF Request
        <5>3. QED
          BY <4>3, <5>2 DEF ExecuteClaim, JobType, Purpose
      <4>4. QED
        BY <1>6, <4>1, <4>2, <4>3 DEF Client, PollCheck, ExecuteCheck, Enqueue, rows
    <3>2. QED
      BY <3>1, NewRow DEF NewJob, Created, RowsOK
  <2>3. QED
    BY <1>1, <2>1, <2>2 DEF WorksOn, TypeOf
<1>7. ASSUME NEW d \in Devices, Admin(d)
      PROVE  Ended(j)'
  <2>1. UNCHANGED <<pc, cur, faults>>
    BY <1>7 DEF Admin, UpsertConfig, PreviewWrite, CreateCredential, DeleteCredential, handlers
  <2>2. /\ Created(j) /\ job[j].status = "RUNNING" /\ job'[j].type = job[j].type
        /\ job[j].cred = None => job'[j].cred = None
    <3>1. CASE \E p \in Purpose : DeleteCredential(d, p)
      <4>1. Created(j) => job[j] \in Job
        BY DEF RowsOK, Created
      <4>2. QED
        BY <3>1, <4>1 DEF DeleteCredential, Created, Job
    <3>2. CASE UNCHANGED job
      BY <3>2 DEF Created
    <3>3. QED
      BY <1>7, <3>1, <3>2 DEF Admin, UpsertConfig, PreviewWrite, CreateCredential, rows
  <2>3. QED
    BY <1>1, <2>1, <2>2 DEF WorksOn, TypeOf
<1>8. ASSUME Queue
      PROVE  UNCHANGED <<pc, cur, job, faults>>
  BY <1>8 DEF Queue, Tick, Expire, Stalled, Evict, Recover, handlers, rows
<1>9. QED BY <1>2, <1>3, <1>4, <1>5, <1>6, <1>7, <1>8 DEF Next, vars, handlers, rows

\* Until a worker crashes or loses a lease, a RUNNING job has a handler that will
\* record how it ended, whatever is deleted, disabled or submitted meanwhile.
THEOREM RunningIsHandled == Spec => []RunningHasHandler
<1>1. Init => RunningHasHandler
  BY DEF Init, RunningHasHandler, Created
<1>2. TypeInv /\ WorkInv /\ RunningHasHandler /\ [Next]_vars => RunningHasHandler'
  BY RunningStep
<1>3. QED
  BY <1>1, <1>2, TypeInvariant, WorkInvariant, PTL DEF Spec

-----------------------------------------------------------------------------
\* Only Apply writes to a device, and only to its own request's.
LEMMA AppliedOnlyByApply ==
  ASSUME TypeInv, [Next]_vars, ~\E w \in Workers : Apply(w)
  PROVE  UNCHANGED applied
<1>1. ASSUME NEW w \in Workers, Handler(w)
      PROVE  UNCHANGED applied
  BY <1>1 DEF Handler, Take, Scheduled, Load, Configure, AcquireLock, ScheduledBusy, Begin, Probe,
         CreateSnapshot, DeleteDrifts, CommitDrifts, Preflight, Verify, Finish, Fail,
         ReleaseLock, Settle
<1>2. ASSUME NEW w \in Workers, Start(w) \/ Crash(w) \/ LoseLease(w)
      PROVE  UNCHANGED applied
  BY <1>2 DEF Start, Crash, LoseLease
<1>3. ASSUME NEW c \in Clients, Client(c)
      PROVE  UNCHANGED applied
  BY <1>3 DEF Client, PollCheck, TestCreate, ExecuteCheck, PollCreate, ExecuteClaim, Enqueue
<1>4. ASSUME NEW d \in Devices, Admin(d)
      PROVE  UNCHANGED applied
  BY <1>4 DEF Admin, UpsertConfig, PreviewWrite, CreateCredential, DeleteCredential
<1>5. ASSUME Queue
      PROVE  UNCHANGED applied
  BY <1>5 DEF Queue, Tick, Expire, Stalled, Evict, Recover
<1>6. QED BY <1>1, <1>2, <1>3, <1>4, <1>5 DEF Next, vars

\* The request of a write that is being applied is the one that names its job.
LEMMA RequestOfApply ==
  ASSUME TypeInv, WorkInv, OneJobPerRequest, NEW w \in Workers, Apply(w)
  PROVE  /\ RequestOf(cur[w]) \in Requests
         /\ \A q \in Requests : Names(q, cur[w]) <=> q = RequestOf(cur[w])
<1>1. cur[w] \in Jobs /\ Created(cur[w]) /\ TypeOf(cur[w]) = "SET"
  BY DEF Apply, TypeInv, HandlersRefer, HasJob, Pc, LockedPc, WorkInv, KindFits, Fits
<1>2. PICK r \in Requests : \A q \in Requests : Names(q, cur[w]) <=> q = r
  BY <1>1 DEF OneJobPerRequest
<1>3. RequestOf(cur[w]) = r
  BY <1>2 DEF RequestOf, Names
<1>4. QED
  BY <1>2, <1>3

\* A write only ever adds to what was applied, and at most once.
LEMMA AppliedGrows ==
  ASSUME TypeInv, WorkInv, OneJobPerRequest, [Next]_vars, NEW r \in Requests
  PROVE  /\ applied'[r] \in {applied[r], applied[r] + 1}
         /\ applied'[r] # applied[r] => \E w \in Workers : Apply(w) /\ Names(r, cur[w])
<1>1. CASE \E w \in Workers : Apply(w)
  <2>1. PICK w \in Workers : Apply(w)
    BY <1>1
  <2>2. applied' \in {applied, [applied EXCEPT ![RequestOf(cur[w])] = applied[RequestOf(cur[w])] + 1]}
    BY <2>1 DEF Apply
  <2>3. QED
    BY <2>1, <2>2, RequestOfApply DEF TypeInv, TypeOK, CountersOK
<1>2. CASE ~\E w \in Workers : Apply(w)
  BY <1>2, AppliedOnlyByApply
<1>3. QED BY <1>1, <1>2

\* A request gets its job once, when it is claimed, and that job is new.
LEMMA NamesAreNew ==
  ASSUME TypeInv, [Next]_vars, NEW r \in Requests, NEW j \in Jobs, Names(r, j)', ~Names(r, j)
  PROVE  /\ ~Created(j) /\ UNCHANGED <<entry, handlers, applied, faults>>
         /\ request[r] # None /\ request[r].status = "PREVIEW"
         /\ \E d \in Devices : job'[j] = NewJob("SET", d, "WRITE")
         /\ request'[r].status = "PENDING"
<1> USE DEF TypeInv, TypeOK, HandlersRefer, HasJob, Pc, LockedPc, Names
<1>1. ASSUME NEW w \in Workers, Handler(w)
      PROVE  FALSE
  <2>1. CASE Configure(w) \/ ScheduledBusy(w) \/ Begin(w) \/ Finish(w) \/ Fail(w)
    <3>1. cur[w] \in Jobs /\ Created(cur[w])
      BY <2>1 DEF Configure, ScheduledBusy, Begin, Finish, Fail
    <3>2. \/ UNCHANGED request
          \/ \E s \in JobStatus, t \in WriteStatus : SetStatus(cur[w], s, t)
      BY <2>1 DEF Configure, ScheduledBusy, Begin, Finish, Fail, JobStatus, WriteStatus
    <3>3. QED
      BY <3>1, <3>2, SetStatusNames DEF NamesStay
  <2>2. ASSUME \/ (\E e \in Entries : Take(w, e)) \/ Scheduled(w) \/ Load(w) \/ AcquireLock(w)
               \/ Probe(w) \/ CreateSnapshot(w) \/ DeleteDrifts(w) \/ CommitDrifts(w)
               \/ Preflight(w) \/ Apply(w) \/ Verify(w) \/ ReleaseLock(w) \/ Settle(w)
        PROVE  UNCHANGED request
    BY <2>2 DEF Take, Scheduled, Load, AcquireLock, Probe, CreateSnapshot, DeleteDrifts,
           CommitDrifts, Preflight, Apply, Verify, ReleaseLock, Settle, rows
  <2>3. QED BY <1>1, <2>1, <2>2 DEF Handler
<1>2. ASSUME NEW w \in Workers, Start(w) \/ Crash(w) \/ LoseLease(w)
      PROVE  UNCHANGED request
  BY <1>2 DEF Start, Crash, LoseLease, rows
<1>3. ASSUME NEW c \in Clients, ExecuteClaim(c)
      PROVE  /\ ~Created(j) /\ UNCHANGED <<entry, handlers, applied, faults>>
             /\ request[r] # None /\ request[r].status = "PREVIEW"
             /\ \E d \in Devices : job'[j] = NewJob("SET", d, "WRITE")
             /\ request'[r].status = "PENDING"
  <2>1. PICK q \in Requests : q = callArg[c] /\ request[q] # None /\ request[q] \in Request
    BY <1>3 DEF ExecuteClaim, CallsRefer, RowsOK
  <2>2. PICK i \in Jobs :
          /\ ~Created(i) /\ request[q].status = "PREVIEW"
          /\ job' = [job EXCEPT ![i] = NewJob("SET", request[q].dev, "WRITE")]
          /\ request' = [request EXCEPT ![q] = [request[q] EXCEPT !.status = "PENDING", !.job = i]]
    BY <1>3, <2>1 DEF ExecuteClaim
  <2>3. request'[q].job = i /\ request'[q].status = "PENDING" /\ \A p \in Requests \ {q} : request'[p] = request[p]
    BY <2>1, <2>2 DEF RowsOK, Request
  <2>4. r = q /\ i = j
    BY <2>3
  <2>5. request[q].dev \in Devices /\ job'[i] = NewJob("SET", request[q].dev, "WRITE")
    BY <2>1, <2>2 DEF RowsOK, Request
  <2>6. QED
    BY <1>3, <2>1, <2>2, <2>3, <2>4, <2>5 DEF ExecuteClaim
<1>4. ASSUME NEW c \in Clients, Client(c), ~ExecuteClaim(c)
      PROVE  UNCHANGED request
  BY <1>4 DEF Client, PollCheck, TestCreate, ExecuteCheck, PollCreate, Enqueue, rows
<1>5. ASSUME NEW d \in Devices, Admin(d)
      PROVE  FALSE
  <2>1. CASE PreviewWrite(d)
    BY <2>1 DEF PreviewWrite, RowsOK
  <2>2. ASSUME ~PreviewWrite(d)
        PROVE  UNCHANGED request
    BY <1>5, <2>2 DEF Admin, UpsertConfig, CreateCredential, DeleteCredential, rows
  <2>3. QED BY <2>1, <2>2
<1>6. ASSUME Queue
      PROVE  UNCHANGED request
  BY <1>6 DEF Queue, Tick, Expire, Stalled, Evict, Recover, rows
<1>7. QED BY <1>1, <1>2, <1>3, <1>4, <1>5, <1>6 DEF Next, vars, rows

\* A request is recorded as COMPLETED by the handler that finishes its job.
LEMMA CompletedByFinish ==
  ASSUME TypeInv, [Next]_vars, NEW r \in Requests,
         request'[r] # None, request'[r].status = "COMPLETED",
         ~(request[r] # None /\ request[r].status = "COMPLETED")
  PROVE  \E w \in Workers : Finish(w) /\ Names(r, cur[w])
<1> USE DEF TypeInv, TypeOK, HandlersRefer, HasJob, Pc, LockedPc
<1>1. ASSUME NEW j \in Jobs, NEW t \in WriteStatus, NEW s \in JobStatus, SetStatus(j, s, t)
      PROVE  t = "COMPLETED" /\ Names(r, j)
  <2>1. request[r] # None => request[r] \in Request
    BY DEF RowsOK
  <2>2. request[r] # None
    BY <1>1 DEF SetStatus
  <2>3. QED
    BY <1>1, <2>1, <2>2 DEF SetStatus, Names, Request
<1>2. ASSUME NEW w \in Workers, Handler(w), ~Finish(w)
      PROVE  FALSE
  <2>1. CASE Configure(w) \/ ScheduledBusy(w) \/ Begin(w) \/ Fail(w)
    <3>1. cur[w] \in Jobs
      BY <2>1 DEF Configure, ScheduledBusy, Begin, Fail
    <3>2. \/ UNCHANGED request
          \/ \E s \in JobStatus, t \in WriteStatus \ {"COMPLETED"} : SetStatus(cur[w], s, t)
      BY <2>1 DEF Configure, ScheduledBusy, Begin, Fail, JobStatus, WriteStatus
    <3>3. QED
      BY <1>1, <3>1, <3>2
  <2>2. ASSUME \/ (\E e \in Entries : Take(w, e)) \/ Scheduled(w) \/ Load(w) \/ AcquireLock(w)
               \/ Probe(w) \/ CreateSnapshot(w) \/ DeleteDrifts(w) \/ CommitDrifts(w)
               \/ Preflight(w) \/ Apply(w) \/ Verify(w) \/ ReleaseLock(w) \/ Settle(w)
        PROVE  UNCHANGED request
    BY <2>2 DEF Take, Scheduled, Load, AcquireLock, Probe, CreateSnapshot, DeleteDrifts,
           CommitDrifts, Preflight, Apply, Verify, ReleaseLock, Settle, rows
  <2>3. QED BY <1>2, <2>1, <2>2 DEF Handler
<1>3. ASSUME NEW w \in Workers, Finish(w)
      PROVE  Names(r, cur[w])
  <2>1. cur[w] \in Jobs
    BY <1>3 DEF Finish
  <2>2. SetStatus(cur[w], "COMPLETED", "COMPLETED") \/ UNCHANGED request
    BY <1>3 DEF Finish
  <2>3. QED
    BY <1>1, <2>1, <2>2 DEF JobStatus, WriteStatus
<1>4. ASSUME NEW w \in Workers, Start(w) \/ Crash(w) \/ LoseLease(w)
      PROVE  UNCHANGED request
  BY <1>4 DEF Start, Crash, LoseLease, rows
<1>5. ASSUME NEW c \in Clients, Client(c)
      PROVE  FALSE
  <2>1. CASE ExecuteClaim(c)
    <3>1. PICK q \in Requests : q = callArg[c] /\ request[q] # None /\ request[q] \in Request
      BY <2>1 DEF ExecuteClaim, CallsRefer, RowsOK
    <3>2. \/ UNCHANGED request
          \/ \E j \in Jobs :
               request' = [request EXCEPT ![q] = [request[q] EXCEPT !.status = "PENDING", !.job = j]]
      BY <2>1, <3>1 DEF ExecuteClaim
    <3>3. \A j \in Jobs : [request[q] EXCEPT !.status = "PENDING", !.job = j].status = "PENDING"
      BY <3>1 DEF Request
    <3>4. QED
      BY <3>1, <3>2, <3>3 DEF RowsOK
  <2>2. ASSUME ~ExecuteClaim(c)
        PROVE  UNCHANGED request
    BY <1>5, <2>2 DEF Client, PollCheck, TestCreate, ExecuteCheck, PollCreate, Enqueue, rows
  <2>3. QED BY <2>1, <2>2
<1>6. ASSUME NEW d \in Devices, Admin(d)
      PROVE  FALSE
  <2>1. CASE PreviewWrite(d)
    BY <2>1 DEF PreviewWrite, RowsOK
  <2>2. ASSUME ~PreviewWrite(d)
        PROVE  UNCHANGED request
    BY <1>6, <2>2 DEF Admin, UpsertConfig, CreateCredential, DeleteCredential, rows
  <2>3. QED BY <2>1, <2>2
<1>7. ASSUME Queue
      PROVE  UNCHANGED request
  BY <1>7 DEF Queue, Tick, Expire, Stalled, Evict, Recover, rows
<1>8. QED BY <1>2, <1>3, <1>4, <1>5, <1>6, <1>7 DEF Next, vars, rows

\* A handler that has read the values back, or ends a write, has applied it.
VerifiesApplied ==
  \A w \in Workers, r \in Requests :
    pc[w] \in {"verify", "finish"} /\ Names(r, cur[w]) => applied[r] > 0

LEMMA VerifiesAppliedStep ==
  ASSUME TypeInv, WorkInv, WriteRequestMirrorsJob, OneJobPerRequest, VerifiesApplied, [Next]_vars
  PROVE  VerifiesApplied'
<1> SUFFICES ASSUME NEW v \in Workers, NEW r \in Requests, pc'[v] \in {"verify", "finish"},
                    Names(r, cur[v])'
             PROVE  applied'[r] > 0
  BY DEF VerifiesApplied
<1> DEFINE j == cur'[v]
<1>1. j \in Jobs
  BY TypeInvStep DEF TypeInv, HandlersRefer, HasJob, Pc, LockedPc
<1>2. Names(r, j)
  <2>1. CASE ~Names(r, j)
    <3>1. ~Created(j) /\ UNCHANGED handlers
      BY <1>1, <2>1, NamesAreNew DEF Names
    <3>2. Created(j)
      BY <3>1 DEF handlers, TypeInv, HandlersRefer, HasJob, Pc, LockedPc
    <3>3. QED BY <3>1, <3>2
  <2>2. QED BY <2>1
<1>3. applied[r] > 0 => applied'[r] > 0
  BY AppliedGrows DEF TypeInv, TypeOK, CountersOK
<1>4. CASE pc'[v] = pc[v] /\ cur'[v] = cur[v]
  BY <1>2, <1>3, <1>4 DEF VerifiesApplied
<1>5. ASSUME NEW w \in Workers, Handler(w)
      PROVE  applied'[r] > 0
  <2>1. CASE v # w
    BY <1>4, <1>5, <2>1, OthersRest DEF Rests, TypeInv, TypeOK
  <2>2. CASE v = w
    <3>1. cur[w] = j /\ pc[w] \in {"apply", "verify", "probe", "driftCommit"}
      BY <1>5, <2>2, WaysOfHandlers DEF Ways, TypeInv, TypeOK
    <3>2. TypeOf(j) = "SET"
      BY <1>1, <1>2 DEF WriteRequestMirrorsJob, Mirrors, Names, TypeInv, TypeOK
    <3>3. CASE pc[w] = "verify"
      BY <1>2, <1>3, <3>1, <3>3 DEF VerifiesApplied
    <3>4. CASE pc[w] \in {"probe", "driftCommit"}
      BY <3>1, <3>2, <3>4 DEF WorkInv, KindFits, Fits
    <3>5. CASE pc[w] = "apply"
      <4>1. Apply(w)
        BY <1>5, <3>5 DEF Handler, Take, Scheduled, Load, Configure, AcquireLock, ScheduledBusy,
               Begin, Probe, CreateSnapshot, DeleteDrifts, CommitDrifts, Preflight, Verify,
               Finish, Fail, ReleaseLock, Settle
      <4>2. applied' = [applied EXCEPT ![RequestOf(cur[w])] = applied[RequestOf(cur[w])] + 1]
        BY <2>2, <4>1 DEF Apply, Raise, TypeInv, TypeOK, HandlersOK
      <4>3. r = RequestOf(cur[w])
        BY <1>2, <3>1, <4>1, RequestOfApply
      <4>4. QED
        BY <4>2, <4>3 DEF TypeInv, TypeOK, CountersOK
    <3>6. QED BY <3>1, <3>3, <3>4, <3>5
  <2>3. QED BY <2>1, <2>2
<1>6. ASSUME NEW w \in Workers, Start(w) \/ Crash(w) \/ LoseLease(w)
      PROVE  pc'[v] = pc[v] /\ cur'[v] = cur[v]
  BY <1>6 DEF Start, Crash, LoseLease, Goto, handlers, TypeInv, TypeOK, HandlersOK
<1>7. CASE UNCHANGED handlers
  BY <1>4, <1>7 DEF handlers
<1>8. ASSUME NEW c \in Clients, Client(c)
      PROVE  UNCHANGED handlers
  BY <1>8 DEF Client, PollCheck, TestCreate, ExecuteCheck, PollCreate, ExecuteClaim, Enqueue
<1>9. ASSUME NEW d \in Devices, Admin(d)
      PROVE  UNCHANGED handlers
  BY <1>9 DEF Admin, UpsertConfig, PreviewWrite, CreateCredential, DeleteCredential
<1>10. ASSUME Queue
       PROVE  UNCHANGED handlers
  BY <1>10 DEF Queue, Tick, Expire, Stalled, Evict, Recover
<1>11. QED BY <1>4, <1>5, <1>6, <1>7, <1>8, <1>9, <1>10 DEF Next, vars

LEMMA CompletedStep ==
  ASSUME TypeInv, WorkInv, OneJobPerRequest, VerifiesApplied, CompletedWriteWasApplied, [Next]_vars
  PROVE  CompletedWriteWasApplied'
<1> SUFFICES ASSUME NEW r \in Requests, request'[r] # None, request'[r].status = "COMPLETED"
             PROVE  applied'[r] > 0
  BY DEF CompletedWriteWasApplied
<1>1. applied[r] > 0 => applied'[r] > 0
  BY AppliedGrows DEF TypeInv, TypeOK, CountersOK
<1>2. CASE request[r] # None /\ request[r].status = "COMPLETED"
  BY <1>1, <1>2 DEF CompletedWriteWasApplied
<1>3. CASE ~(request[r] # None /\ request[r].status = "COMPLETED")
  BY <1>1, <1>3, CompletedByFinish DEF VerifiesApplied, Finish
<1>4. QED BY <1>2, <1>3

\* A write request is never recorded as COMPLETED unless its values have been
\* written to the device, through crashes, redeliveries and overruns of the lock.
THEOREM CompletedIsApplied == Spec => []CompletedWriteWasApplied
<1>1. Init => VerifiesApplied /\ CompletedWriteWasApplied
  BY DEF Init, VerifiesApplied, CompletedWriteWasApplied
<1>2. TypeInv /\ WorkInv /\ WriteRequestMirrorsJob /\ OneJobPerRequest
        /\ VerifiesApplied /\ CompletedWriteWasApplied /\ [Next]_vars
        => VerifiesApplied' /\ CompletedWriteWasApplied'
  BY VerifiesAppliedStep, CompletedStep
<1>3. QED
  BY <1>1, <1>2, TypeInvariant, WorkInvariant, RequestMirrorsJob, RequestHasOneJob, PTL DEF Spec

-----------------------------------------------------------------------------
(* Why a write is repeated only after a fault: what may still be applied is  *)
(* counted like money. A job that is not delivered yet owes one application; *)
(* a delivery carries the debt to the handler that takes it; an application  *)
(* pays it; and only a crash or a lost lease leaves a debt behind unpaid.    *)

\* The handlers that may still apply the write of job j, or hand it on unbegun.
MayApply == {"load", "config", "lock", "begin", "preflight", "apply"}
Bearers(j) ==
  {w \in Workers : /\ cur[w] = j
                   /\ pc[w] \in MayApply \/ (pc[w] = "settle" /\ job[j].status = "PENDING")}

\* What the queue itself still owes.
Owed(j) ==
  \/ entry[j].state \in {"absent", "waiting"}
  \/ entry[j].state = "active" /\ entry[j].owner = None
  \/ entry[j].state = "finished" /\ job[j].status = "PENDING"
Due(j) == IF Owed(j) THEN 1 ELSE 0

Balanced(r, j) ==
  IsFiniteSet(Bearers(j)) /\ applied[r] + Due(j) + Cardinality(Bearers(j)) <= 1 + faults
Ledger ==
  \A r \in Requests :
    /\ (\A j \in Jobs : ~Names(r, j)) => applied[r] = 0
    /\ \A j \in Jobs : Names(r, j) => Balanced(r, j)

\* Fewer bearers, one bearer less, one bearer more.
LEMMA CountBearers ==
  ASSUME NEW B, IsFiniteSet(B), NEW C, NEW w, C \subseteq B \cup {w}
  PROVE  /\ IsFiniteSet(C) /\ Cardinality(C) \in Nat /\ Cardinality(B) \in Nat
         /\ Cardinality(C) <= Cardinality(B) + 1
         /\ C \subseteq B => Cardinality(C) <= Cardinality(B)
         /\ w \in B /\ w \notin C => Cardinality(C) + 1 <= Cardinality(B)
<1> DEFINE D == B \cup {w}
           E == B \ {w}
<1>1. /\ IsFiniteSet(D) /\ Cardinality(D) = IF w \in B THEN Cardinality(B) ELSE Cardinality(B) + 1
      /\ IsFiniteSet(E) /\ Cardinality(E) = IF w \in B THEN Cardinality(B) - 1 ELSE Cardinality(B)
  <2>1. \A x : /\ IsFiniteSet(B \cup {x})
              /\ Cardinality(B \cup {x}) = IF x \in B THEN Cardinality(B) ELSE Cardinality(B) + 1
    BY FS_AddElement
  <2>2. \A x : /\ IsFiniteSet(B \ {x})
              /\ Cardinality(B \ {x}) = IF x \in B THEN Cardinality(B) - 1 ELSE Cardinality(B)
    BY FS_RemoveElement
  <2>3. QED BY <2>1, <2>2
<1>2. C \in SUBSET D /\ (w \notin C => C \in SUBSET E)
  OBVIOUS
<1> HIDE DEF D, E
<1>3. IsFiniteSet(C) /\ Cardinality(C) <= Cardinality(D)
  BY <1>1, <1>2, FS_Subset
<1>4. C \subseteq B => Cardinality(C) <= Cardinality(B)
  BY FS_Subset
<1>5. w \notin C => Cardinality(C) <= Cardinality(E)
  BY <1>1, <1>2, FS_Subset
<1>6. Cardinality(B) \in Nat /\ Cardinality(C) \in Nat
  BY <1>3, FS_CardinalityType
<1>7. QED BY <1>1, <1>3, <1>4, <1>5, <1>6

\* A request keeps the job it names.
LEMMA NamesPersist ==
  ASSUME TypeInv, WriteRequestMirrorsJob, [Next]_vars, NEW r \in Requests, NEW j \in Jobs, Names(r, j)
  PROVE  Names(r, j)'
<1> USE DEF TypeInv, TypeOK, HandlersRefer, HasJob, Pc, LockedPc, Names
<1>1. ASSUME NEW w \in Workers, Handler(w)
      PROVE  Names(r, j)'
  <2>1. CASE Configure(w) \/ ScheduledBusy(w) \/ Begin(w) \/ Finish(w) \/ Fail(w)
    <3>1. cur[w] \in Jobs /\ Created(cur[w])
      BY <2>1 DEF Configure, ScheduledBusy, Begin, Finish, Fail
    <3>2. \/ UNCHANGED request
          \/ \E s \in JobStatus, t \in WriteStatus : SetStatus(cur[w], s, t)
      BY <2>1 DEF Configure, ScheduledBusy, Begin, Finish, Fail, JobStatus, WriteStatus
    <3>3. QED
      BY <3>1, <3>2, SetStatusNames DEF NamesStay
  <2>2. ASSUME \/ (\E e \in Entries : Take(w, e)) \/ Scheduled(w) \/ Load(w) \/ AcquireLock(w)
               \/ Probe(w) \/ CreateSnapshot(w) \/ DeleteDrifts(w) \/ CommitDrifts(w)
               \/ Preflight(w) \/ Apply(w) \/ Verify(w) \/ ReleaseLock(w) \/ Settle(w)
        PROVE  UNCHANGED request
    BY <2>2 DEF Take, Scheduled, Load, AcquireLock, Probe, CreateSnapshot, DeleteDrifts,
           CommitDrifts, Preflight, Apply, Verify, ReleaseLock, Settle, rows
  <2>3. QED BY <1>1, <2>1, <2>2 DEF Handler
<1>2. ASSUME NEW w \in Workers, Start(w) \/ Crash(w) \/ LoseLease(w)
      PROVE  UNCHANGED request
  BY <1>2 DEF Start, Crash, LoseLease, rows
<1>3. ASSUME NEW c \in Clients, Client(c)
      PROVE  Names(r, j)'
  <2>1. CASE ExecuteClaim(c)
    <3>1. Mirrors(r, j)
      BY DEF WriteRequestMirrorsJob
    <3>2. request[r].status # "PREVIEW"
      BY <3>1 DEF Mirrors, Created, RowsOK, Job, JobStatus
    <3>3. request'[r] = request[r]
      <4>1. CASE UNCHANGED request
        BY <4>1
      <4>2. CASE request[callArg[c]].status = "PREVIEW" /\ \E new : request' = [request EXCEPT ![callArg[c]] = new]
        BY <3>2, <4>2 DEF RowsOK
      <4>3. QED BY <2>1, <4>1, <4>2 DEF ExecuteClaim
    <3>4. QED BY <3>3
  <2>2. ASSUME ~ExecuteClaim(c)
        PROVE  UNCHANGED request
    BY <1>3, <2>2 DEF Client, PollCheck, TestCreate, ExecuteCheck, PollCreate, Enqueue, rows
  <2>3. QED BY <2>1, <2>2
<1>4. ASSUME NEW d \in Devices, Admin(d)
      PROVE  Names(r, j)'
  <2>1. CASE PreviewWrite(d)
    BY <2>1 DEF PreviewWrite, RowsOK
  <2>2. ASSUME ~PreviewWrite(d)
        PROVE  UNCHANGED request
    BY <1>4, <2>2 DEF Admin, UpsertConfig, CreateCredential, DeleteCredential, rows
  <2>3. QED BY <2>1, <2>2
<1>5. ASSUME Queue
      PROVE  UNCHANGED request
  BY <1>5 DEF Queue, Tick, Expire, Stalled, Evict, Recover, rows
<1>6. QED BY <1>1, <1>2, <1>3, <1>4, <1>5 DEF Next, vars, rows

\* Off their own deliveries, handlers move along without a new debt.
LEMMA HandlerLedger ==
  ASSUME TypeInv, WorkInv, WriteRequestMirrorsJob, OneJobPerRequest, [Next]_vars,
         NEW r \in Requests, NEW j \in Jobs, Names(r, j), Balanced(r, j),
         NEW w \in Workers, Handler(w)
  PROVE  Balanced(r, j)'
<1> DEFINE B == Bearers(j)
<1>1. Created(j) /\ TypeOf(j) = "SET" /\ j # None /\ j \notin Devices
  BY DEF WriteRequestMirrorsJob, Mirrors, Names
<1>2. Begun /\ RowsStay /\ WorkInv'
  BY BegunStep, RowsStep, HoldsRowStep, OwnsDeliveryStep, KindFitsStep DEF WorkInv
<1>3. \A v \in Workers \ {w} : v \in Bearers(j)' => v \in B
  BY <1>1, <1>2, OthersRest DEF Bearers, Rests, Begun, TypeInv, TypeOK
<1>4. /\ applied[r] \in Nat /\ applied'[r] \in Nat /\ faults \in Nat /\ faults' = faults
      /\ applied'[r] \in {applied[r], applied[r] + 1}
  <2>1. faults' = faults
    BY DEF Handler, Take, Scheduled, Load, Configure, AcquireLock, ScheduledBusy, Begin, Probe,
           CreateSnapshot, DeleteDrifts, CommitDrifts, Preflight, Apply, Verify, Finish, Fail,
           ReleaseLock, Settle
  <2>2. QED
    BY <2>1, AppliedGrows, TypeInvStep DEF TypeInv, TypeOK, CountersOK
<1>5. Due(j) \in 0 .. 1 /\ Due(j)' \in 0 .. 1
  BY DEF Due
<1>6. job'[j].status = "PENDING" => job[j].status = "PENDING"
  BY <1>1, <1>2 DEF Begun
<1>7. IsFiniteSet(B) /\ applied[r] + Due(j) + Cardinality(B) <= 1 + faults
  BY DEF Balanced
<1>8. Bearers(j)' \subseteq B \cup {w}
  BY <1>3 DEF Bearers
<1>9. entry'[j] = entry[j] => Due(j)' <= Due(j)
  BY <1>6 DEF Due, Owed
<1> DEFINE C == Bearers(j)'
<1>cards. /\ IsFiniteSet(C) /\ Cardinality(C) \in Nat /\ Cardinality(B) \in Nat
          /\ Cardinality(C) <= Cardinality(B) + 1
          /\ C \subseteq B => Cardinality(C) <= Cardinality(B)
          /\ w \in B /\ w \notin C => Cardinality(C) + 1 <= Cardinality(B)
  BY <1>7, <1>8, CountBearers
<1>sum. applied'[r] + Due(j)' + Cardinality(C) <= 1 + faults => Balanced(r, j)'
  BY <1>4, <1>cards DEF Balanced
<1> HIDE DEF B, C
<1>10. ASSUME w \in B \/ w \notin C, applied'[r] + Due(j)' <= applied[r] + Due(j)
       PROVE  Balanced(r, j)'
  <2>1. C \subseteq B
    BY <1>3, <1>8, <1>10 DEF C
  <2>2. QED
    BY <1>4, <1>5, <1>7, <1>sum, <1>cards, <1>10, <2>1
<1>11. ASSUME w \in B, w \notin C, applied'[r] + Due(j)' <= applied[r] + Due(j) + 1
       PROVE  Balanced(r, j)'
  BY <1>4, <1>5, <1>7, <1>sum, <1>cards, <1>11
<1>12. CASE \E e \in Entries : Take(w, e)
  <2>1. PICK e \in Entries : Take(w, e)
    BY <1>12
  <2>2. UNCHANGED applied
    BY <2>1 DEF Take
  <2>3. CASE e = j
    <3>1. Due(j) = 1 /\ Due(j)' = 0
      BY <2>1, <2>3 DEF Take, Due, Owed, TypeInv, TypeOK, QueueOK, Entry, Entries
    <3>2. QED
      BY <1>4, <1>7, <1>sum, <1>cards, <2>2, <3>1
  <2>4. CASE e # j
    <3>1. entry'[j] = entry[j] /\ cur'[w] # j
      BY <1>1, <2>1, <2>4 DEF Take, TypeInv, TypeOK, QueueOK, HandlersOK, Entries
    <3>2. QED
      BY <1>4, <1>5, <1>9, <1>10, <2>2, <3>1 DEF Bearers, C
  <2>5. QED BY <2>3, <2>4
<1>13. CASE Settle(w)
  <2>1. UNCHANGED applied /\ w \notin C /\ UNCHANGED job
    BY <1>13 DEF C, Settle, Bearers, MayApply, rows, TypeInv, TypeOK, HandlersOK
  <2>2. CASE entry[at[w]].owner = w /\ at[w] = j
    <3>1. entry'[j].state = "finished"
      BY <1>13, <2>2 DEF Settle, Idle, TypeInv, TypeOK, QueueOK, Entries
    <3>2. CASE job[j].status = "PENDING"
      <4>1. w \in B
        BY <1>13, <2>2, <3>2 DEF Settle, B, Bearers, WorkInv, HoldsRow
      <4>2. QED
        BY <1>4, <1>5, <1>11, <2>1, <4>1
    <3>3. CASE job[j].status # "PENDING"
      <4>1. Due(j)' = 0
        BY <2>1, <3>1, <3>3 DEF Due, Owed
      <4>2. QED
        BY <1>4, <1>5, <1>10, <2>1, <4>1
    <3>4. QED BY <3>2, <3>3
  <2>3. CASE ~(entry[at[w]].owner = w /\ at[w] = j)
    <3>1. entry'[j] = entry[j]
      BY <1>13, <2>3 DEF Settle, TypeInv, TypeOK, QueueOK, Entries
    <3>2. QED
      BY <1>4, <1>5, <1>9, <1>10, <2>1, <3>1
  <2>4. QED BY <2>2, <2>3
<1>14. CASE Apply(w)
  <2>1. /\ UNCHANGED <<entry, cur>> /\ pc[w] = "apply" /\ pc'[w] \in {"verify", "fail"}
    BY <1>14 DEF Apply, Goto, Raise, TypeInv, TypeOK, HandlersOK
  <2>2. w \notin C
    BY <2>1 DEF C, Bearers, MayApply
  <2>3. CASE cur[w] = j
    <3>1. w \in B
      BY <2>1, <2>3 DEF B, Bearers, MayApply
    <3>2. QED
      BY <1>4, <1>5, <1>9, <1>11, <2>1, <2>2, <3>1
  <2>4. CASE cur[w] # j
    <3>1. \A v \in Workers : Apply(v) => v = w
      <4>1. \A v \in Workers \ {w} : pc'[v] = pc[v]
        BY OthersRest DEF Rests, TypeInv, TypeOK
      <4>2. \A v \in Workers : Apply(v) => pc'[v] # pc[v]
        BY DEF Apply, Goto, Raise, TypeInv, TypeOK, HandlersOK
      <4>3. QED BY <4>1, <4>2
    <3>2. applied'[r] = applied[r]
      BY <2>4, <3>1, AppliedGrows DEF Names
    <3>3. QED
      BY <1>4, <1>5, <1>9, <1>10, <2>1, <2>2, <3>2
  <2>5. QED BY <2>3, <2>4
<1>15. ASSUME ~(\E e \in Entries : Take(w, e)), ~Settle(w), ~Apply(w)
       PROVE  Balanced(r, j)'
  <2>1. UNCHANGED <<entry, applied>> /\ pc[w] \notin {"idle", "settle", "apply"}
    BY <1>15 DEF Handler, Scheduled, Load, Configure, AcquireLock, ScheduledBusy, Begin, Probe,
           CreateSnapshot, DeleteDrifts, CommitDrifts, Preflight, Verify, Finish, Fail, ReleaseLock
  <2>2. ASSUME w \in C
        PROVE  w \in B
    <3>1. /\ cur'[w] = j
          /\ pc'[w] \in MayApply \/ (pc'[w] = "settle" /\ job'[j].status = "PENDING")
      BY <2>2 DEF C, Bearers
    <3>2. <<pc[w], pc'[w]>> \in Ways /\ (pc[w] \notin {"idle", "scheduled", "settle"} => cur[w] = j /\ at'[w] = at[w])
      BY <3>1, WaysOfHandlers DEF TypeInv, TypeOK
    <3>3. at'[w] \notin Devices
      <4>1. job'[j].type = "SET"
        BY <1>1, <1>2 DEF RowsStay, TypeOf
      <4>2. QED
        BY <1>1, <1>2, <3>1, <4>1 DEF WorkInv, HoldsRow, TypeOf
    <3>4. pc[w] # "scheduled"
      <4>1. Scheduled(w) => at'[w] \in Devices
        BY DEF Scheduled, Goto, Reject, TypeInv, HandlersRefer
      <4>2. pc[w] = "scheduled" => Scheduled(w)
        BY <1>15 DEF Handler, Load, Configure, AcquireLock, ScheduledBusy, Begin, Probe,
               CreateSnapshot, DeleteDrifts, CommitDrifts, Preflight, Verify, Finish, Fail, ReleaseLock
      <4>3. QED BY <3>3, <4>1, <4>2
    <3>5. cur[w] = j /\ at[w] \notin Devices
      BY <2>1, <3>2, <3>3, <3>4
    <3>6. pc[w] # "busy" /\ (pc[w] \in {"finish", "fail", "release"} => job[j].status # "PENDING")
      BY <3>5 DEF WorkInv, KindFits, Fits, LockedPc
    <3>7. pc[w] \in MayApply
      BY <1>6, <2>1, <3>1, <3>2, <3>4, <3>6 DEF MayApply, Ways
    <3>8. QED
      BY <3>5, <3>7 DEF B, Bearers
  <2>3. QED
    BY <1>4, <1>5, <1>9, <1>10, <2>1, <2>2
<1>16. QED BY <1>12, <1>13, <1>14, <1>15

\* Outside the handlers, only a crash or a lost lease makes a new debt.
LEMMA QueueLedger ==
  ASSUME TypeInv, WorkInv, WriteRequestMirrorsJob, OneJobPerRequest, [Next]_vars,
         NEW r \in Requests, NEW j \in Jobs, Names(r, j), Balanced(r, j),
         ~\E w \in Workers : Handler(w)
  PROVE  Balanced(r, j)'
<1>1. Created(j) /\ TypeOf(j) = "SET"
  BY DEF WriteRequestMirrorsJob, Mirrors, Names
<1>2. job'[j].status = "PENDING" => job[j].status = "PENDING"
  BY <1>1, BegunStep DEF Begun
<1>3. Due(j) \in 0 .. 1 /\ Due(j)' \in 0 .. 1
  BY DEF Due
<1>4. UNCHANGED applied
  BY AppliedOnlyByApply DEF Handler
<1>5. ASSUME Bearers(j)' \subseteq Bearers(j), faults' \in Nat, Due(j)' + faults <= Due(j) + faults'
      PROVE  Balanced(r, j)'
  <2>1. /\ IsFiniteSet(Bearers(j)') /\ Cardinality(Bearers(j)') \in Nat /\ Cardinality(Bearers(j)) \in Nat
        /\ Cardinality(Bearers(j)') <= Cardinality(Bearers(j))
    BY <1>5, CountBearers DEF Balanced
  <2>2. applied[r] \in Nat /\ faults \in Nat /\ faults' \in Nat
    BY <1>5 DEF TypeInv, TypeOK, CountersOK
  <2>3. \A a, b, c, d, e, f, g \in Nat :
          a + d + b <= 1 + f /\ c <= b /\ e + f <= d + g => a + e + c <= 1 + g
    OBVIOUS
  <2>4. applied[r] + Due(j)' + Cardinality(Bearers(j)') <= 1 + faults'
    BY <1>3, <1>5, <2>1, <2>2, <2>3 DEF Balanced
  <2>5. QED
    BY <1>4, <2>1, <2>4 DEF Balanced
<1>6. ASSUME UNCHANGED <<handlers, faults>>, Owed(j)' => Owed(j)
      PROVE  Balanced(r, j)'
  <2>1. Bearers(j)' \subseteq Bearers(j)
    BY <1>2, <1>6 DEF handlers, Bearers
  <2>2. faults' = faults /\ faults \in Nat /\ Due(j)' <= Due(j)
    BY <1>6 DEF Due, TypeInv, TypeOK, CountersOK
  <2>3. QED
    BY <1>3, <1>5, <2>1, <2>2
<1>7. entry'[j] = entry[j] => (Owed(j)' => Owed(j))
  BY <1>2 DEF Owed
<1>8. entry' = Added(j) => (Owed(j)' => Owed(j))
  BY <1>2 DEF Added, Owed
<1>9. ASSUME NEW e \in Entries, e # j, NEW new, entry' = [entry EXCEPT ![e] = new]
      PROVE  entry'[j] = entry[j]
  BY <1>9 DEF TypeInv, TypeOK, QueueOK, Entries
<1>10. ASSUME NEW w \in Workers, Crash(w) \/ LoseLease(w)
       PROVE  Balanced(r, j)'
  <2>1. Bearers(j)' \subseteq Bearers(j) /\ faults' = faults + 1 /\ faults \in Nat
    BY <1>10 DEF Crash, LoseLease, Bearers, MayApply, rows, handlers, TypeInv, TypeOK, HandlersOK,
           CountersOK
  <2>2. QED
    BY <1>3, <1>5, <2>1
<1>11. ASSUME NEW w \in Workers, Start(w)
       PROVE  Balanced(r, j)'
  <2>1. Bearers(j)' \subseteq Bearers(j) /\ faults' = faults /\ faults \in Nat /\ Due(j)' = Due(j)
    BY <1>11 DEF Start, Goto, Bearers, MayApply, rows, Due, Owed, TypeInv, TypeOK, HandlersOK,
           CountersOK
  <2>2. QED
    BY <1>3, <1>5, <2>1
<1>12. ASSUME NEW c \in Clients, Client(c)
       PROVE  Balanced(r, j)'
  <2>1. UNCHANGED <<handlers, faults>>
    BY <1>12 DEF Client, PollCheck, TestCreate, ExecuteCheck, PollCreate, ExecuteClaim, Enqueue
  <2>2. CASE Enqueue(c)
    <3>1. CASE callArg[c] = j
      BY <1>6, <1>7, <1>8, <2>1, <2>2, <3>1 DEF Enqueue
    <3>2. CASE callArg[c] # j
      <4>1. callArg[c] \in Entries
        BY <2>2 DEF Enqueue, TypeInv, CallsRefer, Entries
      <4>2. entry'[j] = entry[j]
        BY <2>2, <3>2, <4>1, <1>9 DEF Enqueue, Added
      <4>3. QED
        BY <1>6, <1>7, <2>1, <4>2
    <3>3. QED BY <3>1, <3>2
  <2>3. CASE UNCHANGED entry
    BY <1>6, <1>7, <2>1, <2>3
  <2>4. QED
    BY <1>12, <2>2, <2>3 DEF Client, PollCheck, TestCreate, ExecuteCheck, PollCreate, ExecuteClaim
<1>13. ASSUME NEW d \in Devices, Admin(d)
       PROVE  UNCHANGED <<handlers, faults, entry>>
  BY <1>13 DEF Admin, UpsertConfig, PreviewWrite, CreateCredential, DeleteCredential
<1>14. ASSUME Queue
       PROVE  Balanced(r, j)'
  <2>1. UNCHANGED <<handlers, faults>>
    BY <1>14 DEF Queue, Tick, Expire, Stalled, Evict, Recover
  <2>2. ASSUME NEW d \in Devices, Tick(d)
        PROVE  entry'[j] = entry[j]
    BY <1>9, <2>2 DEF Tick, Entries, IdsAssumption
  <2>3. ASSUME NEW d \in Devices, Expire(d)
        PROVE  entry'[j] = entry[j]
    BY <2>3 DEF Expire
  <2>4. ASSUME NEW e \in Entries, Stalled(e)
        PROVE  Owed(j)' => Owed(j)
    <3>1. CASE e = j
      BY <2>4, <3>1 DEF Stalled, Owed
    <3>2. CASE e # j
      BY <1>7, <1>9, <2>4, <3>2 DEF Stalled
    <3>3. QED BY <3>1, <3>2
  <2>5. ASSUME NEW i \in Jobs, Evict(i)
        PROVE  Owed(j)' => Owed(j)
    <3>1. CASE i = j
      BY <2>5, <3>1 DEF Evict, Owed
    <3>2. CASE i # j
      BY <1>7, <1>9, <2>5, <3>2 DEF Evict, Entries
    <3>3. QED BY <3>1, <3>2
  <2>6. ASSUME NEW i \in Jobs, Recover(i)
        PROVE  Owed(j)' => Owed(j)
    <3>1. CASE i = j
      BY <1>7, <1>8, <2>6, <3>1 DEF Recover
    <3>2. CASE i # j
      BY <1>7, <1>9, <2>6, <3>2 DEF Recover, Added, Entries
    <3>3. QED BY <3>1, <3>2
  <2>7. QED
    BY <1>6, <1>7, <1>14, <2>1, <2>2, <2>3, <2>4, <2>5, <2>6 DEF Queue
<1>15. CASE UNCHANGED <<handlers, faults, entry>>
  BY <1>6, <1>7, <1>15
<1>16. QED BY <1>10, <1>11, <1>12, <1>13, <1>14, <1>15 DEF Next, vars

LEMMA LedgerStep ==
  ASSUME TypeInv, WorkInv, WriteRequestMirrorsJob, OneJobPerRequest, Ledger, [Next]_vars
  PROVE  Ledger'
<1> SUFFICES ASSUME NEW r \in Requests
             PROVE  /\ (\A j \in Jobs : ~Names(r, j)') => applied'[r] = 0
                    /\ \A j \in Jobs : Names(r, j)' => Balanced(r, j)'
  BY DEF Ledger
<1>1. ASSUME \A j \in Jobs : ~Names(r, j)'
      PROVE  applied'[r] = 0
  <2>1. \A j \in Jobs : ~Names(r, j)
    BY <1>1, NamesPersist
  <2>2. ASSUME NEW w \in Workers, Apply(w)
        PROVE  ~Names(r, cur[w])
    BY <2>1, <2>2 DEF Apply, TypeInv, HandlersRefer, HasJob, Pc, LockedPc
  <2>3. QED
    BY <2>1, <2>2, AppliedGrows DEF Ledger
<1>2. ASSUME NEW j \in Jobs, Names(r, j)', Names(r, j)
      PROVE  Balanced(r, j)'
  <2>1. Balanced(r, j)
    BY <1>2 DEF Ledger
  <2>2. QED
    BY <1>2, <2>1, HandlerLedger, QueueLedger
<1>3. ASSUME NEW j \in Jobs, Names(r, j)', ~Names(r, j)
      PROVE  Balanced(r, j)'
  <2>1. ~Created(j) /\ UNCHANGED <<handlers, applied, faults>> /\ request[r] # None /\ request[r].status = "PREVIEW"
    BY <1>3, NamesAreNew
  <2>2. Bearers(j)' = {}
    BY <2>1 DEF handlers, Bearers, WorkInv, HoldsRow, IdsAssumption
  <2>3. \A i \in Jobs : ~Names(r, i)
    <3>1. ASSUME NEW i \in Jobs, Names(r, i)
          PROVE  FALSE
      <4>1. Mirrors(r, i)
        BY <3>1 DEF WriteRequestMirrorsJob, Names
      <4>2. QED
        BY <2>1, <4>1 DEF Mirrors, Created, TypeInv, TypeOK, RowsOK, Job, JobStatus
    <3>2. QED BY <3>1
  <2>4. applied'[r] = 0 /\ faults' \in Nat
    BY <2>1, <2>3 DEF Ledger, TypeInv, TypeOK, CountersOK
  <2>5. Due(j)' <= 1 /\ Due(j)' \in 0 .. 1
    BY DEF Due
  <2>6. QED
    BY <2>2, <2>4, <2>5, FS_EmptySet DEF Balanced
<1>4. QED BY <1>1, <1>2, <1>3

\* A write reaches its device again only after a crash or a lost lease, and then
\* once more for each: no queueing, recovery pass, eviction, stall or retry of the
\* API repeats it on its own.
THEOREM RepeatsAreFaults == Spec => []RewriteNeedsFault
<1>1. Init => Ledger
  BY DEF Init, Ledger, Names
<1>2. TypeInv /\ WorkInv /\ WriteRequestMirrorsJob /\ OneJobPerRequest /\ Ledger /\ [Next]_vars => Ledger'
  BY LedgerStep
<1>3. TypeInv /\ Ledger => RewriteNeedsFault
  <2> SUFFICES ASSUME TypeInv, Ledger, NEW r \in Requests
               PROVE  applied[r] <= 1 + faults
    BY DEF RewriteNeedsFault
  <2>1. applied[r] \in Nat /\ faults \in Nat
    BY DEF TypeInv, TypeOK, CountersOK
  <2>2. CASE \A j \in Jobs : ~Names(r, j)
    BY <2>1, <2>2 DEF Ledger
  <2>3. ASSUME NEW j \in Jobs, Names(r, j)
        PROVE  applied[r] <= 1 + faults
    <3>1. Balanced(r, j)
      BY <2>3 DEF Ledger
    <3>2. Cardinality(Bearers(j)) \in Nat /\ Due(j) \in 0 .. 1
      BY <3>1, FS_CardinalityType DEF Balanced, Due
    <3>3. QED
      BY <2>1, <3>1, <3>2 DEF Balanced
  <2>4. QED BY <2>2, <2>3
<1>4. QED
  BY <1>1, <1>2, <1>3, TypeInvariant, WorkInvariant, RequestMirrorsJob, RequestHasOneJob, PTL DEF Spec
=============================================================================
