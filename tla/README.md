# TLA+ models of the SIMOES management application

This directory holds formal models of the management application kept in this
repository (`src/` in the paths below): TLA+ modules translated from its
TypeScript and Python sources, TLC configurations that check them on small
instances, and proofs checked by TLAPS. `PROJECT.json` lists the parts, the
runs, which lines every definition stands for, the hazards the properties are
aimed at, and the theorems.

## 1. The system

| Part | Sources | State it keeps | What is hard about it |
|---|---|---|---|
| SNMP jobs | `apps/api/src/snmp`, `apps/snmp/src/{index,poll,set,locks,client,log}.ts` | `SnmpJob`, `SnmpWriteRequest`, `SnmpSnapshot`, `SnmpDrift`, `SnmpDeviceConfig`; BullMQ queue `snmp`; a Redis lock per device | two processes, a queue that redelivers, a lock with a TTL, a device that may apply a write and not answer |
| SNMP traps | `apps/snmp/src/{traps,host-agent}.ts` | `SnmpTrapEvent`, enrollments, sockets, the credentials the receiver holds, the override file of Docker Compose | datagrams lost and repeated, credentials and addresses that change under open sockets, events queued again after a restart |
| Credentials | `packages/snmp-core/src/crypto.ts`, `apps/api/src/{snmp,netapp}` | envelopes, the keyring file | rotation without a lock, secrets that must differ |
| Rack placement | `apps/api/src/infrastructure/{rack-placement,infrastructure.service,bulk-update}.ts` | `Rack`, `Device` (rack, first unit, height, status) | several writers of one relation with different isolation levels and different ideas of what occupies a slot |
| Topology | `apps/api/src/topology` | `TopologyMap` (revision), nodes, links, `DeviceConnection` | serializable transactions over exclusive ports, optimistic revisions |
| Operational alerts | `apps/api/src/operations` | `OperationalAlert`, marks of users, rules, maintenance windows; Redis Pub/Sub | a 10 s reconciler in every API process, operators who decide meanwhile, events that are lost |
| Inventory quality | `apps/api/src/{inventory-quality,audit}`, `settings/maintenance.service.ts` | `InventoryFinding`; queue `maintenance` | the rows change while the rules run; job ids that are taken |
| IPAM | `apps/api/src/ipam` | subnets, VRFs, addresses, hosts | checks and writes in different statements, signed arithmetic |
| Discovery | `apps/api/src/discovery`, `ipam.service.ts` | `DiscoveryJob`, results, schedules; queue `discovery` | a scan that outlives its schedule or its process |
| Roles and access | `apps/api/src/{auth,access,settings}`, the `*-access.service.ts` files | `User`, `RoleRequest`, access groups; the roles in Keycloak | one decision recorded in two systems; a decision computed in three places |
| NetApp, agents, setup, dashboard | the directory of each under `apps/api/src`, `apps/linux-agent`, `apps/windows-agent` | their own rows | slow reads, late heartbeats, rows made by whoever comes first |
| Web application | `apps/web` | the state of each page, its URL, the browser's storage, tokens | handlers that go on after an await with what was selected before it |

The API (NestJS) and the SNMP service are separate processes. They share
PostgreSQL (through Prisma), Redis (BullMQ queues, device locks, Pub/Sub) and
nothing else; the web application talks to the API over HTTP and a server-sent
stream. Keycloak issues the tokens and holds the roles. All containers restart
`unless-stopped` (`docker-compose.yml`). Prisma transactions run at
PostgreSQL's default Read Committed unless the code asks for Serializable, which
it does in two places (placing a device, and connecting topology ports).

What goes wrong in such a system goes wrong between two awaits: in a handler of
the API another request, in a worker a redelivery or a restart, in a page of the
browser another click. The 40 hazards of `PROJECT.json` name the lines.

## 2. Plan

1. `SnmpJobs`, `DeviceMutex`: the job pipeline and the promise of its lock. **Done, proved.**
2. `RackPlans`, `RackDrops`, `RackPlacement`: the placement algorithm and the
   transactions that use it. **Done, proved.**
3. `TopologyConnections`: exclusive ports under Serializable, revisions. **Done, proved.**
4. What works on its own (`MCBackground`): alerts, quality, the event stream,
   traps, their sockets and listeners, discovery. **Done; the safety proved.**
5. What administrators do (`MCAdministration`): roles, sign-in, access,
   credentials, subnets, address plans. **Done, proved.**
6. The pages of the web application (`MCTopologyConnections`). **Done, proved.**

Left: deleting a device together with its SNMP rows; rack and room deletion; the
mutual exclusion of the SNMP lock in terms of time (how long an overrun must be
to break it); a refinement of `TopologyConnections` to an atomic specification
of connecting and disconnecting.

## 3. Modules

| Module | What it is |
|---|---|
| `DeviceMutex`, `SnmpJobs` | what the lock of a device promises; the job pipeline: API, queue, lock, workers, device |
| `RackPlans`, `RackDrops`, `RackPlacement` | the placement algorithm as operators; drops one after the other, with the loop of the source; concurrent requests |
| `TopologyConnections` | concurrent requests over maps, connections and ports |
| `OperationalAlerts`, `AlertStream`, `OperationsViews` | the reconciler; the events that tell a panel; what a user is shown and has read |
| `QualityFindings` | rules, findings, and what triggers the rules |
| `TrapPipeline`, `TrapSockets`, `ListenerBindings` | notifications and enrollments; the sockets of the receiver; the ports of its container |
| `DiscoveryScans` | scans, schedules, the worker, the review |
| `CredentialVault` | sealed secrets and the rotation of keys |
| `RoleAdministration`, `SignIn`, `AccessScopes` | roles in Keycloak; the rows a token writes; who may do what where |
| `IpamSubnets` | IPv4 arithmetic, subnets and VRFs, the plan of free addresses |
| `SnmpMetrics`, `LinuxAgents`, `NetAppSnapshots`, `SetupSettings` | readings and rates; heartbeats; snapshots of storage; the first use |
| `Session`, `TopologyPage`, `InfrastructurePage`, `RackView`, `PortLayouts`, `IpamPage`, `DiscoveryPage`, `DashboardLayouts`, `GlobalSearch`, `Translator` | the pages of one browser tab |
| `MC*` | constants, symmetry and sums of components for TLC |
| `*_proofs` | theorems: of the modules they are named after, of the parts of `MCBackground` and `MCAdministration`, of the pages (`Pages_`, `Screens_`) |

`SnmpJobs` and `RackView` instantiate `DeviceMutex` and `RackPlans`; `RackDrops`
and `RackPlacement` extend `RackPlans`. The other components share no variable:
in the code they meet in rows none of the properties relates, and a page is put
together with as much of its server as it needs to be answered. The `MC` modules
add such components up: a behaviour chooses a `part` at its start and moves that
one alone, so that one run explores each of them.

Three conventions hold everywhere. An action is one statement of the database,
one message, or one synchronous piece of a handler: whatever the code does
between two awaits. Names of variables, statuses and handlers are those of the
source. Where a property is about what somebody had seen, or had been overtaken
by, a *ghost* variable keeps it; the comment at its declaration says so, and no
guard reads it but the bounds of section 4.

### 3.1 SnmpJobs

State: the rows (`job`, `request`, `snapshot`, `drift`), the configuration
(`enabled`, `credentials`), the queue (`entry`), the Redis keys (`lock`), a
program counter per handler slot of the workers (`pc`, with the delivery, the
job, the error and the transaction it holds), one per API request (`callPc`),
and, as history, how often the values of a request reached the device
(`applied`) and how often something crashed (`faults`).

| Actions | Code |
|---|---|
| `UpsertConfig`, `CreateCredential`, `DeleteCredential` | `snmp.service.ts`, the operations of the same names |
| `PollCheck`, `PollCreate`; `TestCreate`; `PreviewWrite`; `ExecuteCheck`, `ExecuteClaim`, `Enqueue` | `poll`, `testCredential`, `previewWrite`, `executeWrite`: one action per await |
| `Start`, `Recover`, `Take` | `index.ts`: start of a worker, `recoverPendingJobs`, the processor |
| `Scheduled`, `Load`, `Configure` | the beginnings of `PollProcessor.scheduled`, `test` and `SetProcessor.run` |
| `AcquireLock`, `ScheduledBusy`, `ReleaseLock`, `Expire` | `locks.ts`: SET NX PX, its failure, the compare-and-delete, the TTL |
| `Begin`, `Probe`, `CreateSnapshot`, `DeleteDrifts`, `CommitDrifts`, `Finish`, `Fail`, `AfterAction` | `poll.ts`: each database call and the session with the device |
| `Preflight`, `Apply`, `Verify` | `set.ts` |
| `Settle`, `Disowned`, `Stalled`, `Evict`, `Tick`, `LoseLease` | BullMQ, as the code uses it |
| `Crash` | a container that stops; `Start` is the restart |

The device is a nondeterministic answer: it applies a write and answers, applies
it and does not answer, or does neither. Values, OIDs, snapshots and drifts are
identified with the job they come from. `PublicErrorCode` keeps of the error
messages what decides the outcome: net-snmp reports a lost answer as "Request
timed out", and the code looks for `/timeout/i`.

### 3.2 RackPlans, RackDrops, RackPlacement

`Plan` states `planRackPlacement` as conditions (which displacement, which swap);
`RackDrops!LoopPlan` is the loop of the source with its sorted order and its
accumulator, and `PlanIsTheLoop` compares the two on every layout.

`RackPlacement` has one `row` per device and, for each request, the statement it
is about to execute (`writes`, `columns`), the racks it has read when it is
Serializable (`reads`), the rows others have written since (`missed`) and
whether another Serializable request has changed what it read (`rival`).
`CreateInRack`, `CreateInSite`, `Import`, `Update`, `Edit` (an update that names
no rack), `Place`, `BulkMove`, `BulkStatus`, `BulkUnrack` and `BulkNext` are the
validations of the operations, `Commit` and `Fail` the end of their statement,
`Retire` the confirmed retirement. The onboarding of a device found by SNMP
validates and creates in the same two steps as `createDevice`. Heights are any
non-zero integers, since `CreateDeviceDto` takes them; negative ones pass the
validation of the code and of the model alike.

### 3.3 TopologyConnections

`map`, `wire` and `shown` are the rows; `ask` is the request of each client, with
the revisions it has read; `begun`, `last` and `rival` belong to the running
transactions. Each method of `topology.service.ts` that writes is an `Ask...`
(reads and validation before the transaction), for those whose transaction
reads, a `Begin` (its snapshot), and a `Commit...`. `Conflict` is what
PostgreSQL refuses two concurrent Serializable transactions. Left out: requests
that carry a revision older than the one they read (they change nothing);
deadlocks between transactions that lock maps in different orders, which
PostgreSQL ends by a rollback, that is `Fail`; `deleteInterface`, which sets
ports to null and so only frees them; names, viewports, types, labels and access
checks.

### 3.4 What works on its own

| Module | State | Actions and the code |
|---|---|---|
| `OperationalAlerts` | `cause`, `alert` rows by dedupKey, a `pass` per process | `ReadExpired`, `ReopenExpired`, `Collect`, `LookUp`, `UpsertRead`, `UpsertWrite`, `ReadStale`, `ResolveStale`: the awaits of `reconcile`, `upsert` and `reconcileSource`; `AbortPass`; operators acknowledge, snooze and resolve between any two |
| `QualityFindings` | the facts that are `true`, `finding` rows, a `run` per runner, the job that triggers | `Mutate` (an audited write, `audit.service.ts`), `Daily`, `Ask`, `TakeTrigger`; `Detect`, `ReadFinding`, `WriteFinding`, `ReadUndetected`, `ResolveUndetected`; `Review` |
| `AlertStream` | `version` of the alerts, Redis links, what the `panel` shows | `Publish` (none from the maintenance worker), `Cut`, `Reconnect`; `Connect`, `HearEvent`, `Heartbeat`, `Poll`, `Arrive` of `use-operational-events.ts` |
| `TrapPipeline` | `event` rows, `trapJob`, what `persist` has read, the `receiver`'s secrets, the `enrollment` | `ReadSecrets`/`ApplySecrets`; `Arrives` to `NoteEvent`, the awaits of `persist`; `TakeTrap`, `ProcessTrap`, `BreakTrap`, `Recover`; the operations on enrollments |
| `TrapSockets` | addresses, `sockets`, what `refresh` remembers and does next | the awaits of `refresh`: interfaces and choice are read before sockets are closed and opened |
| `ListenerBindings` | the choice, the `override` file, the ports of the `container` | the statements of `performRefresh` in `host-agent.ts`, with a Compose that fails before or after it acted |
| `DiscoveryScans` | `scan` and `result` rows, jobs, the schedule in two places and the scheduler | `AskScan`, `AddScan`, `SwitchRow`, `SwitchScheduler`, `ReviewResult`; the worker from `TakeTick` and `TakeScan` to `EndScan`, with `TickBreaks`, `ScanBreaks` and `WorkerDies`; `abandoned` is a history of the rows that a failure has left active without a job |

### 3.5 What administrators and planners do

| Module | State | Actions and the code |
|---|---|---|
| `RoleAdministration` | Keycloak's `direct` and group roles, `request` rows, what was `told`, the `task` at each desk | each call to Keycloak or the database in `role-request.service.ts` and `keycloak-admin.service.ts` is a step |
| `SignIn` | `accounts`, tokens, rows `User` and `UserRole` | `Verify`, `FindByExternal`, `FindByName`, `Rename`, `Adopt`, `Upsert`, `CutRoles`, `FillRoles`: the statements of `syncUser`, for requests side by side |
| `AccessScopes` | roles, groups, assignments, rules | the decisions as operators, one per place of the code (`...Asserts`, `Visible...`, `Offered...`), compared by `DecisionsAgree`; edits check in one step and write in another |
| `CredentialVault` | the envelopes (`vault`), the keyring, the advisory lock, calls | `Enter`, `Scan`, `Store`; `ReadEnrollment`, `AcceptSecret`; `ReadVault`, `RewrapRow`; `ActivateKey`, `TakeKeyOff` |
| `IpamSubnets` | `subnet` and `vrf` rows; the addresses of one subnet | `CheckVlan`, `CheckOverlap`, `WriteSubnet` as steps; `UsableGaps`, the loop of `calculateIpv4SubnetPlan` |

### 3.6 The pages

A page is its state (`useState`, URL, storage), a synchronous action per event
handler, and a record for every call under way that holds what the handler
closed over; answers come in any order, fail, or never come. Rows of the server
change meanwhile, by this page and by `OthersWrite`, `OthersSaveLayout`,
`OthersPlace` and the like.

| Module | Hazard it is about |
|---|---|
| `Session` | initialisation, refresh and the timer of the gate race; a request waits for its token |
| `TopologyPage` | one timer and one list of pending positions for whichever map is selected |
| `InfrastructurePage` | the selection kept three times, restored when rows arrive; editors over rows that change; and the import of devices: choose, map, preview, confirm |
| `RackView` | several plans asked for before the first arrives; rows read again under a plan |
| `PortLayouts` | pointer, keys and numbers on the same ports; detection for another model |
| `IpamPage` | panels of an address and a host whose forms outlive what they were filled with |
| `DashboardLayouts` | layouts that come late or are saved by others; find and create in two statements |
| `DiscoveryPage` | a schedule panel and a dialog that keep the subnet of the site before |
| `GlobalSearch` | requests given up, which still answer |
| `Translator` | an observer that remembers the first text of each node; a language set by three sources |
| `SnmpMetrics` | counters that wrap, restart or change width; the lines drawn over missing polls |
| `LinuxAgents` | heartbeats in flight over an enrollment or a revocation; ages of tokens and beats |
| `NetAppSnapshots` | a slow reading of a cluster over a new configuration |
| `SetupSettings` | a row that nothing keeps single, read by `findFirst` |
| `OperationsViews` | marks written after the alert was raised again; the bell; a summary read in several statements |

## 4. Runs

Every run has `CHECK_DEADLOCK FALSE`: ids and counters are bounded, and an
instance that has used them, and in which nothing is pending, has nothing left
to do. What must not stop is stated as liveness.

| Run | Instance | What it shows |
|---|---|---|
| `writes` | 2 jobs, 1 write request, 2 clients, 2 handlers, 1 fault | the lock excludes; drifts come from one snapshot; one job per request however many operators submit it; a device is written again only after a fault |
| `shared` | scheduler, 1 job, 1 request, 2 handlers of which one has writes disabled, 3 configuration changes, overruns | request and job never contradict each other; COMPLETED means applied; RUNNING means somebody works on it; the compare-and-delete never frees somebody else's key |
| `ends` | scheduler, 1 job, 2 handlers, 1 fault, fairness | locks are freed, deliveries end, the pipeline implements `DeviceMutex` |
| `retry` (violation) | 1 request, 2 handlers, 1 fault | a crash after the write makes BullMQ deliver it again, and it is written again |
| `uncertain` (violation) | 1 request, no fault | a write that may have been applied ends FAILED, not NEEDS_ATTENTION |
| `rack_mixes` | 3 devices of 1 or 2 units, racks of 2 and 1 units, 2 clients; three mixes: moves, edits, bulk | positions are validated against everything the request could see; two placements never collide; only edits without a rack leave the validated slots |
| `rack_unsized` (violation) | 2 devices, 1 client: create, place | a device placed without a height is invisible to the next validation |
| `rack_reactivated` (violation) | 2 devices, 1 client: create, place | placing a retired device makes it ACTIVE |
| `topology` | 2 maps, 2 connections, 2 devices, 1 port, 2 clients; and each page in turn | ports are exclusive, links join nodes, revisions number maps; what a page shows, sends and saves belongs together (`PagesHangTogether`) and is so (`WhatIsToldIsTrue`) |
| `background` | 7 components in turn, fairness | alerts, findings, panel, receiver and listeners catch up; traps end, and so do scans but the `abandoned`; an alert is resolved only when its cause was gone; one device per address |
| `administration` | 7 components in turn | requesters hear once; roles come from one token; secrets differ; decisions agree; plans of addresses and of racks are exact; what a race can break needs one |
| `signed` (violation) | the address plan of a 3-bit space | an address outside a subnet of the upper half is recorded in it |

`PagesHangTogether` and `WhatIsToldIsTrue` are conjunctions of the properties of
the pages, guarded by the part that moves: each conjunct (`SelectionStaysInSite`,
`PlacedAsShown`, `ImportIsAsPreviewed`, `SnapshotsAreOwn`, `StateIsTrue`, ...) is
defined and explained in the module of its page.

### Why the bounds are enough to be interesting

- Two handlers, two clients and one device are what a race needs. Two jobs let a
  poll meet a poll and a redelivery meet the other delivery. For a poll to meet a
  write a device is enabled and given both credentials, `MaxChanges = 3` in
  `writes`: that holds too (9.2 million states), but takes more than five minutes,
  so that the run keeps to two and leaves that meeting to the theorems
  (`LockExcludes`). One fault suffices for every single crash or lost lease, at
  every point. `MaxStalled = 1` is BullMQ's default.
- Counters are bounded in the guards, each by a constant of its own (`MaxFaults`,
  `MaxChanges`, `MaxTurns`, `MaxDecisions`, `MaxAborts`, `MaxMutations`,
  `MaxReviews`, `MaxVersions`, `MaxCuts`, `MaxRequests`, `MaxLost`, `MaxCrashes`,
  `MaxSwitches`, `MaxFailures`, `MaxNicTurns`, `MaxSocketFaults`, `MaxTasks`,
  `MaxSealed`, `MaxEdits`, `MaxWritings`, `MaxAddresses`, `MaxTokens`,
  `MaxRevision`, `MaxTime`, `MaxKept` and the like), so that the theorems hold
  with them at any value.
- `RackDrops` starts in every layout, overlapping ones included, so that chains
  of displacements of three devices, swaps between racks and refusals all
  occur. In `rack_mixes` heights 1 and 2 in a rack of two units give all the
  ways two devices can overlap, and the second rack the swaps; edits and bulk
  requests touch two devices in the first rack.
- One contested port, two connections and two clients are what `PortsExclusive`
  needs. `FewWrites` keeps two maps at three revisions in all: each can be
  changed under a request, one of them once more.
- 32-bit arithmetic is done with 3 bits (addresses) and with `Wrap = 2`
  (counters): both have a sign bit, a boundary and a value on each side of it.
- Pages get two sites, a building on each, one room, one rack and one device
  where the other site needs none; one call under way where a second one adds
  nothing but another order of the same two answers, two or three elsewhere.
  `FewMoves` and `FewTurns` bound the moves in racks and the rules of alerts.
- Once a page is in a state its properties expressly excuse, there is nothing
  more to say of it, and the run goes no further there: after a drag before the
  first answer (`hurried`), an answer for a site that was left (`late`), a
  layout lost or late (`unsettled`), or a snapshot shown under another site
  (`misplaced`). The theorems do go on, where the properties say something.
- What the bounds leave out, the theorems of section 6 cover.

`SYMMETRY` is used over ids that the code treats alike, in runs without
liveness only. In `shared` the handlers differ and are not permuted. In
`topology` and `administration` parts share interchangeable values, as the
comment there says.

### Violations

Each of the five runs that end in a violation states a sentence of the
repository's documents or comments; `PROJECT.json` quotes it under `findings`.
The rack ones have other causes too: `NoOverlap` also fails with `Operations =
{"create", "edit"}` (an edit that names no rack moves a device onto another
one), and with `{"create"}` and two clients (two creations validate the same
free slot, at Read Committed). `SlotsAreValidated` says exactly which of these
can happen.

### Disagreements met without a run

Properties are stated so as not to deny what the code does; where that is not
what a text says, or what a reader would expect, it is noted here.

- *SNMP.* Rotation writes back a wrapped key it read before the secret was
  replaced (`snmp.service.ts:269` against `docs/adr-001-snmp-component.md:21`).
  `set.run`'s promise is not awaited, so the catch for `SNMP_DEVICE_BUSY` never
  runs (`index.ts:44`). After a restart of a device 32-bit counters give a rate,
  though the page says that a reset gives none (`snmp-page.tsx:99`).
- *Topology.* A connection outlives its last link when its two last maps drop it
  at once (`topology.service.ts:189`). A map that comes to show a connection
  while that is updated or deleted keeps its revision (`:233`, `:264`), although
  `context.md` says that every associated map's is incremented. `replaceNodes`
  leaves links whose ends are no longer nodes. The page says that local
  positions were kept after it has dropped them, and a retry after a change of
  maps writes the nodes of one to the other (`topology-page.tsx:199-213`).
- *Discovery and IPAM.* A scan may stay PENDING or RUNNING for ever, and the
  partial unique index then keeps its subnet busy: nothing but deleting the
  subnet takes the row away. It happens when the queue refuses the job
  (`ipam.service.ts:161`); when a statement outside the try of `processJob` fails,
  before it (`discovery.worker.ts:31-43`), in its catch (`:66-67`), or the update to
  COMPLETED, which is returned without an await, so that the catch does not meet
  it (`:63`): jobs have no `attempts`; when a worker dies twice under a scan that
  was asked for; and when it dies once under a scheduled scan, whose job names the
  subnet only (`:23`), so that handed out again it asks for another row (`:29`),
  which the index refuses. `ScansAreHandled` says that every other scan, asked for or
  scheduled, ends, and the theorem `RowsAreAbandonedByFailures` that these are the
  only ways.
  The worker ignores the schedule of the scan-config form
  (`discovery.worker.ts:24-25`). A host may be listed and not be opened
  (`ipam-access.service.ts:75-80`). `cidr` is unique globally
  (`docs/architecture.md:16` says per site and VRF). The schedule panel and the
  scan dialog keep the subnet of the site before, while the selector shows the
  first of the new one. Forms of addresses go to the subnet selected when they
  are submitted; the panels of a host and of an address keep fields of another.
- *Alerts and quality.* Mutations are not reconciled when a failed job keeps its
  id (`audit.service.ts:42`). `readAll` marks alerts that rules or maintenance
  hide, and one raised between its read and its write. A panel may miss a change.
- *Infrastructure.* The catalogue rewrites edited models at every start
  (`infrastructure.service.ts:123-130`). A late answer puts the site that was
  left back in the URL. The model form is drawn beneath every dialog the editor
  does not know (`entity-editor.tsx:28-32`). A detection that outlives its
  dialog draws one model's ports for another; grids take centres for left edges
  (`infrastructure.service.ts:332`, `utils.ts:120-132`). A late preview of an
  earlier drop replaces the plan, or opens one that was cancelled.
- *Settings and sign-in.* First requests that run together make several rows of
  settings (`setup.service.ts:13-14`). A user row is adopted by its name without
  a check at the write (`auth.service.ts:38-42`). Identity slower than 10 s
  leaves the error for good; a refresh that fails for the network signs out.
- *NetApp, agents, dashboard, search.* A new configuration keeps the old
  cluster's snapshot, and a refresh under way writes one. The Linux agent wants
  200 where the API answers 201 (`linux_heartbeat_agent.py:35`); revoking may
  kill a newer token. "Completa" leaves a right-column widget at half width
  (`dashboard-page.tsx:79-101`); a 409 on saving says nothing. A palette request
  that was given up can wipe what a newer one shows.
- *Translation.* The observer puts a text back that was changed in place.

## 5. Fairness

Two runs assume any; operators, schedulers of crashes, the network and other
people owe nothing anywhere, and nothing is assumed of faults but their number.

`ends` (`FairSpec`): handlers are weakly fair: the process runs them, net-snmp's
timeout ends every exchange with a device, and Redis and PostgreSQL answer.
`Start` is weakly fair because the containers restart `unless-stopped`. `Expire`
is Redis's PX, `Stalled` BullMQ's periodic check, `Recover` and `Enqueue` the
next statement of a running function. `Take` is strongly fair per delivery: the
wait list is first in, first out, so a delivery is not passed over for ever, but
between two moments in which a worker is free there may be none.

`background` (`WorkSpec`), all weak:

| Formula | What is fair | Why |
|---|---|---|
| `AlertWork` | each statement of a pass | `setInterval` of 10 s; statements end |
| `QualityWork` | the worker takes its job and goes on; the daily scheduler | BullMQ and its job scheduler |
| `StreamWork` | publishing, reconnecting, the heartbeat, the panel's stream, its polling, the answers | timers and retries of ioredis and of `use-operational-events.ts` |
| `TrapWork` | the refresh of secrets, the worker's jobs, the recovery timer | `index.ts`: every 30 and 60 s |
| `DiscoveryWork` | requests, the schedule, the worker | as for quality |
| `ListenerWork`, `SocketWork` | the loop of the host agent; the refresh of the receiver | every 30 s |

## 6. What is proved

All theorems hold for every value of the constants that meets the `ASSUME`s of the
modules: that the markers of absence are none of the values they mark, that ids
of different kinds differ, that racks have at least one unit, that ports belong
to devices, that bounds are natural numbers, and, of `PortLayouts`, that a model
has at most 124 ports on an image of 200 steps (in a grid of more, ports get
narrower than a step). TLC evaluates each of
them on the runs. Every proof is of the form: an inductive invariant, one step
per action and under it one per conjunct the action can disturb.

**SnmpJobs_proofs.** `TypeInv` is `TypeOK` with the references between tables:
handlers, deliveries and calls only name rows that exist. `LockInv` says that,
without overruns, the handler inside `withLock` owns the key; it is what makes
`MutualExclusion` inductive, since `AcquireLock` only looks at the key
(`LockExcludes`). Of all steps only an acquisition, a release, a crash and the expiry write a key
(`LockWriters`), from which `KeysGoByTheirOwners` follows even with overruns.
`ImplementsSafeMutex` maps every step to `Enter`, `Leave` or a
stutter of `DeviceMutex`. `RequestMirrorsJob` and `RequestHasOneJob` are inductive
over `TypeInv`: every transaction that touches one of the two rows touches the
other, and `ExecuteClaim`'s compare-and-set lets one submission through.
`OneSnapshotOfDrifts` needs `DriftInv`: what a handler is going to commit is all
from its own snapshot, and there is nothing pending from another one between its
delete and its commit. `RunningIsHandled` needs `WorkInv`: a delivery that is
held, a job that runs and a handler that works on it come together or not at
all. `CompletedIsApplied` needs that a handler that verifies has applied
(`VerifiesApplied`). `RepeatsAreFaults` is an account (`Ledger`): every way to
write a request again is borne by a delivery or a handler (`Bearers`), each
fault pays for one more (`Owed`, `Due`), and the two sides balance.

**RackPlans_proofs, RackPlacement_proofs.** `PlanIsSound` is about the algorithm
alone: whatever the layout, a plan moves the dropped device, keeps heights,
stays inside the racks, and leaves no moved device overlapping anything. The
inductive invariant `IInv` (`SoundWrite`) says what a request knows between its
validation and its write: its new slots are clear of every row but those written
since (`missed`), or it is going to be refused (`rival`). `PositionsAreValidated`
is the action property this gives at the commit.
The module opens with what the library states over an operator and these provers
cannot instantiate, stated over sets: `LeastNat` (a nonempty set of naturals has a
least element, from the well-foundedness of `<`), `SetInduction`, and `LoopRuns`
(a loop that can always take its next turn has a run of every length). Proofs
about loops of the code stand on these.

**TopologyConnections_proofs.** `Inv` adds to `TypeOK` and `PortsExclusive` that a
request stays about rows that existed (`AsksOK`), that ports found free are free
until the commit unless the transaction is a rival of one that has committed
(`ChecksHold`), and that what a request read of its maps holds as long as their
revisions are the ones it read (`MapsHold`). `PortsStayExclusive`,
`LinksAlwaysJoinNodes` and `RevisionsNumberMaps` follow. The proof of the first
uses, of PostgreSQL, only that it refuses what `Conflict` describes.

**Background_proofs.** `ResolvedWhenGone`: a pass that has looked at every cause
has found exactly the live ones (`AlertInv`), so what it resolves was gone.
`AddressHasOneDevice`: an enrollment that can be accepted stands for an address
no device has (`TrapInv`), through acceptances and onboardings that overlap.
`DecisionsAreKept`: a reviewed result is never written over by the worker
(`DiscoveryInv`). `RowsAreAbandonedByFailures`: a tick that is not taken names no row
and the job of a scan is done after its row (`AbandonInv`), so that a row is active
without a job only after one of the failures section 4 lists. `SocketsRemembered`: between two steps of a refresh the
receiver knows the sockets it has (`SocketsInv`). `BackgroundTypes` joins the
seven components.

**Administration_proofs.** `SecretsStayDistinct`: a transaction that stores a secret
holds the lock from its scan to its write (`HoldsLock`), so what it found free is
free (`FoundFree`), and what a rotation or an acceptance has read is an envelope
that was sealed with the same secret (`ReadForGood`). `HeardOnce`: a request is
told of by the one desk that has claimed it (`RowsStand`). `AnAdminStays`: an
administrator that a desk counted on is there unless another desk has `raced` it
(`Safe`). `RolesComeFromOneToken`: what a transaction cuts is what it has read of
the row (`CutsAreExact`), unless two crossed. `AccessDecisionsAgree`: permissions
exist for assignments only (`GrantsAreAssigned`), so that the places that compute
a decision from different tables agree. `ClashesAreRaces`: what the checks of a
handler have excluded stays excluded, but for rows written since it began
(`Looked`). `DropsKeepApart` and `DropsSettle` use `PlanIsSound`. `PlansAreLoops`:
in whatever order the loop of planRackPlacement displaces the devices, it makes
the changes of `Plan`, the operator the other theorems are about (a run of the
loop exists by `LoopRuns`, its turns are followed by `SetInduction`); `DropsStay`
states `DropsAreStable` from it and from `DropSettled`. `PlansAreExact`: while the
cursor walks the sorted addresses, the gaps it has written hold exactly the free
addresses behind it, so that the finished plan offers each free address once and
its counts agree with it (`PlanIsExact`), from `PlanTypeOK` alone.

**Pages_proofs.** `SavesAreTold`: a device that is not where it was dropped is owed
by a timer, a request or a call-out, and each of them carries what it owes
(`OwedStands`, `TimerCarries`, `RequestCarries`). `TheSessionHasItsUser`: pages are
open only with a token (`TokenIsThere`, `GateIsShut`), and one refresh is under
way (`OneRefresh`). `AgentsAreTold` bounds the ages of what is in flight
(`RowIsRecent`, `BeatIsRecent`). `OneLanguage`: the document, the language and the
observer (`DocumentInv`, `LanguageInv`). `AlertsAreShown`: `MarkingInv`.
`SummariesAddUp`: what a summary has read so far is of one moment each (`ReadSoFar`).
`SearchesAreShown`: the live request is for what is typed (`LiveIsTyped`).
`SetupsAreSound`: calls know rows that were there (`ReadStands`), and the wizard
what it saved (`WizardKnows`). `SnapshotsAreKept`: readings, the row and the cache
are of their site (`ReadingsHold`, `KeptIsOwn`, `CachedIsOwn`). `TheCardKeepsItsHost`
and `ScansAreOfWhatIsShown`: fields follow what they were filled from
(`FieldsFollow`). `ImportsAreSound`: one call is under way, the rows are those of
the preview, and those checked are in order (`OneIsBusy`, `RowsFollow`,
`CheckedInOrder`). `LayoutsAreShown`: who holds a layout of a revision has seen
that revision (`HeldIsSeen`), and answers are of what they were asked for
(`AnswersAreOf`).

**Screens_proofs.** `SelectionsHangTogether`: what is awaited and what is kept lie
in the site (`AwaitedOfSite`, `KeptInSite`). `OpenedSubnetsHangTogether`:
`HandlersFollow`, `UrlLeads`. `PicturesAreCarriedOut`: a plan that is shown was made
of rows the browser held (`ProposalIsMade`); made again on the same rows it is the
same (`RackPlans_proofs!PlanRepeats`). `PortsStayInPlace`: what will be saved lies
on the image (`HandlersWillSave`, `DrawnWell`). `EachPartSteps` carries each of these
to the sum of the pages, and `PagesAlwaysHangTogether` and
`WhatIsToldIsAlwaysTrue` state the two invariants of the run.

Only model-checked:

- what must happen: `LocksAreFreed`, `DeliveriesEnd`, `AlertsFollowCauses`,
  `FindingsFollowFacts`, `PanelCatchesUp`, `TrapsAreHandled`, `ScansAreHandled`
  (whose `DecisionsStand` is proved),
  `ReceptionFollowsChoice`, and that `SnmpJobs` implements the liveness of
  `DeviceMutex`. Liveness under fairness is out of the prover's reach.
- the lines of a chart in `WhatIsToldIsTrue`, which are computed by recursion over
  the samples and which `WhatIsToldIsAlwaysTrue` excepts (`part # "chart"`). They are
  checked for every input within the bounds.

## 7. What is not modelled

- The parts `PROJECT.json` lists as `not_modelled`, with the reason of each.
  Read-only listings, reports and exports keep no state.
- In the SNMP jobs: deleting a device with its rows, retention of metrics and
  history, the review of drifts, graceful shutdown, and a database that refuses
  a statement in the middle of a handler. `MutualExclusion` and
  `DriftsFromOneSnapshot` are stated for `Overrun = FALSE`: the key's TTL is
  fixed when it is taken (`locks.ts:7`), and a handler that outlives it shares
  the device. `shared` explores that case for the properties that survive it.
- In the racks: columns other than position, height and status, sites of
  devices, deletion of racks. The reads of one validation are taken at one
  moment. A height below one (`dto.ts:32` has no minimum) and an update that
  crosses a retirement (`infrastructure.service.ts:302`) are left out.
- In the addresses: VLANs, hosts, trees of subnets, IPv6.
- In the administration: the creation of accounts, the assignment of findings of
  quality, the shelf of unplaced devices, the language of the setup page.
- Of traps: the limit on their rate and the decoding of their packets.
- Smaller hazards, beyond those `PROJECT.json` lists: `recoverPendingJobs` reads at
  most 500 rows; two concurrent `upsertConfig` may leave a disabled device its
  scheduler, which then wakes a worker for nothing; after a crash a row may stay
  RUNNING, and the next polls of its device are refused (`snmp.service.ts:211`);
  `topology.service.ts:158` replaces the nodes of a map and leaves the links of
  those that are gone, and of two removals at once each may count the link of
  the other (`:189`). What of this is modelled is so without a property.
