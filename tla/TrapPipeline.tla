---------------------------- MODULE TrapPipeline ----------------------------
(***************************************************************************)
(* Traps and informs, from the receiver to PROCESSED, and the enrollment   *)
(* of a device that is not in the inventory yet: apps/snmp/src/traps.ts    *)
(* and index.ts, and the enrollments of apps/api/src/snmp/snmp.service.ts. *)
(*                                                                         *)
(* One address, from which Notices come, all with one secret: that of the  *)
(* enrollment, and of the TRAP credential of the device it becomes.        *)
(***************************************************************************)
EXTENDS Integers

CONSTANTS
  Notices,       \* notifications the device sends
  Informs,       \* those it may send again: informs, with a dedupKey
  Clients,       \* operators who accept the enrollment, or onboard the device
  MaxRequests,   \* enrollments, renewals, revocations (a bound)
  MaxLost,       \* additions to the queue that Redis loses (a bound)
  MaxCrashes,    \* worker crashes, statements that fail, receivers that close (a bound)
  NoEvent        \* no row

ASSUME TrapAssumption == Informs \subseteq Notices

EventRow == [status : {"PENDING", "DISCOVERED", "UNMATCHED", "PROCESSED"}, enrolled : BOOLEAN]
ASSUME NoEventAssumption == NoEvent \notin EventRow

Unread == [at |-> "idle", credential |-> "unread", enrollment |-> "unread"]

VARIABLES
  enrollment,  \* status of the row and whether it has expired; "none": no row
  devices,     \* devices with the address
  credential,  \* the TRAP credential of the address is there, enabled
  event,       \* SnmpTrapEvent rows, by the notification they keep
  handler,     \* what persist has read for a notification
  trapJob,     \* process-trap jobs
  claim,       \* what each operator's request is about to do, and to queue
  receiver,    \* the authorizer, and the refresh that brings it up to date
  used         \* requests, losses and crashes so far

trapVars == <<enrollment, devices, credential, event, handler, trapJob, claim, receiver, used>>

Enrolled == enrollment.status # "none"
Current == Enrolled /\ ~enrollment.expired
Pending(n) == event[n] # NoEvent /\ event[n].status = "PENDING"
Processed(n) == event[n] # NoEvent /\ event[n].status = "PROCESSED"
Use(what, max) ==
  /\ used[what] < max
  /\ used' = [used EXCEPT ![what] = @ + 1]

-----------------------------------------------------------------------------
(* The receiver: refresh, one at a time, by the timer and by request.       *)

\* What reloadCredentials reads once it has cleaned up; a request for a refresh
\* that comes later joins this one.
ReadSecrets ==
  /\ receiver.at = "idle"
  /\ receiver' = [receiver EXCEPT !.at = "read", !.secret = credential \/ Current]
  /\ enrollment' = IF enrollment.expired THEN [status |-> "none", expired |-> FALSE] ELSE enrollment
  /\ event' = IF enrollment.expired
                THEN [n \in Notices |-> IF event[n] = NoEvent THEN NoEvent
                                                              ELSE [event[n] EXCEPT !.enrolled = FALSE]]
                ELSE event
  /\ UNCHANGED <<devices, credential, handler, trapJob, claim, used>>

ApplySecrets ==
  /\ receiver.at = "read"
  /\ receiver' = [receiver EXCEPT !.at = "idle", !.accepts = receiver.secret]
  /\ UNCHANGED <<enrollment, devices, credential, event, handler, trapJob, claim, used>>

\* bind closes the sockets; or the process restarts.
CloseReceiver ==
  /\ Use("crashes", MaxCrashes)
  /\ receiver' = [receiver EXCEPT !.at = "idle", !.accepts = FALSE]
  /\ handler' \in {handler, [n \in Notices |-> Unread]}
  /\ UNCHANGED <<enrollment, devices, credential, event, trapJob, claim>>

-----------------------------------------------------------------------------
(* persist *)

Step(n, h) == handler' = [handler EXCEPT ![n] = h]

Arrives(n) ==
  /\ receiver.accepts /\ handler[n].at = "idle"
  /\ event[n] # NoEvent => n \in Informs
  /\ Step(n, [handler[n] EXCEPT !.at = "match"])
  /\ UNCHANGED <<enrollment, devices, credential, event, trapJob, claim, receiver, used>>

\* Two queries at once, which may see the database before and after a commit.
ReadCredentials(n) ==
  /\ handler[n].at = "match" /\ handler[n].credential = "unread"
  /\ Step(n, [handler[n] EXCEPT !.credential = IF credential THEN "yes" ELSE "no"])
  /\ UNCHANGED <<enrollment, devices, credential, event, trapJob, claim, receiver, used>>

ReadEnrollments(n) ==
  /\ handler[n].at = "match" /\ handler[n].enrollment = "unread"
  /\ Step(n, [handler[n] EXCEPT !.enrollment = IF Current THEN "yes" ELSE "no"])
  /\ UNCHANGED <<enrollment, devices, credential, event, trapJob, claim, receiver, used>>

Matched(n) == CASE handler[n].credential = "yes" -> "PENDING"
                [] handler[n].enrollment = "yes" -> "DISCOVERED"
                [] OTHER -> "UNMATCHED"

\* The unique dedupKey refuses an inform that came before; the reference to an
\* enrollment that has gone is refused, and the notification is lost.
CreateEvent(n) ==
  /\ handler[n].at = "match" /\ "unread" \notin {handler[n].credential, handler[n].enrollment}
  /\ IF event[n] # NoEvent \/ (Matched(n) = "DISCOVERED" /\ ~Enrolled)
       THEN Step(n, Unread) /\ UNCHANGED event
       ELSE /\ event' = [event EXCEPT ![n] = [status |-> Matched(n),
                                              enrolled |-> Matched(n) = "DISCOVERED"]]
            /\ Step(n, IF Matched(n) = "UNMATCHED" THEN Unread
                                                   ELSE [handler[n] EXCEPT !.at = "note"])
  /\ UNCHANGED <<enrollment, devices, credential, trapJob, claim, receiver, used>>

\* Add a job: ignored while the queue knows the id, lost when Redis is away.
Queue(n, lost) ==
  IF lost THEN Use("lost", MaxLost) /\ UNCHANGED trapJob
          ELSE /\ trapJob' = [trapJob EXCEPT ![n] = IF @ = "none" THEN "waiting" ELSE @]
               /\ UNCHANGED used

\* The enrollment is DISCOVERED; or the credential is marked as used, which fails
\* if it has gone, and the job is added.
NoteEvent(n, lost) ==
  /\ handler[n].at = "note"
  /\ Step(n, Unread)
  /\ IF handler[n].credential = "yes"
       THEN /\ IF credential THEN Queue(n, lost) ELSE ~lost /\ UNCHANGED <<trapJob, used>>
            /\ UNCHANGED enrollment
       ELSE /\ ~lost
            /\ enrollment' = IF Enrolled THEN [enrollment EXCEPT !.status = "DISCOVERED"] ELSE enrollment
            /\ UNCHANGED <<trapJob, used>>
  /\ UNCHANGED <<devices, credential, event, claim, receiver>>

-----------------------------------------------------------------------------
(* process, by the worker *)

TakeTrap(n) ==
  /\ trapJob[n] = "waiting"
  /\ trapJob' = [trapJob EXCEPT ![n] = "active"]
  /\ UNCHANGED <<enrollment, devices, credential, event, handler, claim, receiver, used>>

ProcessTrap(n) ==
  /\ trapJob[n] = "active"
  /\ event' = IF event[n].status = "PENDING" THEN [event EXCEPT ![n].status = "PROCESSED"] ELSE event
  /\ trapJob' = [trapJob EXCEPT ![n] = "done"]
  /\ UNCHANGED <<enrollment, devices, credential, handler, claim, receiver, used>>

\* The worker dies, and the job is handed out again; or the transaction fails, and
\* the queue keeps the failed job, with its id.
BreakTrap(n) ==
  /\ trapJob[n] = "active" /\ Use("crashes", MaxCrashes)
  /\ \E to \in {"waiting", "failed"} : trapJob' = [trapJob EXCEPT ![n] = to]
  /\ UNCHANGED <<enrollment, devices, credential, event, handler, claim, receiver>>

\* A bug: only a start recovers.
RecoverAtStart(n) ==
  /\ Pending(n) /\ trapJob[n] = "none" /\ used.lost = 0
  /\ Queue(n, FALSE)
  /\ UNCHANGED <<enrollment, devices, credential, event, handler, claim, receiver>>

\* recoverPending, every minute.
Recover(n) ==
  /\ Pending(n) /\ trapJob[n] = "none"
  /\ Queue(n, FALSE)
  /\ UNCHANGED <<enrollment, devices, credential, event, handler, claim, receiver>>

-----------------------------------------------------------------------------
(* Requests of operators, each followed by a request to refresh.            *)

\* createEnrollment, under the lock of the credential policy.
Enroll ==
  /\ ~Enrolled /\ devices = 0 /\ Use("requests", MaxRequests)
  /\ enrollment' = [status |-> "WAITING", expired |-> FALSE]
  /\ UNCHANGED <<devices, credential, event, handler, trapJob, claim, receiver>>

RenewEnrollment ==
  /\ Enrolled /\ Use("requests", MaxRequests)
  /\ enrollment' = [enrollment EXCEPT !.expired = FALSE]
  /\ UNCHANGED <<devices, credential, event, handler, trapJob, claim, receiver>>

Expires ==
  /\ Current
  /\ enrollment' = [enrollment EXCEPT !.expired = TRUE]
  /\ UNCHANGED <<devices, credential, event, handler, trapJob, claim, receiver, used>>

DeleteEnrollment ==
  /\ Enrolled /\ Use("requests", MaxRequests)
  /\ enrollment' = [status |-> "none", expired |-> FALSE]
  /\ event' = [n \in Notices |-> IF event[n] # NoEvent /\ event[n].enrolled
                                   THEN [status |-> "UNMATCHED", enrolled |-> FALSE] ELSE event[n]]
  /\ UNCHANGED <<devices, credential, handler, trapJob, claim, receiver>>

\* deleteCredential, or disabling it.
RevokeTrapCredential ==
  /\ credential /\ Use("requests", MaxRequests)
  /\ credential' = FALSE
  /\ UNCHANGED <<enrollment, devices, event, handler, trapJob, claim, receiver>>

\* acceptEnrollment and onboardDevice look first, then decide in a transaction.
BeginAccept(c) ==
  /\ claim[c].at = "idle" /\ Current /\ enrollment.status = "DISCOVERED"
  /\ claim' = [claim EXCEPT ![c].at = "accept"]
  /\ UNCHANGED <<enrollment, devices, credential, event, handler, trapJob, receiver, used>>

BeginOnboard(c) ==
  /\ claim[c].at = "idle" /\ Use("requests", MaxRequests)
  /\ claim' = [claim EXCEPT ![c].at = "onboard"]
  /\ UNCHANGED <<enrollment, devices, credential, event, handler, trapJob, receiver>>

\* A bug: what was checked before the transaction is taken to hold still.
AcceptTrusting(c) ==
  LET mine == {n \in Notices : event[n] # NoEvent /\ event[n].enrolled}
  IN /\ claim[c].at = "accept"
     /\ devices' = devices + 1 /\ credential' = TRUE
     /\ event' = [n \in Notices |-> IF n \in mine THEN [status |-> "PENDING", enrolled |-> FALSE]
                                                  ELSE event[n]]
     /\ enrollment' = [status |-> "none", expired |-> FALSE]
     /\ claim' = [claim EXCEPT ![c] = [at |-> "queue", ids |-> mine]]
     /\ UNCHANGED <<handler, trapJob, receiver, used>>

\* The transaction of acceptEnrollment: under the lock of the credential policy
\* it looks again; the enrollment becomes a device and its events PENDING. Of the
\* events that are new, the list to queue, or the update as well, may miss some.
Accept(c) ==
  LET mine == {n \in Notices : event[n] # NoEvent /\ event[n].enrolled}
  IN /\ claim[c].at = "accept"
     /\ IF Current /\ enrollment.status = "DISCOVERED" /\ devices = 0
          THEN /\ devices' = 1 /\ credential' = TRUE
               /\ \E new \in SUBSET {n \in mine : handler[n].at = "note"} : \E late \in SUBSET new :
                    /\ event' = [n \in Notices |->
                         IF n \in mine \ late THEN [status |-> "PENDING", enrolled |-> FALSE]
                         ELSE IF n \in late THEN [event[n] EXCEPT !.enrolled = FALSE] ELSE event[n]]
                    /\ claim' = [claim EXCEPT ![c] = [at |-> "queue", ids |-> mine \ new]]
               /\ enrollment' = [status |-> "none", expired |-> FALSE]
          ELSE /\ claim' = [claim EXCEPT ![c].at = "idle"]
               /\ UNCHANGED <<enrollment, devices, credential, event>>
     /\ UNCHANGED <<handler, trapJob, receiver, used>>

\* onboardDevice does not look at enrollments.
Onboard(c) ==
  /\ claim[c].at = "onboard"
  /\ claim' = [claim EXCEPT ![c].at = "idle"]
  /\ IF devices = 0 THEN devices' = 1 /\ credential' = TRUE
                    ELSE UNCHANGED <<devices, credential>>
  /\ UNCHANGED <<enrollment, event, handler, trapJob, receiver, used>>

QueueAccepted(c, n, lost) ==
  /\ claim[c].at = "queue" /\ n \in claim[c].ids
  /\ Queue(n, lost)
  /\ claim' = [claim EXCEPT ![c].ids = @ \ {n}]
  /\ UNCHANGED <<enrollment, devices, credential, event, handler, receiver>>

\* All queued, or the process has stopped on the way.
EndAccept(c) ==
  /\ claim[c].at = "queue"
  /\ claim' = [claim EXCEPT ![c] = [at |-> "idle", ids |-> {}]]
  /\ IF claim[c].ids = {} THEN UNCHANGED used ELSE Use("crashes", MaxCrashes)
  /\ UNCHANGED <<enrollment, devices, credential, event, handler, trapJob, receiver>>

TrapInit ==
  /\ enrollment = [status |-> "none", expired |-> FALSE]
  /\ devices = 0 /\ credential = FALSE
  /\ event = [n \in Notices |-> NoEvent]
  /\ handler = [n \in Notices |-> Unread]
  /\ trapJob = [n \in Notices |-> "none"]
  /\ claim = [c \in Clients |-> [at |-> "idle", ids |-> {}]]
  /\ receiver = [at |-> "idle", secret |-> FALSE, accepts |-> FALSE]
  /\ used = [requests |-> 0, lost |-> 0, crashes |-> 0]

TrapNext ==
  \/ ReadSecrets \/ ApplySecrets \/ CloseReceiver
  \/ \E n \in Notices :
       \/ Arrives(n) \/ ReadCredentials(n) \/ ReadEnrollments(n) \/ CreateEvent(n)
       \/ (\E lost \in BOOLEAN : NoteEvent(n, lost))
       \/ TakeTrap(n) \/ ProcessTrap(n) \/ BreakTrap(n) \/ Recover(n)
  \/ Enroll \/ RenewEnrollment \/ Expires \/ DeleteEnrollment \/ RevokeTrapCredential
  \/ \E c \in Clients :
       \/ BeginAccept(c) \/ BeginOnboard(c) \/ Accept(c) \/ Onboard(c) \/ EndAccept(c)
       \/ \E n \in Notices, lost \in BOOLEAN : QueueAccepted(c, n, lost)

TrapSpec == TrapInit /\ [][TrapNext]_trapVars
-----------------------------------------------------------------------------
(* Properties *)

\* Rows, handlers and jobs keep their shapes; a job is for an event there is.
TrapTypeOK ==
  /\ enrollment \in [status : {"none", "WAITING", "DISCOVERED"}, expired : BOOLEAN]
  /\ credential \in BOOLEAN
  /\ event \in [Notices -> EventRow \cup {NoEvent}]
  /\ trapJob \in [Notices -> {"none", "waiting", "active", "failed", "done"}]
  /\ \A n \in Notices :
       /\ trapJob[n] # "none" => event[n] # NoEvent
       /\ event[n] # NoEvent /\ event[n].enrolled => Enrolled /\ event[n].status = "DISCOVERED"
  /\ \A c \in Clients : \A n \in claim[c].ids : event[n] # NoEvent

\* However two operators accept one enrollment or onboard its device, the address
\* gets one device.
OneDevicePerAddress == devices <= 1

\* An event that is PENDING comes to be PROCESSED, whatever additions to the queue
\* are lost and wherever a process stops, unless its job failed and is kept.
PendingTrapsAreProcessed ==
  \A n \in Notices :
    Pending(n) ~> (Processed(n) \/ trapJob[n] = "failed")

\* Once the secret is known, or revoked, for good, the receiver lets the device's
\* notifications in, or keeps them out, for good.
ReceiverFollowsSecrets ==
  /\ <>[](credential \/ Current) => <>[]receiver.accepts
  /\ <>[](~credential /\ ~Current) => <>[]~receiver.accepts

\* Both: what the device sends is let in when it should, and then processed.
TrapsAreHandled == PendingTrapsAreProcessed /\ ReceiverFollowsSecrets
=============================================================================
