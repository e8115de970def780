---------------------------- MODULE DiscoveryPage ----------------------------
(***************************************************************************)
(* The discovery page (apps/web/features/discovery/discovery-page.tsx and  *)
(* discovery-schedule-panel.tsx): the panel that edits the schedule of one *)
(* subnet, the dialog that starts a scan, and the dialogs that enroll a    *)
(* device and accept one.  The page follows the active site, and keeps     *)
(* what was chosen on the site before.                                     *)
(***************************************************************************)
EXTENDS Naturals, Sequences

CONSTANTS
  ScanSites,
  ScanSubnets,   \* the subnets of each site, in their order: a function to sequences
  ScanDevices,   \* pre-registrations, each on a site: a function
  ScanCalls,
  NotChosen,
  NoScanCall

SubnetsOn(s) == {ScanSubnets[s][i] : i \in DOMAIN ScanSubnets[s]}
AllSubnets == UNION {SubnetsOn(s) : s \in ScanSites}

ASSUME ScanAssumption ==
  /\ \A s \in ScanSites : DOMAIN ScanSubnets[s] = 1 .. Len(ScanSubnets[s])
  /\ ScanDevices \in [DOMAIN ScanDevices -> ScanSites]
  /\ NotChosen \notin ScanSites \cup AllSubnets

VARIABLES
  scanSite,      \* siteId
  listed,        \* the site whose subnets the page has (subnetsData)
  panelSubnet,   \* subnetId of the panel
  scheduleFrom,  \* the subnet whose schedule fills the form, or NotChosen
  schedules,     \* the subnets whose schedule is in the cache
  scanSubnet,    \* networkForm.subnetId
  scanDialog,    \* networkModal
  candidate,     \* the pre-registration to be accepted
  scanCalls,
  leftBehind     \* fields that hold a choice made on another site (ghost)

scanVars == <<scanSite, listed, panelSubnet, scheduleFrom, schedules, scanSubnet, scanDialog,
              candidate, scanCalls, leftBehind>>

Offered == IF listed = NotChosen THEN {} ELSE SubnetsOn(listed)

\* A selector shows its first option when its value is none of them.
Selected(n) == IF n \in Offered \/ Offered = {} THEN n ELSE ScanSubnets[listed][1]

Ongoing(what) == \E c \in ScanCalls : scanCalls[c] # NoScanCall /\ scanCalls[c].what = what

ScanInit ==
  /\ scanSite \in ScanSites /\ listed = NotChosen
  /\ panelSubnet = NotChosen /\ scheduleFrom = NotChosen /\ schedules = {}
  /\ scanSubnet = NotChosen /\ scanDialog = FALSE /\ candidate = NotChosen
  /\ scanCalls = [c \in ScanCalls |-> NoScanCall] /\ leftBehind = {}

-----------------------------------------------------------------------------
SwitchScanSite(s) ==
  /\ s # scanSite
  /\ scanSite' = s /\ listed' = NotChosen
  /\ leftBehind' = leftBehind \cup {f \in {"panel", "scan"} :
                                      (f = "panel" /\ panelSubnet # NotChosen)
                                      \/ (f = "scan" /\ scanSubnet # NotChosen)}
  /\ UNCHANGED <<panelSubnet, scheduleFrom, schedules, scanSubnet, scanDialog, candidate, scanCalls>>

\* Each field that is empty takes the first subnet, if the site has one.
SubnetsArrive ==
  /\ listed' = scanSite
  /\ LET first == IF SubnetsOn(scanSite) = {} THEN NotChosen ELSE ScanSubnets[scanSite][1]
     IN /\ panelSubnet' = IF panelSubnet = NotChosen THEN first ELSE panelSubnet
        /\ scanSubnet' = IF scanSubnet = NotChosen THEN first ELSE scanSubnet
  /\ UNCHANGED <<scanSite, scheduleFrom, schedules, scanDialog, candidate, scanCalls, leftBehind>>

\* A schedule in the cache fills the form at once; otherwise the form is hidden
\* until it arrives.
ChooseScheduleSubnet(n) ==
  /\ n \in Offered
  /\ panelSubnet' = n
  /\ scheduleFrom' = IF n \in schedules THEN n ELSE scheduleFrom
  /\ leftBehind' = leftBehind \ {"panel"}
  /\ UNCHANGED <<scanSite, listed, schedules, scanSubnet, scanDialog, candidate, scanCalls>>

ScheduleArrives ==
  /\ panelSubnet # NotChosen
  /\ schedules' = schedules \cup {panelSubnet} /\ scheduleFrom' = panelSubnet
  /\ UNCHANGED <<scanSite, listed, panelSubnet, scanSubnet, scanDialog, candidate, scanCalls,
                 leftBehind>>

ScheduleShown == panelSubnet \in schedules /\ Offered # {}

SendsScan(c, what, about, shown, from) ==
  /\ scanCalls[c] = NoScanCall
  /\ scanCalls' = [scanCalls EXCEPT ![c] =
       [what |-> what, about |-> about, shown |-> shown, from |-> from,
        aware |-> leftBehind = {}]]
  /\ UNCHANGED <<scanSite, listed, panelSubnet, scheduleFrom, schedules, scanSubnet, scanDialog,
                 candidate, leftBehind>>

\* save and setEnabled.
SaveSchedule(c) ==
  /\ ScheduleShown /\ ~Ongoing("schedule")
  /\ SendsScan(c, "schedule", panelSubnet, Selected(panelSubnet), scheduleFrom)

OpenScanDialog(on) ==
  /\ scanDialog = ~on /\ scanDialog' = on
  /\ UNCHANGED <<scanSite, listed, panelSubnet, scheduleFrom, schedules, scanSubnet, candidate,
                 scanCalls, leftBehind>>
ChooseScanSubnet(n) ==
  /\ scanDialog /\ n \in Offered
  /\ scanSubnet' = n /\ leftBehind' = leftBehind \ {"scan"}
  /\ UNCHANGED <<scanSite, listed, panelSubnet, scheduleFrom, schedules, scanDialog, candidate,
                 scanCalls>>
StartScan(c) ==
  scanDialog /\ Offered # {} /\ SendsScan(c, "scan", scanSubnet, Selected(scanSubnet), scanSubnet)

\* The dialog of a pre-registration stays over the page of another site.
OpenCandidate(e) ==
  /\ ScanDevices[e] = scanSite /\ candidate = NotChosen
  /\ candidate' = e
  /\ UNCHANGED <<scanSite, listed, panelSubnet, scheduleFrom, schedules, scanSubnet, scanDialog,
                 scanCalls, leftBehind>>
CloseCandidate ==
  /\ candidate # NotChosen /\ candidate' = NotChosen
  /\ UNCHANGED <<scanSite, listed, panelSubnet, scheduleFrom, schedules, scanSubnet, scanDialog,
                 scanCalls, leftBehind>>
Accept(c) == candidate # NotChosen /\ SendsScan(c, "accept", candidate, candidate, candidate)

\* saveEnrollment: under the site in view when it is submitted.
Enroll(c) == SendsScan(c, "enroll", scanSite, scanSite, scanSite)

\* Answers: the dialog of scans closes, even one opened since; the schedule that
\* was saved is read again; an accepted device is shown on another page.
ScanAnswers(c) ==
  /\ scanCalls[c] # NoScanCall
  /\ scanDialog' = (scanDialog /\ scanCalls[c].what \notin {"scan", "accept"})
  /\ scanCalls' = IF scanCalls[c].what = "accept" THEN [d \in ScanCalls |-> NoScanCall]
                  ELSE [scanCalls EXCEPT ![c] = NoScanCall]
  /\ IF scanCalls[c].what = "accept"
       THEN /\ scanSite' = ScanDevices[scanCalls[c].about] /\ listed' = NotChosen
            /\ panelSubnet' = NotChosen /\ scheduleFrom' = NotChosen /\ schedules' = {}
            /\ scanSubnet' = NotChosen /\ candidate' = NotChosen /\ leftBehind' = {}
       ELSE UNCHANGED <<scanSite, listed, panelSubnet, scheduleFrom, schedules, scanSubnet,
                        candidate, leftBehind>>

ScanRefused(c) ==
  /\ scanCalls[c] # NoScanCall
  /\ scanCalls' = [scanCalls EXCEPT ![c] = NoScanCall]
  /\ UNCHANGED <<scanSite, listed, panelSubnet, scheduleFrom, schedules, scanSubnet, scanDialog,
                 candidate, leftBehind>>

ScanPageNext ==
  \/ SubnetsArrive \/ ScheduleArrives \/ CloseCandidate
  \/ \E s \in ScanSites : SwitchScanSite(s)
  \/ \E n \in AllSubnets : ChooseScheduleSubnet(n) \/ ChooseScanSubnet(n)
  \/ \E on \in BOOLEAN : OpenScanDialog(on)
  \/ \E e \in DOMAIN ScanDevices : OpenCandidate(e)
  \/ \E c \in ScanCalls :
       SaveSchedule(c) \/ StartScan(c) \/ Accept(c) \/ Enroll(c) \/ ScanAnswers(c) \/ ScanRefused(c)

-----------------------------------------------------------------------------
(* Properties *)

\* What is sent is about the subnet the page shows as chosen, unless the site
\* was switched after it was chosen: and a schedule is written to the subnet it
\* was read from, however fast the operator goes through subnets.
SentIsShown ==
  \A c \in ScanCalls :
    scanCalls[c] # NoScanCall =>
      /\ scanCalls[c].about = scanCalls[c].from
      /\ scanCalls[c].aware => scanCalls[c].about = scanCalls[c].shown
=============================================================================
