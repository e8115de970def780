------------------------------ MODULE IpamPage -------------------------------
(***************************************************************************)
(* The IPAM page of one browser tab: apps/web/features/ipam/ipam-page.tsx  *)
(* with the panels of a host and of an address, which show what is opened  *)
(* and keep the forms they were mounted with.                              *)
(***************************************************************************)
EXTENDS Integers

CONSTANTS
  IpamSites, PageSubnets, PageHosts, PageIps,
  SiteOfSubnet, SubnetOfHost, SubnetOfIp,
  IpamCalls,   \* calls of the API the page may await at once (a bound)
  Unset, NoIpamCall

ASSUME SubnetAssumption ==
  /\ SiteOfSubnet \in [PageSubnets -> IpamSites]
  /\ SubnetOfHost \in [PageHosts -> PageSubnets] /\ SubnetOfIp \in [PageIps -> PageSubnets]
  /\ Unset \notin PageSubnets \cup PageHosts \cup PageIps

VARIABLES
  ipamSite,    \* the site of SiteProvider
  ipamUrl,     \* the parameters of the address
  opened,      \* selectedSubnetId, hostDetailId, ipDetail
  panelForm,   \* the address whose fields IpAddressPanel was mounted with
  ipamModal,   \* the dialog, and the subnet it was opened over
  ipamCalls,   \* what each handler that awaits keeps
  removed,     \* subnets that the server has no more
  overtaken    \* an answer was used after what its handler had seen had changed

ipamVars == <<ipamSite, ipamUrl, opened, panelForm, ipamModal, ipamCalls, removed, overtaken>>

OrUnset(S) == S \cup {Unset}
Nowhere == [subnet |-> Unset, host |-> Unset, ip |-> Unset]
NoDialog == [kind |-> "none", over |-> Unset]
Seen == [site |-> ipamSite, subnet |-> opened.subnet, ip |-> opened.ip, dialog |-> ipamModal]
SiteOfHost(h) == SiteOfSubnet[SubnetOfHost[h]]
SiteOfIp(i) == SiteOfSubnet[SubnetOfIp[i]]

(* A page opened at its address, which may lead to a subnet, and there to  *)
(* an address and a host.  A host without a subnet is opened, and closed   *)
(* by the effect that clears the selection of the site before.             *)
IpamInit ==
  /\ ipamSite \in IpamSites
  /\ \E s \in OrUnset({n \in PageSubnets : SiteOfSubnet[n] = ipamSite}),
        h \in OrUnset(PageHosts), i \in OrUnset(PageIps) :
       /\ h # Unset => SiteOfHost(h) = ipamSite
       /\ i # Unset => s # Unset /\ SubnetOfIp[i] = s
       /\ ipamUrl = [site |-> ipamSite, subnet |-> s, host |-> h, ip |-> i]
  /\ opened = Nowhere /\ panelForm = Unset /\ ipamModal = NoDialog
  /\ removed = {} /\ overtaken = FALSE
  /\ ipamCalls = [q \in IpamCalls |-> NoIpamCall]

OnPage == ipamModal = NoDialog /\ opened.ip = Unset  \* dialog and panel cover it
Here == {n \in PageSubnets \ removed : SiteOfSubnet[n] = ipamSite}

SwitchSite(s) ==
  /\ OnPage /\ s # ipamSite
  /\ ipamSite' = s
  /\ ipamUrl' = [ipamUrl EXCEPT !.site = s, !.subnet = Unset, !.host = Unset]
  /\ opened' = Nowhere
  /\ overtaken' = FALSE
  /\ UNCHANGED <<panelForm, ipamModal, ipamCalls, removed>>

(* What is opened at once.                                                 *)
Opens(next, url, form) ==
  /\ opened' = next /\ ipamUrl' = url /\ panelForm' = form
  /\ UNCHANGED <<ipamSite, ipamModal, ipamCalls, removed, overtaken>>
OpenHost(h) ==
  /\ OnPage /\ opened.subnet # Unset /\ SubnetOfHost[h] = opened.subnet
  /\ Opens([opened EXCEPT !.host = h], [ipamUrl EXCEPT !.host = h], panelForm)
CloseHost ==
  /\ OnPage /\ opened.host # Unset
  /\ Opens([opened EXCEPT !.host = Unset], [ipamUrl EXCEPT !.host = Unset], panelForm)
EditIp(i) ==
  /\ OnPage /\ opened.subnet # Unset /\ SubnetOfIp[i] = opened.subnet
  /\ Opens([opened EXCEPT !.ip = i], [ipamUrl EXCEPT !.ip = i], i)
CloseIp ==
  /\ ipamModal = NoDialog /\ opened.ip # Unset
  /\ Opens([opened EXCEPT !.ip = Unset], [ipamUrl EXCEPT !.ip = Unset], Unset)
IpsArrive ==  \* the effect on ips: the address in the URL, if it is among them
  /\ opened.subnet # Unset /\ ipamUrl.ip # Unset /\ SubnetOfIp[ipamUrl.ip] = opened.subnet
  /\ Opens([opened EXCEPT !.ip = ipamUrl.ip], ipamUrl,
           IF opened.ip = Unset THEN ipamUrl.ip ELSE panelForm)
OpenDialog(kind) ==
  /\ OnPage
  /\ kind \in {"vlan", "subnet"} \cup (IF opened.subnet = Unset THEN {} ELSE {"ip", "create-host"})
  /\ ipamModal' = [kind |-> kind, over |-> opened.subnet]
  /\ UNCHANGED <<ipamSite, ipamUrl, opened, panelForm, ipamCalls, removed, overtaken>>
LeaveDialog ==
  /\ ipamModal # NoDialog
  /\ ipamModal' = NoDialog
  /\ UNCHANGED <<ipamSite, ipamUrl, opened, panelForm, ipamCalls, removed, overtaken>>

(* Handlers that await the API keep what they have seen; then is what they *)
(* open after a save, and keep the address of the page in the URL or not.  *)
AsksIpam(q, kind, row, preserve, then) ==
  ipamCalls' = [ipamCalls EXCEPT ![q] = [kind |-> kind, row |-> row, preserve |-> preserve,
                                         then |-> then, seen |-> Seen]]
AskIpam(q) ==
  /\ ipamCalls[q] = NoIpamCall
  /\ \/ OnPage /\ \E n \in Here : AsksIpam(q, "open", n, FALSE, Unset)
     \/ /\ OnPage /\ opened = Nowhere /\ ipamUrl.subnet # Unset  \* the deep link
        /\ AsksIpam(q, "open", ipamUrl.subnet, ipamUrl.ip # Unset, ipamUrl.host)
     \/ OnPage /\ \E n \in Here : AsksIpam(q, "remove", n, FALSE, Unset)
     \/ ipamModal.kind \in {"vlan", "subnet"} /\ AsksIpam(q, "save", Unset, FALSE, Unset)
     \/ ipamModal.kind = "ip" /\ AsksIpam(q, "save", opened.subnet, FALSE, Unset)
     \/ /\ ipamModal.kind = "create-host"
        /\ \E h \in PageHosts : /\ SubnetOfHost[h] = opened.subnet
                                /\ AsksIpam(q, "save", opened.subnet, FALSE, h)
     \/ /\ ipamModal = NoDialog /\ opened.ip # Unset
        /\ AsksIpam(q, "save ip", opened.ip, FALSE, Unset)
  /\ UNCHANGED <<ipamSite, ipamUrl, opened, panelForm, ipamModal, removed, overtaken>>

Ends(q) == ipamCalls' = [ipamCalls EXCEPT ![q] = NoIpamCall]
SubnetOpened(c) ==  \* openSubnet, and what follows it
  IF c.row \in removed THEN UNCHANGED <<opened, ipamUrl>>
  ELSE /\ opened' = [opened EXCEPT !.subnet = c.row,
                                   !.host = IF c.then = Unset THEN @ ELSE c.then]
       /\ ipamUrl' = [site |-> SiteOfSubnet[c.row], subnet |-> c.row,
                      ip |-> IF c.preserve THEN ipamUrl.ip ELSE Unset,
                      host |-> IF c.then = Unset THEN ipamUrl.host ELSE c.then]
AnswerIpam(q) ==
  /\ ipamCalls[q] # NoIpamCall
  /\ LET c == ipamCalls[q]
     IN /\ overtaken' = (overtaken \/ c.seen # Seen)
        /\ CASE c.kind = "open" ->
                  /\ SubnetOpened(c) /\ Ends(q)
                  /\ UNCHANGED <<panelForm, ipamModal, removed>>
             [] c.kind = "save" ->  \* the dialog closes, whichever is open by now
                  /\ ipamModal' = NoDialog
                  /\ IF c.row = Unset THEN Ends(q)
                     ELSE ipamCalls' = [ipamCalls EXCEPT ![q] =
                            [c EXCEPT !.kind = "open", !.seen.dialog = NoDialog]]
                  /\ UNCHANGED <<opened, ipamUrl, panelForm, removed>>
             [] c.kind = "save ip" ->  \* updated: the panel shows it, again if it was closed
                  /\ opened' = [opened EXCEPT !.ip = c.row]
                  /\ panelForm' = IF opened.ip = Unset THEN c.row ELSE panelForm
                  /\ Ends(q)
                  /\ UNCHANGED <<ipamUrl, ipamModal, removed>>
             [] c.kind = "remove" ->
                  /\ removed' = removed \cup {c.row}
                  /\ ipamModal' = NoDialog
                  /\ IF c.seen.subnet = c.row
                     THEN /\ opened' = [opened EXCEPT !.subnet = Unset, !.host = Unset]
                          /\ ipamUrl' = [ipamUrl EXCEPT !.subnet = Unset, !.host = Unset]
                     ELSE UNCHANGED <<opened, ipamUrl>>
                  /\ Ends(q) /\ UNCHANGED panelForm
  /\ UNCHANGED ipamSite
RefuseIpam(q) ==
  /\ ipamCalls[q] # NoIpamCall
  /\ Ends(q)
  /\ UNCHANGED <<ipamSite, ipamUrl, opened, panelForm, ipamModal, removed, overtaken>>

IpamNext ==
  \/ \E s \in IpamSites : SwitchSite(s)
  \/ \E h \in PageHosts : OpenHost(h)
  \/ \E i \in PageIps : EditIp(i)
  \/ CloseHost \/ CloseIp \/ IpsArrive \/ LeaveDialog
  \/ \E kind \in {"vlan", "subnet", "ip", "create-host"} : OpenDialog(kind)
  \/ \E q \in IpamCalls : AskIpam(q) \/ AnswerIpam(q) \/ RefuseIpam(q)

IpamSpec == IpamInit /\ [][IpamNext]_ipamVars
-----------------------------------------------------------------------------
IpamTypeOK ==
  /\ ipamSite \in IpamSites
  /\ ipamUrl \in [site : IpamSites, subnet : OrUnset(PageSubnets), host : OrUnset(PageHosts),
                  ip : OrUnset(PageIps)]
  /\ opened \in [subnet : OrUnset(PageSubnets), host : OrUnset(PageHosts), ip : OrUnset(PageIps)]
  /\ panelForm \in OrUnset(PageIps)
  /\ ipamModal \in [kind : {"none", "vlan", "subnet", "ip", "create-host"}, over : OrUnset(PageSubnets)]
  /\ removed \subseteq PageSubnets /\ overtaken \in BOOLEAN

(* While every answer finds the page as its handler had seen it, what is   *)
(* open lies in the site and is not of a subnet that was removed, forms    *)
(* write to the subnet they were opened over, and the panel of an address  *)
(* saves its own fields.                                                   *)
OpenedHangsTogether ==
  ~overtaken =>
    /\ ipamUrl.site = ipamSite
    /\ opened.subnet # Unset =>
         SiteOfSubnet[opened.subnet] = ipamSite /\ opened.subnet \notin removed
    /\ opened.host # Unset => SiteOfHost(opened.host) = ipamSite
    /\ opened.ip # Unset => SubnetOfIp[opened.ip] = opened.subnet /\ panelForm = opened.ip
    /\ ipamModal.kind \in {"ip", "create-host"} => ipamModal.over = opened.subnet

-----------------------------------------------------------------------------
(***************************************************************************)
(* The card of a host beside the IPAM page                                 *)
(* (apps/web/features/ipam/components/host-panel.tsx): the form of the     *)
(* host, the one form that creates and edits its services, and what is     *)
(* saved from them.  The card stays mounted while the page opens another   *)
(* host, and every operation ends by opening again the host it was         *)
(* started from.                                                           *)
(***************************************************************************)
CONSTANTS
  ServiceHost,   \* the host of each service: a function
  PanelHosts,
  PanelCalls,    \* operations the card may have under way
  NoHost,
  Empty,         \* emptyService, or what was typed over it
  NoOperation

HostServices(h) == {s \in DOMAIN ServiceHost : ServiceHost[s] = h}

VARIABLES
  panelHost,       \* host
  hostFields,      \* the host the fields of "form" were filled from
  editingHost,     \* editing
  serviceFields,   \* the service the fields of "service" were filled from, or Empty
  editingService,  \* editingServiceId, or Empty
  operations,
  disturbed        \* an operation ended, or a host was opened, under another form (ghost)

panelVars ==
  <<panelHost, hostFields, editingHost, serviceFields, editingService, operations, disturbed>>

Blank == /\ editingHost' = FALSE /\ serviceFields' = Empty /\ editingService' = Empty
         /\ disturbed' = FALSE

PanelInit ==
  /\ panelHost = NoHost /\ hostFields = NoHost /\ editingHost = FALSE
  /\ serviceFields = Empty /\ editingService = Empty /\ disturbed = FALSE
  /\ operations = [c \in PanelCalls |-> NoOperation]

-----------------------------------------------------------------------------
(* The page opens a host: a card that is there keeps its state, but for the *)
(* fields of the host.                                                      *)
Shows(h) ==
  /\ panelHost' = h /\ hostFields' = h
  /\ IF panelHost = NoHost THEN Blank
     ELSE /\ UNCHANGED <<editingHost, serviceFields, editingService>>
          /\ disturbed' = (disturbed \/ editingService \notin HostServices(h) \cup {Empty})

OpenPanel(h) == Shows(h) /\ UNCHANGED operations

\* Operations go on without the card; what they set in it is lost.
ClosePanel ==
  /\ panelHost # NoHost
  /\ panelHost' = NoHost /\ hostFields' = NoHost /\ Blank
  /\ operations' = [c \in PanelCalls |->
                      IF operations[c] = NoOperation THEN NoOperation
                      ELSE [operations[c] EXCEPT !.mounted = FALSE]]

EditHost(on) ==
  /\ panelHost # NoHost /\ editingHost = ~on
  /\ editingHost' = on
  /\ UNCHANGED <<panelHost, hostFields, serviceFields, editingService, operations, disturbed>>

BeginServiceEdit(s) ==
  /\ s \in HostServices(panelHost)
  /\ serviceFields' = s /\ editingService' = s /\ disturbed' = FALSE
  /\ UNCHANGED <<panelHost, hostFields, editingHost, operations>>

\* The form is drawn under the service it edits; without one, for a new one.
ServiceFormShown == panelHost # NoHost /\ editingService \in HostServices(panelHost) \cup {Empty}

Cancelled == serviceFields' = Empty /\ editingService' = Empty /\ disturbed' = FALSE
CancelServiceEdit ==
  /\ ServiceFormShown
  /\ Cancelled
  /\ UNCHANGED <<panelHost, hostFields, editingHost, operations>>

-----------------------------------------------------------------------------
(* act: an operation, the words that follow it, and opening the host again. *)

BeginOperation(c, what, about, from) ==
  /\ panelHost # NoHost /\ operations[c] = NoOperation
  /\ operations' = [operations EXCEPT ![c] =
       [what |-> what, about |-> about, from |-> from, host |-> panelHost, mounted |-> TRUE]]
  /\ UNCHANGED <<panelHost, hostFields, editingHost, serviceFields, editingService, disturbed>>

SaveHost(c) == editingHost /\ BeginOperation(c, "host", panelHost, hostFields)
CreateService(c) ==
  editingService = Empty /\ BeginOperation(c, "create", Empty, serviceFields)
SaveService(c) ==
  ServiceFormShown /\ editingService # Empty
  /\ BeginOperation(c, "service", editingService, serviceFields)

\* deleteHost, unlinkHostIpAddress, deleteService: nothing follows in the card.
ActOnly(c) == BeginOperation(c, "other", panelHost, hostFields)

OperationEnds(c) ==
  /\ operations[c] # NoOperation /\ operations[c].what # "reload"
  /\ LET op == operations[c]
     IN /\ operations' = [operations EXCEPT ![c] =
             [what |-> "reload", about |-> op.host, from |-> op.host, host |-> op.host,
              mounted |-> op.mounted]]
        /\ editingHost' = (editingHost /\ ~(op.mounted /\ op.what = "host"))
        /\ IF op.mounted /\ op.what = "create"
             THEN /\ serviceFields' = Empty
                  /\ disturbed' = (disturbed \/ editingService # Empty)
                  /\ UNCHANGED editingService
           ELSE IF op.mounted /\ op.what = "service" THEN Cancelled
           ELSE UNCHANGED <<serviceFields, editingService, disturbed>>
  /\ UNCHANGED <<panelHost, hostFields>>

OperationFails(c) ==
  /\ operations[c] # NoOperation
  /\ operations' = [operations EXCEPT ![c] = NoOperation]
  /\ UNCHANGED <<panelHost, hostFields, editingHost, serviceFields, editingService, disturbed>>

\* The host the operation was started from is in the card again, whichever
\* host, or none, the operator went on to.
Reloads(c) ==
  /\ operations[c] # NoOperation /\ operations[c].what = "reload"
  /\ Shows(operations[c].about)
  /\ operations' = [operations EXCEPT ![c] = NoOperation]

PanelNext ==
  \/ ClosePanel \/ CancelServiceEdit
  \/ \E on \in BOOLEAN : EditHost(on)
  \/ \E h \in PanelHosts : OpenPanel(h)
  \/ \E s \in DOMAIN ServiceHost : BeginServiceEdit(s)
  \/ \E c \in PanelCalls :
       \/ SaveHost(c) \/ CreateService(c) \/ SaveService(c) \/ ActOnly(c)
       \/ OperationEnds(c) \/ OperationFails(c) \/ Reloads(c)

-----------------------------------------------------------------------------
(* Properties *)

\* The fields of the card are of what they will be written to, though it
\* changes hosts while operations are under way, unless a creation that ended
\* emptied the form of a service that was being edited.
FieldsKeepTheirOwner ==
  /\ hostFields = panelHost
  /\ serviceFields # Empty => editingService = serviceFields
  /\ ~disturbed => editingService = serviceFields
  /\ ~disturbed => editingService \in HostServices(panelHost) \cup {Empty}

\* What an operation under way writes to a host or to a service was filled from
\* it, or typed over an emptied form.
WrittenFromItself ==
  \A c \in PanelCalls :
    operations[c] # NoOperation /\ operations[c].what \in {"host", "service"} =>
      operations[c].from \in {operations[c].about, Empty}
=============================================================================
