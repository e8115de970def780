------------------------ MODULE MCTopologyConnections ------------------------
(***************************************************************************)
(* Instances of the topology API, of the page that draws its maps, and of  *)
(* the other pages of the web application that keep a selection.  They     *)
(* share no variable, so that a behaviour moves one of them: the one it    *)
(* chooses at its start.                                                   *)
(***************************************************************************)
EXTENDS TopologyConnections, TopologyPage, InfrastructurePage, PortLayouts, IpamPage,
        Session, DashboardLayouts, SnmpMetrics, GlobalSearch, SetupSettings, LinuxAgents,
        RackView, NetAppSnapshots, DiscoveryPage, Translator, OperationsViews, TLC

CONSTANTS
  x, y, px,                \* two devices, a port of the first
  m1, m2,                  \* maps
  s1, s2, b1, b2, r1, r2,  \* sites, a building on each, a room in each
  k1, k2, d1,              \* racks in the first room, a device on the first site
  n1, n2, n3, h1, h3, i1,  \* subnets: two on the first site; hosts, an address
  e1, e2, f1, f2           \* two rows, nodes or alerts; two words, findings or files

Owner == px :> x
NoneOrBoth == {{}, {x, y}}
DrawnOnFirst == m1 :> TopologyDevices @@ m2 :> {}
OneEach == b1 :> s1 @@ b2 :> s2
RoomEach == r1 :> b1
RackInFirst == k1 :> r1
DeviceOfFirst == d1 :> s1
TwoAndOne == n1 :> s1 @@ n2 :> s1 @@ n3 :> s2
HostEach == h1 :> n1 @@ h3 :> n3
AddressInFirst == i1 :> n1
BeyondTheEdge == {150}
RackAndRack == <<k1, k2>>
ThreeAndOne == k1 :> 3 @@ k2 :> 1
OneOnTheOther ==
  e1 :> [rack |-> k1, start |-> 1, size |-> 2] @@ e2 :> [rack |-> k1, start |-> 3, size |-> 1]
ServicesOfHosts == e1 :> h1 @@ e2 :> h1 @@ f1 :> h3
\* Each file has one row to refuse; read otherwise, the first repeats an address.
RowsOfFiles ==
  <<f1, 1>> :> <<n1, n2>> @@ <<f2, 1>> :> <<n1, Unnamed>> @@
  <<f1, 2>> :> <<n1, n1>> @@ <<f2, 2>> :> <<n2>>
SubnetsInOrder == s1 :> <<n1, n2>> @@ s2 :> <<n3>>
OneOrTwoPages == [p \in Clusters \X Collections |-> IF p[1] = e1 THEN 1 ELSE 2]
WarningAndCritical == e1 :> "WARNING" @@ e2 :> "CRITICAL"
OneOfTheSite == e1 :> s1 @@ e2 :> Global
SiteAndGlobal == {[site |-> s1, min |-> "HIGH"], [site |-> Global, min |-> "INFO"]}
OneAndBoth == f1 :> {e1} @@ f2 :> {e1, e2}

\* Parts use the same interchangeable values: TopologyDevices those of Maps,
\* LayoutModels and DashWorkspaces those of
\* Connections, and the calls of pages those of Clients.
Symmetry == Permutations(Maps) \cup Permutations(Connections) \cup Permutations(Clients)

VARIABLE part

Part == {"api", "maps", "infrastructure", "layouts", "ipam", "session", "dashboard",
         "chart", "search", "setup", "agents", "racks", "host", "import", "storage",
         "discovery", "language", "alerts", "quality"}
pagesVars == <<vars, pageVars, screenVars, portVars, ipamVars, sessionVars, dashVars,
               metricVars, searchVars, setupVars, agentVars, rackViewVars, panelVars,
               importVars, storageVars, scanVars, translatorVars, viewVars,
               qualityViewVars, part>>

PagesInit ==
  /\ part \in Part
  /\ part # "infrastructure" => site = s1
  /\ part # "layouts" => savedLayouts = [m \in LayoutModels |-> NoDrawing]
  /\ part # "ipam" => ipamUrl = [site |-> s1, subnet |-> Unset, host |-> Unset, ip |-> Unset]
  /\ part # "storage" => storageSite = s1
  /\ part # "discovery" => scanSite = s1
  /\ part # "language" => organisation = "pt-PT" /\ storedLocale = NoText
  /\ part # "alerts" => asAdmin = TRUE
  /\ Init /\ PageInit /\ ScreenInit /\ LayoutsInit /\ IpamInit /\ SessionInit /\ DashInit
  /\ MetricInit /\ SearchInit /\ SetupInit /\ AgentInit /\ RackViewInit /\ PanelInit
  /\ ImportInit /\ StorageInit /\ ScanInit /\ TranslatorInit /\ ViewInit /\ QualityViewInit

\* The variables of a part change only when it is the one that moves.
Still(p, itsVars) == IF part = p THEN TRUE ELSE UNCHANGED itsVars
Alone ==
  /\ Still("api", vars)
  /\ Still("maps", pageVars)
  /\ Still("infrastructure", screenVars)
  /\ Still("layouts", portVars)
  /\ Still("ipam", ipamVars)
  /\ Still("session", sessionVars)
  /\ Still("dashboard", dashVars)
  /\ Still("chart", metricVars)
  /\ Still("search", searchVars)
  /\ Still("setup", setupVars)
  /\ Still("agents", agentVars)
  /\ Still("racks", rackViewVars)
  /\ Still("host", panelVars)
  /\ Still("import", importVars)
  /\ Still("storage", storageVars)
  /\ Still("discovery", scanVars)
  /\ Still("language", translatorVars)
  /\ Still("alerts", viewVars)
  /\ Still("quality", qualityViewVars)
  /\ UNCHANGED part

\* A bound: two maps are written three times in all.
FewWrites ==
  \A m, n \in Maps :
    m # n /\ MapExists(m) /\ MapExists(n) => map[m].revision + map[n].revision <= 3

\* A bound: in the gallery one move is made, in the view of a rack two.
FewMoves == stands.at < (IF openedRack = Gallery THEN 1 ELSE 2)

\* A bound: one rule, or one maintenance window, changes what is listed next.
FewTurns == Cardinality(alertRules) + Cardinality(quiet) <= 1

\* What comes after a hurried drag, an answer to a page of another site, or a
\* layout or a snapshot that was lost or came late, says nothing more.
PagesNext ==
  \/ part = "api" /\ Next /\ FewWrites' /\ Alone
  \/ part = "maps" /\ ~hurried /\ PageNext /\ Alone
  \/ part = "infrastructure" /\ ~late /\ ScreenNext /\ Alone
  \/ part = "layouts" /\ LayoutsNext /\ Alone
  \/ part = "ipam" /\ IpamNext /\ Alone
  \/ part = "session" /\ SessionNext /\ Alone
  \/ part = "dashboard" /\ ~unsettled /\ DashNext /\ Alone
  \/ part = "chart" /\ MetricNext /\ Alone
  \/ part = "search" /\ SearchNext /\ Alone
  \/ part = "setup" /\ SetupNext /\ Alone
  \/ part = "agents" /\ AgentNext /\ Alone
  \/ part = "racks" /\ FewMoves /\ RackViewNext /\ Alone
  \/ part = "host" /\ PanelNext /\ Alone
  \/ part = "import" /\ ImportNext /\ Alone
  \/ part = "storage" /\ misplaced = {} /\ StorageNext /\ Alone
  \/ part = "discovery" /\ ScanPageNext /\ Alone
  \/ part = "language" /\ TranslatorNext /\ Alone
  \/ part = "alerts" /\ FewTurns /\ ViewNext /\ Alone
  \/ part = "quality" /\ QualityViewNext /\ Alone

PagesSpec == PagesInit /\ [][PagesNext]_pagesVars

(* What each page selects, edits and draws has its shape and belongs       *)
(* together, whatever answers come while it is used.                       *)
PagesHangTogether ==
  /\ part = "maps" => PageTypeOK
  /\ part = "infrastructure" => ScreenTypeOK /\ SelectionStaysInSite /\ EditorsKeepTheirRow
  /\ part = "layouts" => LayoutsTypeOK /\ PortsStayOnImage /\ PortsKeepTheirModel
  /\ part = "ipam" => IpamTypeOK /\ OpenedHangsTogether
  /\ part = "dashboard" => DashTypeOK /\ LayoutsAreSeen
  /\ part = "racks" => RackViewTypeOK /\ PictureIsInOrder /\ PlacedAsShown /\ LetGoWhereTaken
  /\ part = "host" => FieldsKeepTheirOwner /\ WrittenFromItself
  /\ part = "import" => ImportIsAsPreviewed /\ AddressesOnce
  /\ part = "storage" => SnapshotsAreWhole /\ SnapshotsAreOwn
  /\ part = "discovery" => SentIsShown

(* What the gate, the wizard, the palette, the chart of an interface, the  *)
(* list of agents, the translator, the list of alerts and the summary of   *)
(* quality tell is so, whatever came late, was lost, or started again in   *)
(* between.                                                                *)
WhatIsToldIsTrue ==
  /\ part = "session" => SessionTypeOK /\ PagesHaveUser
  /\ part = "setup" => SetupTypeOK /\ SetupIsSound
  /\ part = "search" => SearchTypeOK /\ ShownIsTyped
  /\ part = "chart" => MetricTypeOK /\ RatesAreTrue
  /\ part = "agents" => AgentTypeOK /\ StateIsTrue
  /\ part = "language" => TranslatorTypeOK /\ PageIsInOneLanguage /\ LanguageIsKept
  /\ part = "alerts" => ViewTypeOK /\ RaisedIsUnread /\ BellShowsGravest
  /\ part = "quality" => SummaryAddsUp
=============================================================================
