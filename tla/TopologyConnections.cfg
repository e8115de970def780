CONSTANTS
  x = x
  y = y
  px = px
  None = None
  Gone = Gone
  Maps = {u1, u2}
  Connections = {v1, v2}
  Devices = {x, y}
  Ports = {px}
  DeviceOf <- Owner
  Clients = {c1, c2}
  NodeSets <- NoneOrBoth
  MaxRevision = 2
  m1 = m1
  m2 = m2
  TopologyMaps = {m1, m2}
  TopologyDevices = {u1, u2}
  Places = {1, 2}
  FirstPlace = 1
  Requests = {c1, c2}
  LastRevision = 2
  MaxActs = 3
  DrawnOn <- DrawnOnFirst
  NoMap = NoMap
  NoData = NoData
  NothingPending = NothingPending
  NoTimer = NoTimer
  NoCallout = NoCallout
  s1 = s1
  s2 = s2
  b1 = b1
  b2 = b2
  r1 = r1
  r2 = r2
  k1 = k1
  k2 = k2
  e1 = e1
  e2 = e2
  f1 = f1
  f2 = f2
  d1 = d1
  PageSites = {s1, s2}
  PageBuildings = {b1, b2}
  PageRooms = {r1}
  PageRacks = {k1}
  PageDevices = {d1}
  PageModels = {o3}
  SiteOfBuilding <- OneEach
  BuildingOfRoom <- RoomEach
  RoomOfRack <- RackInFirst
  SiteOfDevice <- DeviceOfFirst
  Awaited = {q3}
  Nothing = Nothing
  NoAnswer = NoAnswer
  LayoutModels = {v1, v2}
  PortCalls = {q3}
  Full = 200
  Pulls <- BeyondTheEdge
  KeySteps = {4}
  TypedValues = {200}
  MaxPorts = 1
  MaxTouches = 2
  NoModel = NoModel
  NoDrawing = NoDrawing
  NoGesture = NoGesture
  NoPortCall = NoPortCall
  n1 = n1
  n2 = n2
  n3 = n3
  h1 = h1
  h3 = h3
  i1 = i1
  IpamSites = {s1, s2}
  PageSubnets = {n1, n2, n3}
  PageHosts = {h1, h3}
  PageIps = {i1}
  SiteOfSubnet <- TwoAndOne
  SubnetOfHost <- HostEach
  SubnetOfIp <- AddressInFirst
  IpamCalls = {q3}
  Unset = Unset
  NoIpamCall = NoIpamCall
  MaxTokenAge = 3
  Nobody = Nobody
  DashWorkspaces = {v1, v2}
  DashSites = {{v1, v2}}
  DashCalls = {c1, c2}
  MaxDashRevision = 1
  NoLayout = NoLayout
  NoWorkspace = NoWorkspace
  NoDashCall = NoDashCall
  SetupCalls = {q3, q4}
  Wizard = q3
  MaxSettingCalls = 1
  MaxSetupSites = 1
  NoRow = NoRow
  NoSettingCall = NoSettingCall
  Wrap = 2
  Retention = 2
  MaxTime = 3
  MaxOctets = 4
  MaxBoots = 1
  MaxReadings = 4
  Missing = Missing
  NoRate = NoRate
  Queries = {u1, u2}
  Short = Short
  MaxKeys = 3
  MaxHits = 2
  MaxEnrollments = 2
  Random = Random
  Never = Never
  NoBeat = NoBeat
  RoomRacks <- RackAndRack
  RackHeights <- ThreeAndOne
  Movables = {e1, e2}
  FirstSlots <- OneOnTheOther
  RackCalls = {c1, c2}
  PerPage = 1
  MaxMoves = 2
  Gallery = Gallery
  NoProposal = NoProposal
  NoRackCall = NoRackCall
  Unserved = Unserved
  ServiceHost <- ServicesOfHosts
  PanelHosts = {h1, h3}
  PanelCalls = {c1, c2}
  NoHost = NoHost
  Empty = Empty
  NoOperation = NoOperation
  CsvFiles = {f1, f2}
  Columns = {1, 2}
  Detected = 1
  CsvRows <- RowsOfFiles
  Addresses = {n1}
  ImportCalls = {c1, c2}
  MaxKept = 1
  Unnamed = Unnamed
  NoFile = NoFile
  NoPreview = NoPreview
  NoImportCall = NoImportCall
  NetAppSites = {s1, s2}
  Clusters = {e1, e2}
  Collections = {f1}
  PagesOf <- OneOrTwoPages
  PageLimit = 1
  StorageCalls = {c1, c2}
  Unconfigured = Unconfigured
  NoStorageCall = NoStorageCall
  ScanSites = {s1, s2}
  ScanSubnets <- SubnetsInOrder
  ScanDevices <- DeviceOfFirst
  ScanCalls = {q3}
  NotChosen = NotChosen
  NoScanCall = NoScanCall
  TextNodes = {e1, e2}
  Keyed = {e2}
  Words = {f1, f2}
  Dictionary = {f1}
  NoText = NoText
  NoSettings = NoSettings
  ViewAlerts = {e1, e2}
  SeverityOf <- WarningAndCritical
  SiteOfAlert <- OneOfTheSite
  Entities = {e1}
  RuleChoices <- SiteAndGlobal
  BellSize = 1
  Notices = {f1}
  Global = Global
  NoMarking = NoMarking
  SeenDevices = {e1, e2}
  SeenFindings = {f1, f2}
  DevicesBehind <- OneAndBoth
  ModelFindings = {f2}
  AddressFindings = {f1}
  NoSummary = NoSummary
SPECIFICATION PagesSpec
SYMMETRY Symmetry
INVARIANTS
  TypeOK
  PortsExclusive
  SavedIsSaved
  PagesHangTogether
  WhatIsToldIsTrue
PROPERTIES
  LinksJoinNodes
  RevisionNumbersMap
CHECK_DEADLOCK FALSE
