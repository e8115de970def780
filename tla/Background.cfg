CONSTANTS
  AlertKeys = {k1, k2}
  Instances = {i1}
  Cap = 1
  MaxTurns = 3
  MaxDecisions = 2
  MaxAborts = 1
  NoAlert = NoAlert
  s1 = s1
  s2 = s2
  Facts = {f1}
  Sites = {s1, s2, s3}
  SitesOf <- BothSites
  MaxMutations = 2
  MaxReviews = 1
  MaxAsked = 1
  MaxBreaks = 1
  Told = {TRUE, FALSE}
  NoFinding = NoFinding
  Everywhere = Everywhere
  Writers = {"here", "there", "worker"}
  MaxVersions = 2
  MaxCuts = 2
  Notices = {n1}
  Informs = {n1}
  Clients = {c1, c2}
  MaxRequests = 2
  MaxLost = 1
  MaxCrashes = 1
  NoEvent = NoEvent
  AskedScans = {a1}
  TimedScans = {t1}
  Addresses = {x1}
  MaxSwitches = 2
  MaxFaults = 2
  NoScan = NoScan
  Nics = {e1, e2}
  MaxChanges = 3
  MaxFailures = 1
  NoFile = NoFile
  SocketNics = {e1, e2}
  Any = Any
  MaxNicTurns = 3
  MaxSocketFaults = 1
  NoRefresh = NoRefresh
SPECIFICATION WorkSpec
INVARIANTS
  WorkTypeOK
  OneDevicePerAddress
PROPERTIES
  ResolvedOnlyWhenGone
  AlertsFollowCauses
  FindingsFollowFacts
  PanelCatchesUp
  TrapsAreHandled
  ScansAreHandled
  ReceptionFollowsChoice
CHECK_DEADLOCK FALSE
