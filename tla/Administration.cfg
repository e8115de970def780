CONSTANTS
  a = a
  b = b
  Racks = {a, b}
  Devices = {d1, d2, d3, d4}
  Heights = {1, 2}
  Units <- FourAndTwo
  p1 = p1
  p2 = p2
  g1 = g1
  People = {p1, p2}
  Groups = {g1}
  MembersOf <- MembersOfG1
  Desks = {c1, c2}
  RoleRequests = {q1}
  MaxTasks = 3
  MaxRefusals = 1
  MaxSaves = 1
  NoRequest = NoRequest
  readKey = readKey
  trapKey = trapKey
  enrolled = enrolled
  Credentials = {readKey, trapKey}
  Enrollments = {enrolled}
  AdoptedAs <- TrapKeyOfEnrolled
  Integrations = {ontap}
  Secrets = {x1, x2}
  Keys = {k1, k2}
  FirstKey = k1
  Callers = {c1, c2}
  Rotators = {c3}
  MaxSealed = 2
  MaxRotations = 1
  Unlocked = Unlocked
  NoRow = NoRow
  Gone = Gone
  NoCall = NoCall
  s1 = s1
  b1 = b1
  r1 = r1
  AccessGroups = {team1, team2}
  Sites = {s1, s2}
  Buildings = {b1}
  Rooms = {r1}
  SiteOf <- SiteOfB1
  BuildingOf <- BuildingOfR1
  RoleSets <- OneRoleEach
  Clerks = {c1, c2}
  MaxEdits = 3
  NoEdit = NoEdit
  Bits = 3
  SubnetRows = {n1, n2}
  Vrfs = {v1}
  Vlans = {l1}
  NoVrf = NoVrf
  NoVlan = NoVlan
  AskedPrefixes = {0, 1}
  Planners = {c1, c2}
  MaxWritings = 3
  NoSubnet = NoSubnet
  NoWriting = NoWriting
  MaxAddresses = 3
  NoAddress = NoAddress
  Subjects = {j1, j2}
  Names = {y1, y2}
  j1 = j1
  j2 = j2
  y1 = y1
  w1 = w1
  TokenRoles <- TokenOfOneRole
  UserRows = {w1, w2}
  Bearers = {c1, c2}
  MaxTokens = 3
  NoUser = NoUser
  NoToken = NoToken
SPECIFICATION AdminSpec
SYMMETRY Symmetry
INVARIANTS
  AdminTypeOK
  DropsAreStable
  ToldOnce
  RolesOfOneToken
  SecretsAreNotReused
  DecisionsAgree
  PlanIsExact
PROPERTIES
  DropsSeparate
  LastAdminFallsInARace
  ClashesNeedARace
CHECK_DEADLOCK FALSE
