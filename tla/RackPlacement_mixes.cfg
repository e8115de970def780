CONSTANTS
  a = a
  b = b
  None = None
  Racks = {a, b}
  Devices = {d1, d2, d3}
  Clients = {c1, c2}
  Heights = {1, 2}
  Starts = {1, 2}
  Units <- TwoAndOne
  RoomOf <- OneRoom
  Operations = {"create", "edit", "update", "retire", "place", "import", "bulk"}
SPECIFICATION MixSpec
SYMMETRY Symmetry
INVARIANT TypeOK
PROPERTY SlotsAreValidated
CHECK_DEADLOCK FALSE
