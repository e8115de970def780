CONSTANTS
  a = a
  b = b
  None = None
  Racks = {a}
  Devices = {d1, d2}
  Clients = {c1}
  Heights = {1, 2}
  Starts = {1, 2}
  Units <- Two
  RoomOf <- OneRoom
  Operations = {"create", "place"}
SPECIFICATION UnmixedSpec
SYMMETRY Symmetry
INVARIANT NoOverlap
CHECK_DEADLOCK FALSE
