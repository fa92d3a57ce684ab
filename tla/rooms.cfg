SPECIFICATION Spec
CONSTANTS
  Clerks = {c1, c2}
  Rooms = {r1}
  Guests = {g1, g2}
  Outages = {o1, o2}
  LastNight = 2
  MaxDead = 1
  MaxRows = 2
  Backs = {"CLEAN"}
  None = None
SYMMETRY RoomsSymmetry
INVARIANTS
  RoomsInv
  RoomsAgree
CHECK_DEADLOCK FALSE
