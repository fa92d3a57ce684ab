SPECIFICATION HotelSpec
CONSTANTS
  Rooms = {r1, r2}
  Stays = {s1, s2}
  Outages = {o1}
  LastDay = 3
  Cents = {100}
  Codes = {web}
  None = None
SYMMETRY ReportsSymmetry
INVARIANTS
  ChannelsAddUp
  ReportsInv
PROPERTIES
  PastIsKept
CHECK_DEADLOCK FALSE
